------------------------- MODULE Properties_proofs --------------------------
(***************************************************************************)
(* What PropertyStore promises, for every tree, every set of properties,   *)
(* slots and handlers and every depth of nesting.                          *)
(*                                                                         *)
(* The value an object reads is computed along its parents, by a recursive *)
(* function.  A parent is a smaller number, so a claim about what objects  *)
(* read is proved at the first object where it could fail (First); that    *)
(* the functions satisfy their equations comes from AlongParents.          *)
(*                                                                         *)
(* The invariant: whoever has not been told of a change will be, by a      *)
(* frame of the stack.  An object last told b of p is covered by a frame   *)
(* that has yet to announce p of it with b as the value before, or of an   *)
(* object it reads p through; a handler owed a value, by a frame that has  *)
(* yet to come to it with that value.                                      *)
(***************************************************************************)
EXTENDS Binding, VisualState, FiniteSetTheorems, WellFoundedInduction, TLAPS

(* The inheritance parents of a tree.                                      *)
Tree(tree) == tree \in [Objects -> 0 .. NObjects] /\ \A o \in Objects : tree[o] < o

(* The objects that read p from o: nothing between them and o has a value  *)
(* of its own.                                                             *)
Chain(val, tree, o, p, S) ==
    /\ S \subseteq Objects \ {o}
    /\ \A y \in S : OwnValue(val, y, p) = Unset /\ (tree[y] = o \/ tree[y] \in S)
Heirs(val, tree, o, p) == UNION {S \in SUBSET Objects : Chain(val, tree, o, p, S)}

-----------------------------------------------------------------------------
(* Induction over the objects: of what fails there is a first.             *)
LEMMA First ==
  ASSUME NEW S, S \subseteq Nat, S # {}
  PROVE  \E x \in S : \A y \in S : x <= y
<1>1. PICK x \in S : \A y \in S : ~(<<y, x>> \in OpToRel(<, Nat))
  BY NatLessThanWellFounded, WFMin
<1>2. \A y \in S : ~(y < x)
  BY <1>1 DEF OpToRel
<1> QED
  BY <1>2

(* What is computed along the parents is well defined.                     *)
Computed(tree, b, step, n, f) ==
    f[0] = b /\ \A x \in 1 .. n : f[x] = step[<<x, f[tree[x]]>>]

Steps(V) == [Objects \X V -> V]

LEMMA OneMore ==
  ASSUME NEW tree, Tree(tree), NEW V, NEW b \in V, NEW step \in Steps(V),
         NEW n \in Objects, NEW f \in [0 .. (n - 1) -> V], Computed(tree, b, step, n - 1, f)
  PROVE  \E g \in [0 .. n -> V] : Computed(tree, b, step, n, g)
<1> DEFINE g == [x \in 0 .. n |-> IF x = n THEN step[<<n, f[tree[n]]>>] ELSE f[x]]
<1>1. /\ n \in Nat /\ n >= 1 /\ n <= NObjects
      /\ \A x \in 1 .. n : x \in Objects /\ tree[x] \in 0 .. (n - 1) /\ tree[x] # n /\ tree[x] \in 0 .. n
  BY SizeAssumption DEF Tree, Objects
<1>2. step[<<n, f[tree[n]]>>] \in V
  BY <1>1 DEF Steps
<1>3. g \in [0 .. n -> V]
  BY <1>1, <1>2
<1>4. g[0] = b
  BY <1>1 DEF Computed
<1>5. ASSUME NEW x \in 1 .. n PROVE g[x] = step[<<x, g[tree[x]]>>]
  <2>1. g[tree[x]] = f[tree[x]]
    BY <1>1
  <2>2. CASE x = n
    BY <1>1, <2>1, <2>2
  <2>3. CASE x # n
    <3>1. x \in 1 .. (n - 1) /\ x \in 0 .. n
      BY <1>1, <2>3
    <3>2. f[x] = step[<<x, f[tree[x]]>>]
      BY <3>1 DEF Computed
    <3> QED
      BY <2>1, <2>3, <3>1, <3>2
  <2> QED
    BY <2>2, <2>3
<1> HIDE DEF g
<1> QED
  BY <1>3, <1>4, <1>5 DEF Computed

LEMMA AlongParents ==
  ASSUME NEW tree, Tree(tree), NEW V, NEW b \in V, NEW step \in Steps(V)
  PROVE  \E f \in [0 .. NObjects -> V] :
            f[0] = b /\ \A x \in Objects : f[x] = step[<<x, f[tree[x]]>>]
<1> DEFINE Fails == {n \in 0 .. NObjects : \A f \in [0 .. n -> V] : ~Computed(tree, b, step, n, f)}
<1>1. Fails = {}
  <2> SUFFICES ASSUME Fails # {} PROVE FALSE
    OBVIOUS
  <2>1. PICK n \in Fails : \A m \in Fails : n <= m
    <3>1. Fails \subseteq Nat
      BY SizeAssumption
    <3> HIDE DEF Fails
    <3> QED
      BY <3>1, First
  <2>2. n # 0
    <3>1. [x \in 0 .. 0 |-> b] \in [0 .. 0 -> V] /\ Computed(tree, b, step, 0, [x \in 0 .. 0 |-> b])
      BY DEF Computed
    <3> QED
      BY <3>1
  <2>3. n \in Objects /\ n - 1 \in 0 .. NObjects /\ ~(n <= n - 1)
    BY <2>1, <2>2, SizeAssumption DEF Objects
  <2>4. PICK f \in [0 .. (n - 1) -> V] : Computed(tree, b, step, n - 1, f)
    BY <2>1, <2>3
  <2> QED
    BY <2>1, <2>3, <2>4, OneMore
<1>2. NObjects \in 0 .. NObjects
  BY SizeAssumption
<1>3. PICK f \in [0 .. NObjects -> V] : Computed(tree, b, step, NObjects, f)
  BY <1>1, <1>2
<1> QED
  BY <1>3 DEF Computed, Objects

(* The value an object reads: its own, or the one its parent reads.        *)
LEMMA Reading ==
  ASSUME NEW val, NEW tree, Tree(tree), NEW p, NEW o \in Objects
  PROVE  GetValue(val, tree, o, p) =
            IF OwnValue(val, o, p) # Unset THEN OwnValue(val, o, p)
            ELSE IF p \in Inherits /\ tree[o] # 0 THEN GetValue(val, tree, tree[o], p) ELSE Default
<1> DEFINE V == {Default} \cup {OwnValue(val, x, p) : x \in Objects}
           step == [e \in Objects \X V |->
                      IF OwnValue(val, e[1], p) # Unset THEN OwnValue(val, e[1], p)
                      ELSE IF p \in Inherits THEN e[2] ELSE Default]
           from == CHOOSE from : from = [x \in 0 .. NObjects |->
                      IF x = NoParent THEN Default
                      ELSE IF OwnValue(val, x, p) # Unset THEN OwnValue(val, x, p)
                      ELSE IF p \in Inherits THEN from[tree[x]] ELSE Default]
<1>1. step \in Steps(V)
  BY DEF Steps
<1>2. PICK f \in [0 .. NObjects -> V] :
         f[0] = Default /\ \A x \in Objects : f[x] = step[<<x, f[tree[x]]>>]
  <2>1. Default \in V
    OBVIOUS
  <2> HIDE DEF V, step
  <2> QED
    BY <1>1, <2>1, AlongParents
<1>3. \A x \in Objects : x \in 0 .. NObjects /\ x # 0 /\ tree[x] \in 0 .. NObjects
  BY SizeAssumption DEF Tree, Objects
<1>4. \A x \in 0 .. NObjects : x # 0 => x \in Objects
  BY SizeAssumption DEF Objects
<1>5. \A x \in 0 .. NObjects : f[x] =
         IF x = NoParent THEN Default
         ELSE IF OwnValue(val, x, p) # Unset THEN OwnValue(val, x, p)
         ELSE IF p \in Inherits THEN f[tree[x]] ELSE Default
  <2> TAKE x \in 0 .. NObjects
  <2>1. CASE x = 0
    BY <1>2, <2>1 DEF NoParent
  <2>2. CASE x # 0
    <3>1. x \in Objects /\ <<x, f[tree[x]]>> \in Objects \X V
      BY <1>2, <1>3, <1>4, <2>2
    <3>2. f[x] = step[<<x, f[tree[x]]>>]
      BY <1>2, <3>1
    <3> QED
      BY <2>2, <3>1, <3>2 DEF NoParent
  <2> QED
    BY <2>1, <2>2
<1>6. from = [x \in 0 .. NObjects |->
                      IF x = NoParent THEN Default
                      ELSE IF OwnValue(val, x, p) # Unset THEN OwnValue(val, x, p)
                      ELSE IF p \in Inherits THEN from[tree[x]] ELSE Default]
  BY <1>2, <1>5
<1>7. \A x : GetValue(val, tree, x, p) = from[x]
  BY DEF GetValue
<1> HIDE DEF from
<1> QED
  BY <1>3, <1>6, <1>7 DEF NoParent

(* The same for a predicate: the members of H that are linked to o.        *)
LEMMA Linked ==
  ASSUME NEW tree, Tree(tree), NEW H, NEW o
  PROVE  \E G \in SUBSET Objects : \A x \in Objects : x \in G <=> x \in H /\ (tree[x] = o \/ tree[x] \in G)
<1> DEFINE V == {"yes", "no"}
           step == [e \in Objects \X V |-> IF e[1] \in H /\ (tree[e[1]] = o \/ e[2] = "yes") THEN "yes" ELSE "no"]
<1>1. step \in Steps(V)
  BY DEF Steps
<1>2. PICK f \in [0 .. NObjects -> V] :
         f[0] = "no" /\ \A x \in Objects : f[x] = step[<<x, f[tree[x]]>>]
  <2>1. "no" \in V
    OBVIOUS
  <2> HIDE DEF V, step
  <2> QED
    BY <1>1, <2>1, AlongParents
<1>3. \A x \in Objects : x \in 0 .. NObjects /\ tree[x] \in 0 .. NObjects /\ (tree[x] # 0 => tree[x] \in Objects)
  BY SizeAssumption DEF Tree, Objects
<1> DEFINE G == {x \in Objects : f[x] = "yes"}
<1>4. ASSUME NEW x \in Objects
      PROVE  x \in G <=> x \in H /\ (tree[x] = o \/ tree[x] \in G)
  <2>1. x \in 0 .. NObjects /\ tree[x] \in 0 .. NObjects /\ f[tree[x]] \in V
    BY <1>2, <1>3
  <2>2. step[<<x, f[tree[x]]>>] = IF x \in H /\ (tree[x] = o \/ f[tree[x]] = "yes") THEN "yes" ELSE "no"
    BY <2>1
  <2>3. f[tree[x]] = "yes" <=> tree[x] \in G
    BY <1>2, <1>3
  <2> QED
    BY <1>2, <2>2, <2>3
<1> QED
  BY <1>4

LEMMA BelowStep ==
  ASSUME NEW tree, Tree(tree), NEW o \in Objects, NEW x \in Objects
  PROVE  x \in Below(tree, o) <=> tree[x] = o \/ tree[x] \in Below(tree, o)
<1> DEFINE under == CHOOSE under : under = [y \in 0 .. NObjects |->
                       IF y = NoParent THEN FALSE ELSE tree[y] = o \/ under[tree[y]]]
<1>1. /\ \A y \in Objects : y \in 0 .. NObjects /\ y # 0 /\ tree[y] \in 0 .. NObjects
      /\ \A y \in 0 .. NObjects : y # 0 => y \in Objects
      /\ 0 \notin Objects
  BY SizeAssumption DEF Tree, Objects
<1>2. PICK G \in SUBSET Objects :
         \A y \in Objects : y \in G <=> y \in Objects /\ (tree[y] = o \/ tree[y] \in G)
  BY Linked
<1>3. PICK g : g = [y \in 0 .. NObjects |-> y \in G]
  OBVIOUS
<1>4. g = [y \in 0 .. NObjects |-> IF y = NoParent THEN FALSE ELSE tree[y] = o \/ g[tree[y]]]
  <2>1. ASSUME NEW y \in 0 .. NObjects
        PROVE  (y \in G) = (IF y = NoParent THEN FALSE ELSE tree[y] = o \/ g[tree[y]])
    <3>1. CASE y = 0
      <4>1. (y \in G) = FALSE
        BY <1>1, <1>2, <3>1
      <4>2. (IF y = NoParent THEN FALSE ELSE tree[y] = o \/ g[tree[y]]) = FALSE
        BY <3>1, Zenon DEF NoParent
      <4> QED
        BY <4>1, <4>2, Zenon
    <3>2. CASE y # 0
      <4>1. tree[y] \in 0 .. NObjects /\ y \in Objects
        BY <1>1, <3>2
      <4>2. g[tree[y]] = (tree[y] \in G)
        BY <1>3, <4>1
      <4>3. (y \in G) = (tree[y] = o \/ tree[y] \in G)
        BY <1>2, <4>1
      <4> QED
        BY <3>2, <4>2, <4>3, Zenon DEF NoParent
    <3> QED
      BY <3>1, <3>2
  <2> QED
    BY <1>3, <2>1
<1>5. under = [y \in 0 .. NObjects |->
                       IF y = NoParent THEN FALSE ELSE tree[y] = o \/ under[tree[y]]]
  BY <1>4, Zenon
<1>6. Below(tree, o) = {y \in Objects : under[y]}
  BY DEF Below
<1> HIDE DEF under
<1>7. under[0] = FALSE
  BY <1>1, <1>5, SizeAssumption DEF NoParent
<1>8. under[x] = (tree[x] = o \/ under[tree[x]])
  BY <1>1, <1>5 DEF NoParent
<1> QED
  BY <1>1, <1>6, <1>7, <1>8

LEMMA ReachStep ==
  ASSUME NEW val, NEW tree, Tree(tree), NEW o \in Objects, NEW p, NEW before, NEW x \in Objects
  PROVE  x \in Reaches(val, tree, o, p, before) <=>
            /\ OwnValue(val, x, p) = Unset /\ before # GetValue(val, tree, x, p)
            /\ tree[x] = o \/ tree[x] \in Reaches(val, tree, o, p, before)
<1> DEFINE Hears(y) == OwnValue(val, y, p) = Unset /\ before # GetValue(val, tree, y, p)
           heard == CHOOSE heard : heard = [y \in 0 .. NObjects |->
                       /\ y # NoParent
                       /\ OwnValue(val, y, p) = Unset
                       /\ before # GetValue(val, tree, y, p)
                       /\ (tree[y] = o \/ heard[tree[y]])]
<1>1. /\ \A y \in Objects : y \in 0 .. NObjects /\ y # 0 /\ tree[y] \in 0 .. NObjects
      /\ \A y \in 0 .. NObjects : y # 0 => y \in Objects
      /\ 0 \notin Objects
  BY SizeAssumption DEF Tree, Objects
<1>2. PICK H : H = {y \in Objects : Hears(y)}
  OBVIOUS
<1>3. PICK G \in SUBSET Objects :
         \A y \in Objects : y \in G <=> y \in H /\ (tree[y] = o \/ tree[y] \in G)
  BY Linked
<1>4. PICK g : g = [y \in 0 .. NObjects |-> y \in G]
  OBVIOUS
<1>5. g = [y \in 0 .. NObjects |->
                       /\ y # NoParent
                       /\ OwnValue(val, y, p) = Unset
                       /\ before # GetValue(val, tree, y, p)
                       /\ (tree[y] = o \/ g[tree[y]])]
  <2>1. ASSUME NEW y \in 0 .. NObjects
        PROVE  (y \in G) = (/\ y # NoParent
                       /\ OwnValue(val, y, p) = Unset
                       /\ before # GetValue(val, tree, y, p)
                       /\ (tree[y] = o \/ g[tree[y]]))
    <3>1. CASE y = 0
      BY <1>1, <1>3, <3>1 DEF NoParent
    <3>2. CASE y # 0
      <4>1. tree[y] \in 0 .. NObjects /\ y \in Objects
        BY <1>1, <3>2
      <4>2. g[tree[y]] = (tree[y] \in G)
        BY <1>4, <4>1
      <4>3. y \in H <=> Hears(y)
        BY <1>2, <4>1
      <4>4. y \in G <=> y \in H /\ (tree[y] = o \/ tree[y] \in G)
        BY <1>3, <4>1
      <4>5. (y \in G) = (Hears(y) /\ (tree[y] = o \/ tree[y] \in G))
        BY <4>3, <4>4
      <4> QED
        BY <3>2, <4>2, <4>5, Zenon DEF NoParent
    <3> QED
      BY <3>1, <3>2
  <2> QED
    BY <1>4, <2>1
<1>6. heard = [y \in 0 .. NObjects |->
                       /\ y # NoParent
                       /\ OwnValue(val, y, p) = Unset
                       /\ before # GetValue(val, tree, y, p)
                       /\ (tree[y] = o \/ heard[tree[y]])]
  BY <1>5, Zenon
<1>7. Reaches(val, tree, o, p, before) = {y \in Objects : heard[y]}
  BY DEF Reaches
<1> HIDE DEF heard
<1>8. heard[x] = (/\ OwnValue(val, x, p) = Unset
                  /\ before # GetValue(val, tree, x, p)
                  /\ (tree[x] = o \/ heard[tree[x]]))
  BY <1>1, <1>6 DEF NoParent
<1>9. heard[0] = FALSE
  BY <1>6, SizeAssumption DEF NoParent
<1> QED
  BY <1>1, <1>7, <1>8, <1>9
-----------------------------------------------------------------------------
(* The heirs of o read what o reads, hear of it, and are below o.          *)
LEMMA HeirsChain ==
  ASSUME NEW val, NEW tree, NEW o, NEW p
  PROVE  Chain(val, tree, o, p, Heirs(val, tree, o, p))
BY DEF Heirs, Chain

LEMMA HeirsLargest ==
  ASSUME NEW val, NEW tree, NEW o, NEW p, NEW S, Chain(val, tree, o, p, S)
  PROVE  S \subseteq Heirs(val, tree, o, p)
BY DEF Heirs, Chain

LEMMA HeirsRead ==
  ASSUME NEW val, NEW tree, Tree(tree), NEW o \in Objects, NEW p \in Inherits,
         NEW S, Chain(val, tree, o, p, S), NEW x \in S
  PROVE  GetValue(val, tree, x, p) = GetValue(val, tree, o, p)
<1> DEFINE Odd == {y \in S : GetValue(val, tree, y, p) # GetValue(val, tree, o, p)}
<1> SUFFICES ASSUME Odd # {} PROVE FALSE
  OBVIOUS
<1>1. S \subseteq Objects /\ Objects \subseteq Nat
  BY DEF Chain, Objects
<1>2. PICK y \in Odd : \A z \in Odd : y <= z
  <2>1. Odd \subseteq Nat
    BY <1>1
  <2> HIDE DEF Odd
  <2> QED
    BY <2>1, First
<1>3. y \in Objects /\ OwnValue(val, y, p) = Unset /\ (tree[y] = o \/ tree[y] \in S)
  BY <1>1, <1>2 DEF Chain
<1>4. tree[y] < y /\ tree[y] \in Nat /\ tree[y] # 0
  BY <1>1, <1>3 DEF Tree, Objects
<1>5. GetValue(val, tree, y, p) = GetValue(val, tree, tree[y], p)
  BY <1>3, <1>4, Reading
<1>6. tree[y] \notin Odd
  BY <1>1, <1>2, <1>4
<1> QED
  BY <1>2, <1>3, <1>5, <1>6

LEMMA HeirsBelow ==
  ASSUME NEW val, NEW tree, Tree(tree), NEW o \in Objects, NEW p,
         NEW S, Chain(val, tree, o, p, S)
  PROVE  S \subseteq Below(tree, o)
<1> DEFINE Odd == S \ Below(tree, o)
<1> SUFFICES ASSUME Odd # {} PROVE FALSE
  OBVIOUS
<1>1. S \subseteq Objects /\ Objects \subseteq Nat
  BY DEF Chain, Objects
<1>2. PICK y \in Odd : \A z \in Odd : y <= z
  <2>1. Odd \subseteq Nat
    BY <1>1
  <2> HIDE DEF Odd
  <2> QED
    BY <2>1, First
<1>3. y \in Objects /\ (tree[y] = o \/ tree[y] \in S)
  BY <1>1, <1>2 DEF Chain
<1>4. tree[y] < y /\ tree[y] \in Nat
  BY <1>1, <1>3 DEF Tree
<1>5. tree[y] \notin Odd
  BY <1>1, <1>2, <1>4
<1> QED
  BY <1>2, <1>3, <1>5, BelowStep

LEMMA HeirsHear ==
  ASSUME NEW val, NEW tree, Tree(tree), NEW o \in Objects, NEW p \in Inherits, NEW before,
         before # GetValue(val, tree, o, p), NEW S, Chain(val, tree, o, p, S)
  PROVE  S \subseteq Reaches(val, tree, o, p, before)
<1> DEFINE Odd == S \ Reaches(val, tree, o, p, before)
<1> SUFFICES ASSUME Odd # {} PROVE FALSE
  OBVIOUS
<1>1. S \subseteq Objects /\ Objects \subseteq Nat
  BY DEF Chain, Objects
<1>2. PICK y \in Odd : \A z \in Odd : y <= z
  <2>1. Odd \subseteq Nat
    BY <1>1
  <2> HIDE DEF Odd
  <2> QED
    BY <2>1, First
<1>3. y \in Objects /\ OwnValue(val, y, p) = Unset /\ (tree[y] = o \/ tree[y] \in S)
  BY <1>1, <1>2 DEF Chain
<1>4. tree[y] < y /\ tree[y] \in Nat
  BY <1>1, <1>3 DEF Tree
<1>5. tree[y] \notin Odd
  BY <1>1, <1>2, <1>4
<1>6. GetValue(val, tree, y, p) = GetValue(val, tree, o, p)
  BY <1>2, HeirsRead
<1> QED
  BY <1>2, <1>3, <1>5, <1>6, ReachStep

(* A change at o moves what o and its heirs read, and nothing else.        *)
LEMMA Elsewhere ==
  ASSUME NEW val, NEW tree, Tree(tree), NEW val2, NEW tree2, Tree(tree2), NEW o \in Objects, NEW p,
         \A y \in Objects \ {o} : OwnValue(val2, y, p) = OwnValue(val, y, p) /\ tree2[y] = tree[y],
         NEW x \in Objects \ ({o} \cup Heirs(val, tree, o, p))
  PROVE  GetValue(val2, tree2, x, p) = GetValue(val, tree, x, p)
<1> DEFINE H == Heirs(val, tree, o, p)
           Odd == {y \in Objects \ ({o} \cup H) : GetValue(val2, tree2, y, p) # GetValue(val, tree, y, p)}
<1> SUFFICES ASSUME Odd # {} PROVE FALSE
  OBVIOUS
<1>1. Objects \subseteq Nat
  BY DEF Objects
<1>2. PICK y \in Odd : \A z \in Odd : y <= z
  <2>1. Odd \subseteq Nat
    BY <1>1
  <2> HIDE DEF Odd
  <2> QED
    BY <2>1, First
<1>3. y \in Objects /\ y # o /\ y \notin H /\ tree2[y] = tree[y] /\ OwnValue(val2, y, p) = OwnValue(val, y, p)
  BY <1>2
<1>4. OwnValue(val, y, p) = Unset /\ p \in Inherits /\ tree[y] # 0
      /\ GetValue(val2, tree2, tree[y], p) # GetValue(val, tree, tree[y], p)
  <2> HIDE DEF Odd, H
  <2>1. GetValue(val2, tree2, y, p) # GetValue(val, tree, y, p)
    BY <1>2 DEF Odd
  <2>2. tree[y] \in Objects \/ tree[y] = 0
    BY <1>3, SizeAssumption DEF Tree, Objects
  <2>3. GetValue(val, tree, y, p) =
            IF OwnValue(val, y, p) # Unset THEN OwnValue(val, y, p)
            ELSE IF p \in Inherits /\ tree[y] # 0 THEN GetValue(val, tree, tree[y], p) ELSE Default
    BY <1>3, Reading
  <2>4. GetValue(val2, tree2, y, p) =
            IF OwnValue(val2, y, p) # Unset THEN OwnValue(val2, y, p)
            ELSE IF p \in Inherits /\ tree2[y] # 0 THEN GetValue(val2, tree2, tree2[y], p) ELSE Default
    BY <1>3, Reading
  <2> QED
    BY <1>3, <2>1, <2>3, <2>4
<1>5. y \in Nat /\ tree[y] \in Nat /\ tree[y] \in Objects /\ tree[y] < y
  BY <1>3, <1>4, SizeAssumption DEF Tree, Objects
<1>6. tree[y] \notin Odd
  <2> HIDE DEF Odd, H
  <2>1. ~(y <= tree[y])
    BY <1>5
  <2> QED
    BY <1>2, <2>1
<1>7. tree[y] \in {o} \cup H
  BY <1>4, <1>5, <1>6
<1>8. Chain(val, tree, o, p, H \cup {y})
  <2>1. Chain(val, tree, o, p, H)
    BY HeirsChain
  <2> HIDE DEF H
  <2> QED
    BY <1>3, <1>4, <1>7, <2>1 DEF Chain
<1>9. y \in H
  BY <1>8, HeirsLargest
<1> QED
  BY <1>3, <1>9

-----------------------------------------------------------------------------
(* What values are read.                                                   *)
MaybeValues == Values \cup {Unset}
Slotted(val) == val \in [Cells -> MaybeValues]

LEMMA OwnTyped ==
  ASSUME NEW val, Slotted(val), NEW o, NEW p
  PROVE  OwnValue(val, o, p) \in MaybeValues
<1>1. CASE Kept(val, o, p) = {}
  BY <1>1 DEF OwnValue, MaybeValues
<1>2. CASE Kept(val, o, p) # {}
  <2>1. Kept(val, o, p) \subseteq Nat
    BY SlotAssumption DEF Kept
  <2>2. PICK i \in Kept(val, o, p) : \A j \in Kept(val, o, p) : i <= j
    BY <1>2, <2>1, First
  <2>3. Highest(Kept(val, o, p)) \in Kept(val, o, p)
    BY <2>2 DEF Highest
  <2>4. <<o, p, Slots[Highest(Kept(val, o, p))]>> \in Cells
    BY <2>3 DEF Kept
  <2> QED
    BY <1>2, <2>4 DEF OwnValue, Slotted
<1> QED
  BY <1>1, <1>2

LEMMA ReadTyped ==
  ASSUME NEW val, Slotted(val), NEW tree, Tree(tree), NEW p, NEW o \in Objects
  PROVE  GetValue(val, tree, o, p) \in Values
<1> DEFINE Odd == {y \in Objects : GetValue(val, tree, y, p) \notin Values}
<1> SUFFICES ASSUME Odd # {} PROVE FALSE
  OBVIOUS
<1>1. PICK y \in Odd : \A z \in Odd : y <= z
  <2>1. Odd \subseteq Nat
    BY DEF Objects
  <2> HIDE DEF Odd
  <2> QED
    BY <2>1, First
<1>2. y \in Objects /\ y \in Nat /\ GetValue(val, tree, y, p) \notin Values
  BY <1>1 DEF Objects
<1>3. tree[y] < y /\ tree[y] \in Nat /\ (tree[y] # 0 => tree[y] \in Objects)
  BY <1>2, SizeAssumption DEF Tree, Objects
<1>4. OwnValue(val, y, p) # Unset => OwnValue(val, y, p) \in Values
  BY OwnTyped DEF MaybeValues
<1>5. GetValue(val, tree, y, p) =
            IF OwnValue(val, y, p) # Unset THEN OwnValue(val, y, p)
            ELSE IF p \in Inherits /\ tree[y] # 0 THEN GetValue(val, tree, tree[y], p) ELSE Default
  BY <1>2, Reading
<1>6. tree[y] \in Odd
  BY <1>2, <1>3, <1>4, <1>5, SlotAssumption
<1> HIDE DEF Odd
<1> QED
  BY <1>1, <1>2, <1>3, <1>6

(* What an object has of its own comes from its own slots.                 *)
LEMMA OwnDepends ==
  ASSUME NEW val, NEW val2, NEW o, NEW p,
         \A c \in Cells : c[1] = o /\ c[2] = p => val2[c] = val[c]
  PROVE  OwnValue(val2, o, p) = OwnValue(val, o, p)
<1>1. \A i \in DOMAIN Slots : <<o, p, Slots[i]>> \in Cells => val2[<<o, p, Slots[i]>>] = val[<<o, p, Slots[i]>>]
  OBVIOUS
<1>2. Kept(val2, o, p) = Kept(val, o, p)
  BY <1>1 DEF Kept
<1>3. CASE Kept(val, o, p) = {}
  BY <1>2, <1>3 DEF OwnValue
<1>4. CASE Kept(val, o, p) # {}
  <2>1. Kept(val, o, p) \subseteq Nat
    BY SlotAssumption DEF Kept
  <2>2. PICK i \in Kept(val, o, p) : \A j \in Kept(val, o, p) : i <= j
    BY <1>4, <2>1, First
  <2>3. Highest(Kept(val, o, p)) \in Kept(val, o, p)
    BY <2>2 DEF Highest
  <2>4. val2[<<o, p, Slots[Highest(Kept(val, o, p))]>>] = val[<<o, p, Slots[Highest(Kept(val, o, p))]>>]
    BY <1>1, <2>3 DEF Kept
  <2> QED
    BY <1>2, <1>4, <2>4 DEF OwnValue
<1> QED
  BY <1>3, <1>4

-----------------------------------------------------------------------------
(* A change of the slots, or of the parent, of one object.                 *)
At(o, p, val, tree, val2, tree2) ==
    /\ Tree(tree) /\ Tree(tree2)
    /\ \A y \in Objects \ {o} : OwnValue(val2, y, p) = OwnValue(val, y, p) /\ tree2[y] = tree[y]

LEMMA SameHeirs ==
  ASSUME NEW o, NEW p, NEW val, NEW tree, NEW val2, NEW tree2, At(o, p, val, tree, val2, tree2)
  PROVE  Heirs(val2, tree2, o, p) = Heirs(val, tree, o, p)
<1>1. \A S : Chain(val2, tree2, o, p, S) <=> Chain(val, tree, o, p, S)
  BY DEF At, Chain
<1> QED
  BY <1>1 DEF Heirs

(* It moves what o and its heirs read, all or none of them.                *)
LEMMA Moves ==
  ASSUME NEW o \in Objects, NEW p, NEW val, NEW tree, NEW val2, NEW tree2, At(o, p, val, tree, val2, tree2),
         NEW x \in Objects, GetValue(val2, tree2, x, p) # GetValue(val, tree, x, p)
  PROVE  /\ x = o \/ (p \in Inherits /\ x \in Heirs(val, tree, o, p))
         /\ GetValue(val2, tree2, o, p) # GetValue(val, tree, o, p)
<1>1. Tree(tree) /\ Tree(tree2)
  BY DEF At
<1>2. CASE x = o
  BY <1>2
<1>3. CASE x # o /\ p \notin Inherits
  <2>1. GetValue(val, tree, x, p) = IF OwnValue(val, x, p) # Unset THEN OwnValue(val, x, p) ELSE Default
    BY <1>1, <1>3, Reading
  <2>2. GetValue(val2, tree2, x, p) = IF OwnValue(val2, x, p) # Unset THEN OwnValue(val2, x, p) ELSE Default
    BY <1>1, <1>3, Reading
  <2> QED
    BY <1>3, <2>1, <2>2 DEF At
<1>4. CASE x # o /\ p \in Inherits
  <2>1. x \in Heirs(val, tree, o, p)
    BY <1>1, <1>4, Elsewhere DEF At
  <2>2. Chain(val, tree, o, p, Heirs(val, tree, o, p)) /\ Chain(val2, tree2, o, p, Heirs(val, tree, o, p))
    BY HeirsChain, SameHeirs
  <2>3. GetValue(val, tree, x, p) = GetValue(val, tree, o, p)
    BY <1>1, <1>4, <2>1, <2>2, HeirsRead
  <2>4. GetValue(val2, tree2, x, p) = GetValue(val2, tree2, o, p)
    BY <1>1, <1>4, <2>1, <2>2, HeirsRead
  <2> QED
    BY <1>4, <2>1, <2>3, <2>4
<1> QED
  BY <1>2, <1>3, <1>4

LEMMA NoneMove ==
  ASSUME NEW p, NEW val, NEW tree, Tree(tree), NEW val2,
         \A y \in Objects : OwnValue(val2, y, p) = OwnValue(val, y, p), NEW x \in Objects
  PROVE  /\ GetValue(val2, tree, x, p) = GetValue(val, tree, x, p)
         /\ \A w : Heirs(val2, tree, w, p) = Heirs(val, tree, w, p)
<1>1. \A w, S : Chain(val2, tree, w, p, S) <=> Chain(val, tree, w, p, S)
  BY DEF Chain
<1>2. \A w : Heirs(val2, tree, w, p) = Heirs(val, tree, w, p)
  BY <1>1 DEF Heirs
<1>3. GetValue(val2, tree, x, p) = GetValue(val, tree, x, p)
  <2> DEFINE Odd == {y \in Objects : GetValue(val2, tree, y, p) # GetValue(val, tree, y, p)}
  <2> SUFFICES ASSUME Odd # {} PROVE FALSE
    OBVIOUS
  <2>1. PICK y \in Odd : \A z \in Odd : y <= z
    <3>1. Odd \subseteq Nat
      BY DEF Objects
    <3> HIDE DEF Odd
    <3> QED
      BY <3>1, First
  <2>2. y \in Objects /\ y \in Nat /\ GetValue(val2, tree, y, p) # GetValue(val, tree, y, p)
    BY <2>1 DEF Objects
  <2>3. tree[y] < y /\ tree[y] \in Nat /\ (tree[y] # 0 => tree[y] \in Objects)
    BY <2>2, SizeAssumption DEF Tree, Objects
  <2>4. GetValue(val, tree, y, p) =
            IF OwnValue(val, y, p) # Unset THEN OwnValue(val, y, p)
            ELSE IF p \in Inherits /\ tree[y] # 0 THEN GetValue(val, tree, tree[y], p) ELSE Default
    BY <2>2, Reading
  <2>5. GetValue(val2, tree, y, p) =
            IF OwnValue(val2, y, p) # Unset THEN OwnValue(val2, y, p)
            ELSE IF p \in Inherits /\ tree[y] # 0 THEN GetValue(val2, tree, tree[y], p) ELSE Default
    BY <2>2, Reading
  <2>6. tree[y] \in Odd
    BY <2>2, <2>3, <2>4, <2>5
  <2> HIDE DEF Odd
  <2> QED
    BY <2>1, <2>2, <2>3, <2>6
<1> QED
  BY <1>2, <1>3

(* Who is neither o nor below it keeps what it reads, and whose heir it is. *)
LEMMA Apart ==
  ASSUME NEW o \in Objects, NEW p, NEW val, NEW tree, NEW val2, NEW tree2, At(o, p, val, tree, val2, tree2),
         NEW x \in Objects, x # o, x \notin Below(tree, o)
  PROVE  /\ GetValue(val2, tree2, x, p) = GetValue(val, tree, x, p)
         /\ \A w \in Objects : x \in Heirs(val, tree, w, p) => x \in Heirs(val2, tree2, w, p)
<1>1. Tree(tree)
  BY DEF At
<1>2. GetValue(val2, tree2, x, p) = GetValue(val, tree, x, p)
  BY <1>1, Moves, HeirsChain, HeirsBelow
<1>3. ASSUME NEW w \in Objects, x \in Heirs(val, tree, w, p)
      PROVE  x \in Heirs(val2, tree2, w, p)
  <2> DEFINE S == Heirs(val, tree, w, p)
             R == S \ ({o} \cup Below(tree, o))
  <2>1. Chain(val, tree, w, p, S)
    BY HeirsChain
  <2>2. R \subseteq Objects \ {w}
    BY <2>1 DEF Chain
  <2>3. ASSUME NEW y \in R
        PROVE  OwnValue(val2, y, p) = Unset /\ (tree2[y] = w \/ tree2[y] \in R)
    <3>1. y \in Objects /\ y # o /\ y \notin Below(tree, o) /\ y \in S
      BY <2>2
    <3>2. OwnValue(val, y, p) = Unset /\ (tree[y] = w \/ tree[y] \in S)
      BY <2>1, <3>1 DEF Chain
    <3>3. tree[y] # o /\ tree[y] \notin Below(tree, o)
      BY <1>1, <3>1, BelowStep
    <3> QED
      BY <3>1, <3>2, <3>3 DEF At
  <2>4. Chain(val2, tree2, w, p, R)
    <3> HIDE DEF R
    <3> QED
      BY <2>2, <2>3 DEF Chain
  <2> QED
    BY <1>3, <2>4, HeirsLargest
<1> QED
  BY <1>2, <1>3

-----------------------------------------------------------------------------
(* Sequences, by their members.                                            *)
LEMMA PushMember ==
  ASSUME NEW S, NEW s \in Seq(S), NEW e \in S
  PROVE  /\ <<e>> \o s \in Seq(S) /\ ToSet(<<e>> \o s) = {e} \cup ToSet(s)
         /\ Head(<<e>> \o s) = e /\ Tail(<<e>> \o s) = s /\ Len(<<e>> \o s) = Len(s) + 1
<1> DEFINE t == <<e>> \o s
<1>1. t \in Seq(S) /\ Len(t) = Len(s) + 1 /\ t[1] = e /\ \A i \in 1 .. Len(s) : t[i + 1] = s[i]
  OBVIOUS
<1>2. DOMAIN t = 1 .. Len(s) + 1 /\ DOMAIN s = 1 .. Len(s) /\ Len(s) \in Nat
  BY <1>1
<1>3. \A i \in DOMAIN t : i = 1 \/ (i - 1 \in DOMAIN s /\ t[i] = s[i - 1])
  BY <1>1, <1>2
<1>4. Head(t) = e /\ Tail(t) = s
  OBVIOUS
<1>5. \A i \in DOMAIN s : i + 1 \in DOMAIN t /\ t[i + 1] = s[i]
  BY <1>1, <1>2
<1> HIDE DEF t
<1>6. ToSet(t) = {e} \cup ToSet(s)
  <2>1. ToSet(t) \subseteq {e} \cup ToSet(s)
    BY <1>1, <1>3 DEF ToSet
  <2>2. 1 \in DOMAIN t
    BY <1>2
  <2>3. {e} \cup ToSet(s) \subseteq ToSet(t)
    BY <1>1, <1>5, <2>2 DEF ToSet
  <2> QED
    BY <2>1, <2>3
<1> QED
  BY <1>1, <1>4, <1>6 DEF t

LEMMA PopMember ==
  ASSUME NEW S, NEW s \in Seq(S), s # <<>>
  PROVE  /\ Tail(s) \in Seq(S) /\ Head(s) \in S /\ ToSet(s) = {Head(s)} \cup ToSet(Tail(s))
         /\ Len(Tail(s)) = Len(s) - 1 /\ Len(s) \in Nat \ {0} /\ (Len(s) = 1 <=> Tail(s) = <<>>)
<1>1. Tail(s) \in Seq(S) /\ Head(s) \in S /\ s = <<Head(s)>> \o Tail(s) /\ Len(Tail(s)) = Len(s) - 1 /\ Len(s) \in Nat \ {0}
  OBVIOUS
<1>2. PICK t, h : t = Tail(s) /\ h = Head(s)
  OBVIOUS
<1>3. t \in Seq(S) /\ Len(t) = Len(s) - 1
  BY <1>1, <1>2
<1>4. Len(t) = 0 <=> t = <<>>
  BY <1>3
<1>5. Len(s) = 1 <=> t = <<>>
  BY <1>1, <1>3, <1>4
<1>6. h \in S /\ s = <<h>> \o t
  BY <1>1, <1>2
<1>7. ToSet(s) = {h} \cup ToSet(t)
  BY <1>3, <1>6, PushMember
<1> QED
  BY <1>1, <1>2, <1>5, <1>7

LEMMA Members ==
  ASSUME NEW S, NEW s \in Seq(S)
  PROVE  ToSet(s) \subseteq S /\ (s = <<>> => ToSet(s) = {})
BY DEF ToSet

-----------------------------------------------------------------------------
(* What SetToSeq lists.                                                    *)
LEMMA Enumerated ==
  ASSUME NEW S, IsFiniteSet(S)
  PROVE  SetToSeq(S) \in Seq(S) /\ ToSet(SetToSeq(S)) = S
<1> DEFINE n == Cardinality(S)
           f == SetToSeq(S)
<1>1. n \in Nat /\ ExistsBijection(1 .. n, S)
  BY FS_CardinalityType
<1>2. \E g : g \in [1 .. n -> S] /\ IsInjective(g)
  BY <1>1 DEF ExistsBijection, Bijection, Injection
<1>3. f \in [1 .. n -> S] /\ IsInjective(f)
  BY <1>2 DEF SetToSeq
<1>4. f \in Injection(1 .. n, S)
  BY <1>3 DEF Injection
<1>5. IsFiniteSet(1 .. n) /\ Cardinality(1 .. n) = n
  BY <1>1, FS_Interval
<1>6. f \in Surjection(1 .. n, S)
  BY <1>4, <1>5, FS_Injection
<1> HIDE DEF f
<1>7. f \in Seq(S) /\ DOMAIN f = 1 .. n
  BY <1>1, <1>3
<1>8. ToSet(f) = S
  BY <1>3, <1>6, <1>7 DEF ToSet, Surjection
<1> QED
  BY <1>7, <1>8 DEF f

LEMMA ImageIsFinite ==
  ASSUME NEW S, IsFiniteSet(S), NEW f
  PROVE  IsFiniteSet({f[x] : x \in S})
<1> DEFINE T == {f[x] : x \in S}
           g == [x \in S |-> f[x]]
<1>1. g \in Surjection(S, T)
  BY DEF Surjection
<1> HIDE DEF T, g
<1>2. IsFiniteSet(T)
  BY <1>1, FS_Surjection
<1> QED
  BY <1>2 DEF T

-----------------------------------------------------------------------------
(* The state.                                                              *)
Changes == [prop : Props, before : MaybeValues]
Writes  == [cell : Cells, to : Values]
Frames  == [kind : {"moved"}, obj : Objects, list : Seq(Changes) \ {<<>>}]
           \cup [kind : {"setters"}, obj : Objects, list : Seq(Writes) \ {<<>>}]
           \cup {f \in [kind : {"telling"}, obj : Objects, prop : Props, before : MaybeValues, after : MaybeValues,
                       who : Handlers \cup {Metadata}, phase : Props \cup {Whole}, rest : SUBSET Handlers] :
                    f.who = Metadata => f.phase = Whole}

StoreType ==
    /\ Tree(up) /\ Slotted(value)
    /\ registered \in Seq(Handlers) /\ ToSet(registered) \subseteq spent /\ spent \subseteq Handlers
    /\ seen \in [Objects -> [Props -> MaybeValues]]
    /\ owed \subseteq Handlers \X Props
    /\ stack \in Seq(Frames)

LEMMA TypeParts ==
  ASSUME StoreType
  PROVE  TypeOK
<1>1. ToSet(stack) \subseteq Frames
  BY Members DEF StoreType
<1>2. \A i \in DOMAIN stack : stack[i].kind \in {"moved", "setters", "telling"} /\ stack[i].obj \in Objects
  BY <1>1 DEF Frames, ToSet
<1>3. up \in [Objects -> {NoParent} \cup Objects] /\ \A o \in Objects : up[o] < o
  BY SizeAssumption DEF StoreType, Tree, Objects, NoParent
<1> QED
  BY <1>2, <1>3 DEF StoreType, TypeOK, Slotted, MaybeValues

LEMMA FrameParts ==
  ASSUME NEW f \in Frames
  PROVE  /\ f.kind = "moved" => f.obj \in Objects /\ f.list \in Seq(Changes) /\ f.list # <<>>
         /\ f.kind = "setters" => f.obj \in Objects /\ f.list \in Seq(Writes) /\ f.list # <<>>
         /\ f.kind = "telling" => /\ f.obj \in Objects /\ f.prop \in Props /\ f.rest \in SUBSET Handlers
                                  /\ f.before \in MaybeValues /\ f.after \in MaybeValues
                                  /\ f.who = Metadata => f.phase = Whole
BY DEF Frames

LEMMA AnnounceList ==
  ASSUME StoreType, NEW o \in Objects, NEW P \in SUBSET Props, IsFiniteSet(P)
  PROVE  /\ ToAnnounce(o, P) \in Seq(Changes)
         /\ ToSet(ToAnnounce(o, P)) = {[prop |-> p, before |-> Effective(o, p)] : p \in P}
<1> DEFINE S == {[prop |-> p, before |-> Effective(o, p)] : p \in P}
           f == [p \in P |-> [prop |-> p, before |-> Effective(o, p)]]
<1>1. S \subseteq Changes
  BY ReadTyped DEF StoreType, Effective, Changes, MaybeValues
<1>2. IsFiniteSet({f[p] : p \in P})
  <2> HIDE DEF f
  <2> QED
    BY ImageIsFinite
<1>3. {f[p] : p \in P} = S
  OBVIOUS
<1>4. IsFiniteSet(S)
  BY <1>2, <1>3
<1> HIDE DEF S
<1>5. SetToSeq(S) \in Seq(S) /\ ToSet(SetToSeq(S)) = S
  BY <1>4, Enumerated
<1>6. SetToSeq(S) \in Seq(Changes)
  BY <1>1, <1>5
<1> QED
  BY <1>5, <1>6 DEF ToAnnounce, S

-----------------------------------------------------------------------------
(* The frames that will still mark x for p, which was last told b: one     *)
(* that has to announce p of x, or to pass it down to x.                   *)
Lists(f, p, b) == \E m \in ToSet(f.list) : m.prop = p /\ m.before = b
Covers(f, val, tree, x, p, b) ==
    \/ /\ f.kind = "moved" /\ Lists(f, p, b)
       /\ x = f.obj \/ (p \in Inherits /\ x \in Heirs(val, tree, f.obj, p))
    \/ /\ f.kind = "telling" /\ f.prop = p /\ f.before = b
       /\ p \in Inherits /\ x \in Heirs(val, tree, f.obj, p)

MarkedInv ==
    \A x \in Objects, p \in Props :
        \/ seen[x][p] \in {Unset, Effective(x, p)}
        \/ \E f \in ToSet(stack) : Covers(f, value, up, x, p, seen[x][p])

(* The frames that will still tell h the present value of p: one that has  *)
(* to announce p, or that tells this value and has not come to h.          *)
ToCome(f, h) == f.who = Metadata \/ (f.phase = Whole /\ h.of # Whole) \/ h \in f.rest
WillTell(f, h, p) ==
    /\ f.obj = h.at
    /\ \/ f.kind = "moved" /\ \E m \in ToSet(f.list) : m.prop = p /\ m.before # Effective(f.obj, p)
       \/ f.kind = "telling" /\ f.prop = p /\ f.after = Effective(f.obj, p) /\ ToCome(f, h)

OwedInv ==
    \A e \in owed :
        /\ e[1] \in ToSet(registered) /\ e[1].of \in {e[2], Whole} /\ e[2] \in Props \ Inherits
        /\ \E f \in ToSet(stack) : WillTell(f, e[1], e[2])

StoreInv == StoreType /\ MarkedInv /\ OwedInv

-----------------------------------------------------------------------------
(* Write: the changes it lists are those that it makes, the value before   *)
(* being right where there is one; nothing but setters is taken off.       *)
Announces(val, o, list, rest) ==
    /\ list \in Seq(Changes) /\ rest \in Seq(Frames) /\ Slotted(val)
    /\ \A c \in Cells : val[c] # value[c] => c[1] = o /\ \E m \in ToSet(list) : m.prop = c[2]
    /\ \A m \in ToSet(list) : \/ m.before = Effective(o, m.prop)
                              \/ GetValue(val, up, o, m.prop) = Effective(o, m.prop)
    /\ \A f \in ToSet(stack) : f.kind # "setters" => f \in ToSet(rest)

LEMMA WriteFacts ==
  ASSUME StoreType, NEW o \in Objects, NEW val, NEW list, NEW rest, Announces(val, o, list, rest),
         Write(val, o, list, rest)
  PROVE  /\ StoreType'
         /\ \A f \in ToSet(stack) : f.kind # "setters" => f \in ToSet(stack')
         /\ list # <<>> => Moved(o, list) \in ToSet(stack')
<1>1. list # <<>> => Moved(o, list) \in Frames
  BY DEF Announces, Moved, Frames
<1>2. stack' = IF list = <<>> THEN <<>> \o rest ELSE <<Moved(o, list)>> \o rest
  BY DEF Write
<1>3. /\ stack' \in Seq(Frames) /\ ToSet(rest) \subseteq ToSet(stack')
      /\ list # <<>> => Moved(o, list) \in ToSet(stack')
  <2>1. CASE list = <<>>
    BY <1>2, <2>1 DEF Announces
  <2>2. CASE list # <<>>
    <3>1. rest \in Seq(Frames) /\ Moved(o, list) \in Frames /\ stack' = <<Moved(o, list)>> \o rest
      BY <1>1, <1>2, <2>2 DEF Announces
    <3> QED
      BY <3>1, PushMember
  <2> QED
    BY <2>1, <2>2
<1>4. seen' \in [Objects -> [Props -> MaybeValues]]
  BY DEF Write, Overtake, StoreType, MaybeValues
<1>5. owed' \subseteq Handlers \X Props
  <2>1. ToSet(registered) \subseteq Handlers
    BY DEF StoreType
  <2>2. owed \subseteq Handlers \X Props
    BY DEF StoreType
  <2>3. owed' \subseteq owed \cup (ToSet(registered) \X (Props \ Inherits))
    BY DEF Write
  <2> QED
    BY <2>1, <2>2, <2>3
<1>6. StoreType'
  BY <1>3, <1>4, <1>5 DEF StoreType, Write, Announces
<1> QED
  BY <1>3, <1>6 DEF Announces

(* What it moves was listed.                                               *)
LEMMA WriteMoves ==
  ASSUME StoreType, NEW o \in Objects, NEW val, NEW list, NEW rest, Announces(val, o, list, rest), NEW p
  PROVE  /\ At(o, p, value, up, val, up)
         /\ (\A m \in ToSet(list) : m.prop # p) =>
               \A x \in Objects : /\ GetValue(val, up, x, p) = Effective(x, p)
                                 /\ \A w : Heirs(val, up, w, p) = Heirs(value, up, w, p)
<1>1. Tree(up)
  BY DEF StoreType
<1>2. ASSUME NEW y \in Objects, y # o \/ \A m \in ToSet(list) : m.prop # p
      PROVE  OwnValue(val, y, p) = OwnValue(value, y, p)
  <2>1. \A c \in Cells : c[1] = y /\ c[2] = p => val[c] = value[c]
    BY <1>2 DEF Announces
  <2> QED
    BY <2>1, OwnDepends
<1>3. At(o, p, value, up, val, up)
  BY <1>1, <1>2 DEF At
<1>4. ASSUME \A m \in ToSet(list) : m.prop # p, NEW x \in Objects
      PROVE  /\ GetValue(val, up, x, p) = Effective(x, p)
             /\ \A w : Heirs(val, up, w, p) = Heirs(value, up, w, p)
  BY <1>1, <1>2, <1>4, NoneMove DEF Effective
<1> QED
  BY <1>3, <1>4

LEMMA StillCovered ==
  ASSUME StoreType, NEW x, NEW p, NEW b, NEW val, NEW tree,
         \A f \in ToSet(stack) : f.kind # "setters" => f \in ToSet(stack'),
         \A w \in Objects : p \in Inherits /\ x \in Heirs(value, up, w, p) => x \in Heirs(val, tree, w, p),
         NEW f \in ToSet(stack), Covers(f, value, up, x, p, b)
  PROVE  \E g \in ToSet(stack') : Covers(g, val, tree, x, p, b)
<1>1. f \in Frames
  BY Members DEF StoreType
<1>2. f.kind # "setters" /\ f.obj \in Objects
  BY <1>1, FrameParts DEF Covers
<1>3. Covers(f, val, tree, x, p, b)
  BY <1>2 DEF Covers
<1> QED
  BY <1>2, <1>3

LEMMA WriteMarked ==
  ASSUME StoreType, MarkedInv, NEW o \in Objects, NEW val, NEW list, NEW rest, Announces(val, o, list, rest),
         Write(val, o, list, rest)
  PROVE  MarkedInv'
<1> DEFINE P == {m.prop : m \in ToSet(list)}
<1>1. Tree(up) /\ up' = up /\ value' = val
  BY DEF StoreType, Write
<1>2. /\ \A f \in ToSet(stack) : f.kind # "setters" => f \in ToSet(stack')
      /\ list # <<>> => Moved(o, list) \in ToSet(stack')
  BY WriteFacts
<1>3. SUFFICES ASSUME NEW x \in Objects, NEW p \in Props
               PROVE  \/ seen'[x][p] \in {Unset, GetValue(val, up, x, p)}
                      \/ \E f \in ToSet(stack') : Covers(f, val, up, x, p, seen'[x][p])
  BY <1>1 DEF MarkedInv, Effective
<1>4. At(o, p, value, up, val, up)
  BY WriteMoves
<1>5. seen'[x][p] = IF x \in {o} \cup Below(up, o) /\ p \in P \cap Inherits /\ seen[x][p] # Effective(x, p)
                    THEN Unset ELSE seen[x][p]
  BY DEF Write, Overtake
<1>6. \/ seen[x][p] \in {Unset, Effective(x, p)}
      \/ \E f \in ToSet(stack) : Covers(f, value, up, x, p, seen[x][p])
  BY DEF MarkedInv
(* A change of what x read: it is announced by the frame pushed.           *)
<1>7. ASSUME seen'[x][p] = Effective(x, p), GetValue(val, up, x, p) # Effective(x, p)
      PROVE  \E f \in ToSet(stack') : Covers(f, val, up, x, p, seen'[x][p])
  <2>1. /\ x = o \/ (p \in Inherits /\ x \in Heirs(value, up, o, p))
        /\ GetValue(val, up, o, p) # Effective(o, p)
    BY <1>4, <1>7, Moves DEF Effective
  <2>2. p \in P
    BY <1>7, WriteMoves
  <2>3. PICK m \in ToSet(list) : m.prop = p
    BY <2>2
  <2>4. m.before = Effective(o, p)
    BY <2>1, <2>3 DEF Announces
  <2>5. Effective(x, p) = Effective(o, p)
    BY <1>1, <2>1, HeirsChain, HeirsRead DEF Effective
  <2>6. Heirs(val, up, o, p) = Heirs(value, up, o, p)
    BY <1>4, SameHeirs
  <2>7. list # <<>>
    BY <2>3 DEF ToSet
  <2>8. Covers(Moved(o, list), val, up, x, p, seen'[x][p])
    BY <1>7, <2>1, <2>3, <2>4, <2>5, <2>6 DEF Covers, Moved, Lists
  <2> QED
    BY <1>2, <2>7, <2>8
<1>8. CASE p \notin P
  <2>1. /\ GetValue(val, up, x, p) = Effective(x, p)
        /\ \A w : Heirs(val, up, w, p) = Heirs(value, up, w, p)
    BY <1>8, WriteMoves
  <2>2. seen'[x][p] = seen[x][p]
    BY <1>5, <1>8
  <2> QED
    BY <1>2, <1>6, <2>1, <2>2, StillCovered
<1>9. CASE p \notin Inherits
  <2>1. seen'[x][p] = seen[x][p]
    BY <1>5, <1>9
  <2>2. CASE \E f \in ToSet(stack) : Covers(f, value, up, x, p, seen[x][p])
    BY <1>2, <1>9, <2>1, <2>2, StillCovered
  <2> QED
    BY <1>6, <1>7, <2>1, <2>2
<1>10. CASE p \in P /\ p \in Inherits /\ x \in {o} \cup Below(up, o)
  BY <1>5, <1>7, <1>10
<1>11. CASE p \in P /\ p \in Inherits /\ x \notin {o} \cup Below(up, o)
  <2>1. /\ GetValue(val, up, x, p) = Effective(x, p)
        /\ \A w \in Objects : x \in Heirs(value, up, w, p) => x \in Heirs(val, up, w, p)
    BY <1>4, <1>11, Apart DEF Effective
  <2>2. seen'[x][p] = seen[x][p]
    BY <1>5, <1>11
  <2> QED
    BY <1>2, <1>6, <2>1, <2>2, StillCovered
<1> QED
  BY <1>8, <1>9, <1>10, <1>11

LEMMA WriteOwed ==
  ASSUME StoreType, OwedInv, NEW o \in Objects, NEW val, NEW list, NEW rest, Announces(val, o, list, rest),
         Write(val, o, list, rest)
  PROVE  OwedInv'
<1>1. Tree(up) /\ up' = up /\ value' = val /\ registered' = registered
  BY DEF StoreType, Write
<1>2. /\ \A f \in ToSet(stack) : f.kind # "setters" => f \in ToSet(stack')
      /\ list # <<>> => Moved(o, list) \in ToSet(stack')
  BY WriteFacts
<1> SUFFICES ASSUME NEW e \in owed'
             PROVE  /\ e[1] \in ToSet(registered) /\ e[1].of \in {e[2], Whole} /\ e[2] \in Props \ Inherits
                    /\ \E f \in ToSet(stack') : WillTell(f, e[1], e[2])'
  BY <1>1 DEF OwedInv
<1>3. CASE /\ e \in ToSet(registered) \X (Props \ Inherits) /\ e[1] \in Watching(o, e[2])
           /\ GetValue(val, up, o, e[2]) # Effective(o, e[2])
  <2>1. PICK m \in ToSet(list) : m.prop = e[2]
    BY <1>3, WriteMoves
  <2>2. m.before = Effective(o, e[2])
    BY <1>3, <2>1 DEF Announces
  <2>3. list # <<>>
    BY <2>1 DEF ToSet
  <2>4. WillTell(Moved(o, list), e[1], e[2])'
    BY <1>1, <1>3, <2>1, <2>2 DEF WillTell, Moved, Watching, Effective
  <2> QED
    BY <1>2, <1>3, <2>3, <2>4 DEF Watching
<1>4. CASE /\ e \in owed
           /\ e[1] \in Watching(o, e[2]) => GetValue(val, up, o, e[2]) = Effective(o, e[2])
  <2>1. /\ e[1] \in ToSet(registered) /\ e[1].of \in {e[2], Whole} /\ e[2] \in Props \ Inherits
    BY <1>4 DEF OwedInv
  <2>2. PICK f \in ToSet(stack) : WillTell(f, e[1], e[2])
    BY <1>4 DEF OwedInv
  <2>3. f \in Frames
    BY Members DEF StoreType
  <2>4. f.kind # "setters" /\ f.obj \in Objects /\ f.obj = e[1].at
    BY <2>2, <2>3, FrameParts DEF WillTell
  <2>5. GetValue(val, up, f.obj, e[2]) = Effective(f.obj, e[2])
    <3>1. CASE f.obj = o
      BY <1>4, <2>1, <2>4, <3>1 DEF Watching, StoreType
    <3>2. CASE f.obj # o
      <4>1. At(o, e[2], value, up, val, up)
        BY WriteMoves
      <4> QED
        BY <2>4, <3>2, <2>1, <4>1, Moves DEF Effective
    <3> QED
      BY <3>1, <3>2
  <2>6. WillTell(f, e[1], e[2])'
    BY <1>1, <2>2, <2>5 DEF WillTell, Effective, ToCome
  <2> QED
    BY <1>2, <2>1, <2>4, <2>6
<1>5. CASE ~(/\ e \in ToSet(registered) \X (Props \ Inherits) /\ e[1] \in Watching(o, e[2])
             /\ GetValue(val, up, o, e[2]) # Effective(o, e[2]))
  <2>1. e \in owed
    BY <1>5 DEF Write
  <2>2. e \in Handlers \X Props /\ e[1] \in ToSet(registered) /\ e[2] \in Props \ Inherits
    BY <2>1 DEF OwedInv, StoreType
  <2>3. e \in ToSet(registered) \X (Props \ Inherits)
    BY <2>2
  <2> QED
    BY <1>4, <1>5, <2>1, <2>3
<1> QED
  BY <1>3, <1>5

LEMMA WriteStep ==
  ASSUME StoreInv, NEW o \in Objects, NEW val, NEW list, NEW rest, Announces(val, o, list, rest),
         Write(val, o, list, rest)
  PROVE  StoreInv'
BY WriteFacts, WriteMarked, WriteOwed DEF StoreInv

LEMMA CellParts ==
  ASSUME NEW c \in Cells
  PROVE  c[1] \in Objects /\ c[2] \in Props /\ c = <<c[1], c[2], c[3]>>
BY SlotAssumption

LEMMA SetSlotStep ==
  ASSUME StoreInv, NEW c \in Cells, NEW v \in MaybeValues, NEW rest \in Seq(Frames),
         \A f \in ToSet(stack) : f.kind # "setters" => f \in ToSet(rest),
         SetSlot(c, v, rest)
  PROVE  StoreInv'
<1> DEFINE o == c[1]
           val == [value EXCEPT ![c] = v]
           list == ToAnnounce(o, {c[2]})
<1>1. StoreType /\ o \in Objects /\ {c[2]} \in SUBSET Props /\ IsFiniteSet({c[2]})
  BY CellParts, FS_Singleton DEF StoreInv
<1>2. /\ list \in Seq(Changes)
      /\ ToSet(list) = {[prop |-> p, before |-> Effective(o, p)] : p \in {c[2]}}
  BY <1>1, AnnounceList
<1>3. Slotted(val) /\ \A d \in Cells : val[d] # value[d] => d = c
  BY <1>1 DEF StoreType, Slotted
<1>4. Write(val, o, list, rest)
  BY DEF SetSlot
<1> HIDE DEF list, val
<1>5. [prop |-> c[2], before |-> Effective(o, c[2])] \in ToSet(list)
  BY <1>2
<1>6. \A d \in Cells : val[d] # value[d] => d[1] = o /\ \E m \in ToSet(list) : m.prop = d[2]
  BY <1>3, <1>5
<1>7. \A m \in ToSet(list) : m.before = Effective(o, m.prop)
  BY <1>2
<1>8. Announces(val, o, list, rest)
  BY <1>2, <1>3, <1>6, <1>7 DEF Announces
<1> QED
  BY <1>1, <1>4, <1>8, WriteStep

LEMMA SetStep ==
  ASSUME StoreInv, NEW c \in Cells, NEW v \in Values, Set(c, v)
  PROVE  StoreInv'
BY SetSlotStep DEF Set, MaybeValues, StoreInv, StoreType

LEMMA Leftmost ==
  ASSUME NEW K, K \subseteq Nat, NEW i \in K, \A j \in K : i <= j
  PROVE  Highest(K) = i
<1>1. \A k \in K : (\A j \in K : k <= j) => k = i
  OBVIOUS
<1> QED
  BY <1>1 DEF Highest

(* ClearValue reads the slot, not the property: where the two differ       *)
(* nothing moves.                                                          *)
LEMMA ClearedReads ==
  ASSUME Tree(up), Slotted(value), NEW c \in Cells, value[c] # Unset
  PROVE  \/ value[c] = Effective(c[1], c[2])
         \/ GetValue(Cleared(c), up, c[1], c[2]) = Effective(c[1], c[2])
<1> DEFINE o == c[1]
           p == c[2]
           K == Kept(value, o, p)
           L == Kept(Cleared(c), o, p)
<1>1. Tree(up) /\ o \in Objects /\ c = <<o, p, c[3]>> /\ value \in [Cells -> MaybeValues]
  BY CellParts DEF Slotted
<1>2. K \subseteq Nat /\ K \subseteq DOMAIN Slots
  BY SlotAssumption DEF Kept
<1>3. \A i \in DOMAIN Slots : i \in L <=> i \in K /\ Slots[i] # c[3]
  BY <1>1 DEF Kept, Cleared
<1>4. L \subseteq DOMAIN Slots
  BY DEF Kept
<1>5. ASSUME NEW y \in Objects, y # o PROVE OwnValue(Cleared(c), y, p) = OwnValue(value, y, p)
  <2>1. \A d \in Cells : d[1] = y /\ d[2] = p => Cleared(c)[d] = value[d]
    BY <1>1, <1>5 DEF Cleared
  <2> QED
    BY <2>1, OwnDepends
<1>6. CASE K = {}
  <2>1. L = {}
    BY <1>3, <1>4, <1>6
  <2>2. OwnValue(Cleared(c), o, p) = OwnValue(value, o, p)
    BY <1>6, <2>1 DEF OwnValue
  <2>3. ASSUME NEW y \in Objects PROVE OwnValue(Cleared(c), y, p) = OwnValue(value, y, p)
    <3>1. CASE y = o
      BY <2>2, <3>1
    <3>2. CASE y # o
      BY <1>5, <3>2
    <3> QED
      BY <3>1, <3>2
  <2> QED
    BY <1>1, <2>3, NoneMove DEF Effective
<1>7. CASE K # {}
  <2> HIDE DEF K, L
  <2>1. PICK i \in K : \A j \in K : i <= j
    BY <1>2, <1>7, First
  <2>2. Highest(K) = i
    BY <1>2, <2>1, Leftmost
  <2>3. OwnValue(value, o, p) = value[<<o, p, Slots[i]>>] /\ value[<<o, p, Slots[i]>>] # Unset
    BY <1>7, <2>1, <2>2 DEF OwnValue, K, Kept
  <2>4. CASE Slots[i] = c[3]
    <3>1. OwnValue(value, o, p) = value[c] /\ OwnValue(value, o, p) # Unset
      BY <1>1, <2>3, <2>4
    <3> QED
      BY <1>1, <3>1, Reading DEF Effective
  <2>5. CASE Slots[i] # c[3]
    <3>1. i \in L /\ L \subseteq K
      BY <1>2, <1>3, <1>4, <2>1, <2>5
    <3>2. Highest(L) = i
      <4>1. L \subseteq Nat /\ \A j \in L : i <= j
        BY <1>2, <2>1, <3>1
      <4> QED
        BY <3>1, <4>1, Leftmost
    <3>3. OwnValue(Cleared(c), o, p) = Cleared(c)[<<o, p, Slots[i]>>] /\ <<o, p, Slots[i]>> \in Cells
      BY <3>1, <3>2 DEF OwnValue, L, Kept
    <3>4. <<o, p, Slots[i]>> # c
      BY <1>1, <2>5
    <3>5. Cleared(c)[<<o, p, Slots[i]>>] = value[<<o, p, Slots[i]>>]
      BY <1>1, <3>3, <3>4 DEF Cleared
    <3>6. ASSUME NEW y \in Objects PROVE OwnValue(Cleared(c), y, p) = OwnValue(value, y, p)
      <4>1. CASE y = o
        BY <2>3, <3>3, <3>5, <4>1
      <4>2. CASE y # o
        BY <1>5, <4>2
      <4> QED
        BY <4>1, <4>2
    <3> QED
      BY <1>1, <3>6, NoneMove DEF Effective
  <2> QED
    BY <2>4, <2>5
<1> QED
  BY <1>6, <1>7

LEMMA ClearStep ==
  ASSUME StoreInv, NEW c \in Cells, Clear(c)
  PROVE  StoreInv'
<1> DEFINE o == c[1]
           val == Cleared(c)
           list == <<[prop |-> c[2], before |-> value[c]]>>
<1>1. StoreType /\ o \in Objects /\ value \in [Cells -> MaybeValues] /\ c[2] \in Props
  BY CellParts DEF StoreInv, StoreType, Slotted
<1>2. list \in Seq(Changes) /\ ToSet(list) = {[prop |-> c[2], before |-> value[c]]}
  BY <1>1 DEF ToSet, Changes
<1>3. Slotted(val) /\ \A d \in Cells : val[d] # value[d] => d = c
  BY <1>1 DEF Slotted, Cleared, MaybeValues
<1>4. Write(val, o, list, stack) /\ value[c] # Unset
  BY DEF Clear, ClearSlot
<1>5. value[c] = Effective(o, c[2]) \/ GetValue(val, up, o, c[2]) = Effective(o, c[2])
  BY <1>1, <1>4, ClearedReads DEF StoreType
<1> HIDE DEF list, val
<1>6. Announces(val, o, list, stack)
  BY <1>1, <1>2, <1>3, <1>5 DEF Announces, StoreType
<1> QED
  BY <1>1, <1>4, <1>6, WriteStep

LEMMA ClearAllStep ==
  ASSUME StoreInv, NEW o \in Objects, NEW s, ClearAll(o, s)
  PROVE  StoreInv'
<1> DEFINE F == Filled(o, s)
           val == [c \in Cells |-> IF c \in F THEN Unset ELSE value[c]]
           P == {c[2] : c \in F}
           list == ToAnnounce(o, P)
<1>1. StoreType /\ value \in [Cells -> MaybeValues] /\ F \subseteq Cells
  BY DEF StoreInv, StoreType, Slotted, Filled
<1>2. P \in SUBSET Props
  BY <1>1, CellParts
<1>3. IsFiniteSet(P)
  <2>1. IsFiniteSet(F)
    BY <1>1, SizeAssumption, FS_Subset
  <2> DEFINE f == [c \in Cells |-> c[2]]
  <2>2. IsFiniteSet({f[c] : c \in F})
    <3> HIDE DEF f, F
    <3> QED
      BY <2>1, ImageIsFinite
  <2>3. {f[c] : c \in F} = P
    <3>1. \A c \in F : f[c] = c[2]
      BY <1>1
    <3> HIDE DEF f, F
    <3> QED
      BY <3>1
  <2> QED
    BY <2>2, <2>3
<1>4. /\ list \in Seq(Changes)
      /\ ToSet(list) = {[prop |-> p, before |-> Effective(o, p)] : p \in P}
  <2> HIDE DEF P
  <2> QED
    BY <1>1, <1>2, <1>3, AnnounceList
<1>5. Slotted(val) /\ \A c \in Cells : val[c] # value[c] => c \in F
  BY <1>1 DEF Slotted, MaybeValues
<1>6. Write(val, o, list, stack)
  BY DEF ClearAll
<1>7. \A c \in Cells : val[c] # value[c] => c[1] = o /\ c[2] \in P
  BY <1>5 DEF Filled
<1> HIDE DEF val, list, P
<1>8. ASSUME NEW c \in Cells, val[c] # value[c]
      PROVE  c[1] = o /\ \E m \in ToSet(list) : m.prop = c[2]
  <2>1. [prop |-> c[2], before |-> Effective(o, c[2])] \in ToSet(list)
    BY <1>4, <1>7, <1>8
  <2> QED
    BY <1>7, <1>8, <2>1
<1>9. \A m \in ToSet(list) : m.before = Effective(o, m.prop)
  BY <1>4
<1>10. Announces(val, o, list, stack)
  BY <1>1, <1>4, <1>5, <1>8, <1>9 DEF Announces, StoreType
<1> QED
  BY <1>1, <1>6, <1>10, WriteStep

-----------------------------------------------------------------------------
(* Where nothing moves, who still will be told stays so.                   *)
LEMMA QuietMarked ==
  ASSUME StoreType, MarkedInv, UNCHANGED <<value, up, seen>>,
         \A f \in ToSet(stack) : f.kind # "setters" => f \in ToSet(stack')
  PROVE  MarkedInv'
<1> SUFFICES ASSUME NEW x \in Objects, NEW p \in Props, ~(seen[x][p] \in {Unset, Effective(x, p)})
             PROVE  \E f \in ToSet(stack') : Covers(f, value, up, x, p, seen[x][p])
  BY DEF MarkedInv, Effective
<1>1. PICK f \in ToSet(stack) : Covers(f, value, up, x, p, seen[x][p])
  BY DEF MarkedInv
<1> QED
  BY <1>1, StillCovered

LEMMA QuietOwed ==
  ASSUME StoreType, OwedInv, UNCHANGED value,
         \A x \in Objects, p \in Props \ Inherits : GetValue(value, up', x, p) = Effective(x, p),
         \A e \in owed' : e \in owed /\ e[1] \in ToSet(registered'),
         \A f \in ToSet(stack) : f.kind # "setters" => f \in ToSet(stack')
  PROVE  OwedInv'
<1> SUFFICES ASSUME NEW e \in owed'
             PROVE  /\ e[1] \in ToSet(registered') /\ e[1].of \in {e[2], Whole} /\ e[2] \in Props \ Inherits
                    /\ \E f \in ToSet(stack') : WillTell(f, e[1], e[2])'
  BY DEF OwedInv
<1>1. /\ e[1] \in ToSet(registered') /\ e[1].of \in {e[2], Whole} /\ e[2] \in Props \ Inherits
      /\ \E f \in ToSet(stack) : WillTell(f, e[1], e[2])
  BY DEF OwedInv
<1>2. PICK f \in ToSet(stack) : WillTell(f, e[1], e[2])
  BY <1>1
<1>3. f \in Frames
  BY Members DEF StoreType
<1>4. f.kind # "setters" /\ f.obj \in Objects
  BY <1>2, <1>3, FrameParts DEF WillTell
<1>5. GetValue(value, up', f.obj, e[2]) = Effective(f.obj, e[2])
  BY <1>1, <1>4
<1>6. WillTell(f, e[1], e[2])'
  BY <1>2, <1>5 DEF WillTell, Effective, ToCome
<1> QED
  BY <1>1, <1>2, <1>4, <1>6

-----------------------------------------------------------------------------
(* The styles.                                                             *)
LEMMA ApplyStyleStep ==
  ASSUME StoreInv, NEW o \in Objects, NEW s, NEW v \in Values, ApplyStyle(o, s, v)
  PROVE  StoreInv'
<1> DEFINE cells == {c \in Cells : c[1] = o /\ c[3] = s}
           S == {[cell |-> c, to |-> v] : c \in cells}
           g == Setters(o, SetToSeq(S))
<1>1. StoreType /\ MarkedInv /\ OwedInv
  BY DEF StoreInv
<1>2. IsFiniteSet(S)
  <2>1. IsFiniteSet(cells)
    BY SizeAssumption, FS_Subset
  <2> DEFINE f == [c \in cells |-> [cell |-> c, to |-> v]]
  <2>2. IsFiniteSet({f[c] : c \in cells})
    <3> HIDE DEF f, cells
    <3> QED
      BY <2>1, ImageIsFinite
  <2>3. {f[c] : c \in cells} = S
    <3>1. \A c \in cells : f[c] = [cell |-> c, to |-> v]
      OBVIOUS
    <3> HIDE DEF f, cells
    <3> QED
      BY <3>1
  <2> QED
    BY <2>2, <2>3
<1>3. S \subseteq Writes /\ S # {}
  <2>1. PICK c : c \in cells
    BY DEF ApplyStyle
  <2>2. [cell |-> c, to |-> v] \in S
    BY <2>1
  <2>3. S \subseteq Writes
    BY DEF Writes
  <2> QED
    BY <2>2, <2>3
<1>4. stack' = <<g>> \o stack /\ UNCHANGED <<value, up, registered, spent, seen, owed>>
  BY DEF ApplyStyle, history
<1> HIDE DEF S
<1>5. SetToSeq(S) \in Seq(S) /\ ToSet(SetToSeq(S)) = S
  BY <1>2, Enumerated
<1>6. SetToSeq(S) \in Seq(Writes) /\ SetToSeq(S) # <<>>
  BY <1>3, <1>5, Members
<1>7. g \in Frames
  BY <1>6 DEF Frames, Setters
<1>8. stack' \in Seq(Frames) /\ ToSet(stack') = {g} \cup ToSet(stack)
  BY <1>1, <1>4, <1>7, PushMember DEF StoreType
<1>9. StoreType'
  BY <1>1, <1>4, <1>8 DEF StoreType
<1>10. \A x \in Objects, p \in Props \ Inherits : GetValue(value, up', x, p) = Effective(x, p)
  BY <1>4 DEF Effective
<1>11. MarkedInv'
  BY <1>1, <1>4, <1>8, QuietMarked
<1>12. OwedInv'
  <2>1. \A e \in owed' : e \in owed /\ e[1] \in ToSet(registered')
    BY <1>1, <1>4 DEF OwedInv
  <2> QED
    BY <1>1, <1>4, <1>8, <1>10, <2>1, QuietOwed
<1> QED
  BY <1>9, <1>11, <1>12 DEF StoreInv

(* What is left of a frame that gives up the head of its list.             *)
LEMMA Popped ==
  ASSUME StoreType, stack # <<>>
  PROVE  /\ Head(stack) \in Frames /\ Tail(stack) \in Seq(Frames)
         /\ ToSet(stack) = {Head(stack)} \cup ToSet(Tail(stack))
         /\ Len(Tail(stack)) = Len(stack) - 1 /\ Len(stack) \in Nat \ {0}
BY PopMember DEF StoreType

LEMMA NextSetterStep ==
  ASSUME StoreInv, NextSetter
  PROVE  StoreInv'
<1> DEFINE f == Head(stack)
           s == Head(f.list)
           rest == IF Len(f.list) = 1 THEN Tail(stack) ELSE <<Setters(f.obj, Tail(f.list))>> \o Tail(stack)
<1>1. StoreType /\ stack # <<>> /\ f.kind = "setters" /\ SetSlot(s.cell, s.to, rest)
  BY DEF StoreInv, NextSetter
<1>2. /\ f \in Frames /\ Tail(stack) \in Seq(Frames)
      /\ ToSet(stack) = {f} \cup ToSet(Tail(stack))
  BY <1>1, Popped
<1>3. f.obj \in Objects /\ f.list \in Seq(Writes) /\ f.list # <<>>
  BY <1>1, <1>2, FrameParts
<1>4. /\ s \in Writes /\ Tail(f.list) \in Seq(Writes)
      /\ Len(f.list) # 1 => Tail(f.list) # <<>>
  <2> HIDE DEF f
  <2> QED
    BY <1>3, PopMember
<1>5. s.cell \in Cells /\ s.to \in MaybeValues
  BY <1>4 DEF Writes, MaybeValues
<1>6. rest \in Seq(Frames) /\ ToSet(Tail(stack)) \subseteq ToSet(rest)
  <2>1. CASE Len(f.list) = 1
    BY <1>2, <2>1
  <2>2. CASE Len(f.list) # 1
    <3>1. PICK g : g = Setters(f.obj, Tail(f.list))
      OBVIOUS
    <3>2. g \in Frames
      BY <1>3, <1>4, <2>2, <3>1 DEF Frames, Setters
    <3>3. rest = <<g>> \o Tail(stack)
      BY <2>2, <3>1
    <3>4. PICK ts : ts = Tail(stack)
      OBVIOUS
    <3> HIDE DEF rest
    <3>5. ts \in Seq(Frames) /\ rest = <<g>> \o ts
      BY <1>2, <3>3, <3>4
    <3>6. rest \in Seq(Frames) /\ ToSet(rest) = {g} \cup ToSet(ts)
      BY <3>2, <3>5, PushMember
    <3> QED
      BY <3>4, <3>6
  <2> QED
    BY <2>1, <2>2
<1> HIDE DEF f, rest, s
<1>7. \A h \in ToSet(stack) : h.kind # "setters" => h \in ToSet(rest)
  BY <1>1, <1>2, <1>6
<1> QED
  BY <1>1, <1>5, <1>6, <1>7, SetSlotStep

-----------------------------------------------------------------------------
(* ValueMoved.                                                             *)
LEMMA AnnounceFrames ==
  ASSUME StoreType, stack # <<>>, Head(stack).kind = "moved",
         NEW rest, rest = IF Len(Head(stack).list) = 1 THEN Tail(stack)
                          ELSE <<Moved(Head(stack).obj, Tail(Head(stack).list))>> \o Tail(stack)
  PROVE  /\ rest \in Seq(Frames) /\ ToSet(Tail(stack)) \subseteq ToSet(rest)
         /\ Head(stack).obj \in Objects /\ Head(Head(stack).list) \in Changes
         /\ \A m \in ToSet(Head(stack).list) :
               \/ m = Head(Head(stack).list)
               \/ \E g \in ToSet(rest) : g.kind = "moved" /\ g.obj = Head(stack).obj /\ m \in ToSet(g.list)
<1> DEFINE f == Head(stack)
<1>1. f \in Frames /\ Tail(stack) \in Seq(Frames)
  BY Popped
<1>2. f.obj \in Objects /\ f.list \in Seq(Changes) /\ f.list # <<>>
  BY <1>1, FrameParts
<1>3. PICK l, t, m1 : l = f.list /\ t = Tail(l) /\ m1 = Head(l)
  OBVIOUS
<1>4. /\ t \in Seq(Changes) /\ m1 \in Changes /\ ToSet(l) = {m1} \cup ToSet(t)
      /\ Len(l) = 1 <=> t = <<>>
  BY <1>2, <1>3, PopMember
<1>5. PICK g : g = Moved(f.obj, t)
  OBVIOUS
<1>6. rest = IF Len(l) = 1 THEN Tail(stack) ELSE <<g>> \o Tail(stack)
  BY <1>3, <1>5
<1>7. CASE Len(l) = 1
  <2>1. ToSet(t) = {}
    BY <1>4, <1>7, Members
  <2>2. \A m \in ToSet(l) : m = m1
    BY <1>4, <2>1
  <2>3. rest = Tail(stack)
    BY <1>6, <1>7
  <2> QED
    BY <1>1, <1>2, <1>3, <1>4, <2>2, <2>3
<1>8. CASE Len(l) # 1
  <2>1. g \in Frames
    BY <1>2, <1>4, <1>5, <1>8 DEF Frames, Moved
  <2>2. rest \in Seq(Frames) /\ ToSet(rest) = {g} \cup ToSet(Tail(stack))
    <3>1. PICK ts : ts = Tail(stack)
      OBVIOUS
    <3>2. ts \in Seq(Frames) /\ rest = <<g>> \o ts
      BY <1>1, <1>6, <1>8, <3>1
    <3> QED
      BY <2>1, <3>1, <3>2, PushMember
  <2>3. g.kind = "moved" /\ g.obj = f.obj /\ g.list = t
    BY <1>5 DEF Moved
  <2>4. \A m \in ToSet(l) : m = m1 \/ m \in ToSet(g.list)
    BY <1>4, <2>3
  <2> QED
    BY <1>2, <1>3, <1>4, <2>2, <2>3, <2>4
<1> QED
  BY <1>7, <1>8

LEMMA AnnounceMarked ==
  ASSUME StoreType, MarkedInv, Announce
  PROVE  StoreType' /\ MarkedInv'
<1> DEFINE f == Head(stack)
           m == Head(f.list)
           now == Effective(f.obj, m.prop)
           g == Telling(f.obj, m.prop, m.before, now, Metadata, Whole, {})
<1>1. PICK rest : rest = IF Len(Head(stack).list) = 1 THEN Tail(stack)
                         ELSE <<Moved(Head(stack).obj, Tail(Head(stack).list))>> \o Tail(stack)
  OBVIOUS
<1>2. /\ stack # <<>> /\ f.kind = "moved" /\ UNCHANGED <<value, up, registered, spent, owed>>
      /\ \/ m.before = now /\ stack' = rest /\ UNCHANGED seen
         \/ /\ m.before # now /\ stack' = <<g>> \o rest
            /\ seen' = Marked(seen, value, up, {f.obj}, m.prop)
  BY <1>1 DEF Announce, SameValue, history
<1>3. /\ rest \in Seq(Frames) /\ ToSet(Tail(stack)) \subseteq ToSet(rest)
      /\ f.obj \in Objects /\ m \in Changes
      /\ \A m2 \in ToSet(f.list) : \/ m2 = m
                                  \/ \E h \in ToSet(rest) : h.kind = "moved" /\ h.obj = f.obj /\ m2 \in ToSet(h.list)
  BY <1>1, <1>2, AnnounceFrames
<1>4. ToSet(stack) = {f} \cup ToSet(Tail(stack))
  BY <1>2, Popped
<1>5. m.prop \in Props /\ m.before \in MaybeValues /\ now \in Values /\ now = GetValue(value, up, f.obj, m.prop)
  BY <1>3, ReadTyped DEF Changes, StoreType, Effective
<1>6. g \in Frames
  BY <1>3, <1>5 DEF Frames, Telling, MaybeValues
<1> HIDE DEF f, m, g, now
<1>7. ToSet(rest) \subseteq ToSet(stack') /\ stack' \in Seq(Frames) /\ (m.before # now => g \in ToSet(stack'))
  <2>1. CASE m.before = now
    BY <1>2, <1>3, <2>1
  <2>2. CASE m.before # now
    <3>1. g \in Frames /\ rest \in Seq(Frames) /\ stack' = <<g>> \o rest
      BY <1>2, <1>3, <1>6, <2>2
    <3> QED
      BY <3>1, PushMember
  <2> QED
    BY <2>1, <2>2
<1>8. seen' \in [Objects -> [Props -> MaybeValues]]
  BY <1>2, <1>5, ReadTyped DEF Marked, StoreType, MaybeValues
<1>9. StoreType'
  BY <1>2, <1>7, <1>8 DEF StoreType
<1>10. ASSUME NEW x \in Objects, NEW p \in Props,
              ~(seen'[x][p] \in {Unset, GetValue(value, up, x, p)})
       PROVE  \E h \in ToSet(stack') : Covers(h, value, up, x, p, seen'[x][p])
  <2>1. seen'[x][p] = seen[x][p] /\ (m.before # now => ~(x = f.obj /\ p = m.prop))
    BY <1>2, <1>5, <1>10 DEF Marked, StoreType
  <2>2. PICK h \in ToSet(stack) : Covers(h, value, up, x, p, seen[x][p])
    BY <1>10, <2>1 DEF MarkedInv, Effective
  <2>3. CASE h \in ToSet(Tail(stack))
    BY <1>3, <1>7, <2>1, <2>2, <2>3
  <2>4. CASE h = f
    <3>1. /\ x = f.obj \/ (p \in Inherits /\ x \in Heirs(value, up, f.obj, p))
          /\ Lists(f, p, seen[x][p])
      BY <1>2, <2>2, <2>4 DEF Covers
    <3>2. PICK m2 \in ToSet(f.list) : m2.prop = p /\ m2.before = seen[x][p]
      BY <3>1 DEF Lists
    <3>3. CASE m2 # m
      <4>1. PICK k \in ToSet(rest) : k.kind = "moved" /\ k.obj = f.obj /\ m2 \in ToSet(k.list)
        BY <1>3, <3>2, <3>3
      <4>2. Covers(k, value, up, x, p, seen'[x][p])
        BY <2>1, <3>1, <3>2, <4>1 DEF Covers, Lists
      <4> QED
        BY <1>7, <4>1, <4>2
    <3>4. CASE m2 = m /\ m.before = now
      <4>1. GetValue(value, up, x, p) = GetValue(value, up, f.obj, p)
        BY <1>3, <3>1, HeirsChain, HeirsRead DEF StoreType
      <4> QED
        BY <1>5, <1>10, <2>1, <3>2, <3>4, <4>1
    <3>5. CASE m2 = m /\ m.before # now
      <4>1. x # f.obj
        BY <2>1, <3>2, <3>5
      <4>2. Covers(g, value, up, x, p, seen'[x][p])
        BY <2>1, <3>1, <3>2, <3>5, <4>1 DEF Covers, g, Telling
      <4> QED
        BY <1>7, <3>5, <4>2
    <3> QED
      BY <3>3, <3>4, <3>5
  <2> QED
    BY <1>4, <2>3, <2>4
<1>11. MarkedInv'
  BY <1>2, <1>10 DEF MarkedInv, Effective
<1> QED
  BY <1>9, <1>11

LEMMA AnnounceOwed ==
  ASSUME StoreType, OwedInv, Announce
  PROVE  OwedInv'
<1> DEFINE f == Head(stack)
           m == Head(f.list)
           now == Effective(f.obj, m.prop)
           g == Telling(f.obj, m.prop, m.before, now, Metadata, Whole, {})
<1>1. PICK rest : rest = IF Len(Head(stack).list) = 1 THEN Tail(stack)
                         ELSE <<Moved(Head(stack).obj, Tail(Head(stack).list))>> \o Tail(stack)
  OBVIOUS
<1>2. /\ stack # <<>> /\ f.kind = "moved" /\ UNCHANGED <<value, up, registered, spent, owed>>
      /\ \/ m.before = now /\ stack' = rest
         \/ m.before # now /\ stack' = <<g>> \o rest
  BY <1>1 DEF Announce, SameValue, history
<1>3. /\ rest \in Seq(Frames) /\ ToSet(Tail(stack)) \subseteq ToSet(rest)
      /\ f.obj \in Objects /\ m \in Changes
      /\ \A m2 \in ToSet(f.list) : \/ m2 = m
                                  \/ \E h \in ToSet(rest) : h.kind = "moved" /\ h.obj = f.obj /\ m2 \in ToSet(h.list)
  BY <1>1, <1>2, AnnounceFrames
<1>4. ToSet(stack) = {f} \cup ToSet(Tail(stack))
  BY <1>2, Popped
<1>5. now \in Values /\ m.prop \in Props /\ m.before \in MaybeValues
  BY <1>3, ReadTyped DEF Changes, StoreType, Effective
<1>6. g \in Frames
  BY <1>3, <1>5 DEF Frames, Telling, MaybeValues
<1> HIDE DEF f, m, g
<1>7. ToSet(rest) \subseteq ToSet(stack') /\ (m.before # now => g \in ToSet(stack'))
  <2> HIDE DEF now
  <2>1. CASE m.before = now
    BY <1>2, <1>3, <2>1
  <2>2. CASE m.before # now
    <3>1. g \in Frames /\ rest \in Seq(Frames) /\ stack' = <<g>> \o rest
      BY <1>2, <1>3, <1>6, <2>2
    <3> QED
      BY <3>1, PushMember
  <2> QED
    BY <2>1, <2>2
<1> SUFFICES ASSUME NEW e \in owed
             PROVE  /\ e[1] \in ToSet(registered) /\ e[1].of \in {e[2], Whole} /\ e[2] \in Props \ Inherits
                    /\ \E h \in ToSet(stack') : WillTell(h, e[1], e[2])'
  BY <1>2 DEF OwedInv
<1>8. /\ e[1] \in ToSet(registered) /\ e[1].of \in {e[2], Whole} /\ e[2] \in Props \ Inherits
      /\ \E h \in ToSet(stack) : WillTell(h, e[1], e[2])
  BY DEF OwedInv
<1>9. \A h : WillTell(h, e[1], e[2])' <=> WillTell(h, e[1], e[2])
  BY <1>2 DEF WillTell, Effective, ToCome
<1>10. PICK h \in ToSet(stack) : WillTell(h, e[1], e[2])
  BY <1>8
<1>11. CASE h \in ToSet(Tail(stack))
  BY <1>3, <1>7, <1>8, <1>9, <1>10, <1>11
<1>12. CASE h = f
  <2>1. PICK m2 \in ToSet(f.list) : m2.prop = e[2] /\ m2.before # Effective(f.obj, e[2])
    BY <1>2, <1>10, <1>12 DEF WillTell
  <2>2. f.obj = e[1].at
    BY <1>10, <1>12 DEF WillTell
  <2>3. CASE m2 # m
    <3>1. PICK k \in ToSet(rest) : k.kind = "moved" /\ k.obj = f.obj /\ m2 \in ToSet(k.list)
      BY <1>3, <2>1, <2>3
    <3>2. WillTell(k, e[1], e[2])
      BY <2>1, <2>2, <3>1 DEF WillTell
    <3> QED
      BY <1>7, <1>8, <1>9, <3>1, <3>2
  <2>4. CASE m2 = m
    <3>1. m.before # now /\ now = Effective(f.obj, e[2])
      BY <2>1, <2>4
    <3>2. WillTell(g, e[1], e[2])
      BY <2>1, <2>2, <2>4, <3>1 DEF WillTell, g, Telling, ToCome
    <3> QED
      BY <1>7, <1>8, <1>9, <3>1, <3>2
  <2> QED
    BY <2>3, <2>4
<1> QED
  BY <1>4, <1>11, <1>12

-----------------------------------------------------------------------------
(* Return: which observer comes next.                                      *)
LEMMA OldestIs ==
  ASSUME StoreType, NEW hs, hs \subseteq ToSet(registered), hs # {}
  PROVE  Oldest(hs) \in hs
<1> DEFINE I == {i \in DOMAIN registered : registered[i] \in hs}
<1>1. registered \in Seq(Handlers)
  BY DEF StoreType
<1>2. I \subseteq Nat /\ I # {}
  BY <1>1 DEF ToSet
<1>3. PICK i \in I : \A j \in I : i <= j
  <2> HIDE DEF I
  <2> QED
    BY <1>2, First
<1>4. i \in DOMAIN registered /\ registered[i] \in hs /\ DOMAIN registered = 1 .. Len(registered) /\ Len(registered) \in Nat
  BY <1>1, <1>3
<1>5. ASSUME NEW g \in hs \ {registered[i]}
      PROVE  Precedes(registered[i], g)
  <2>1. ASSUME NEW j \in 1 .. i, registered[j] = g PROVE FALSE
    <3>1. j \in I /\ j <= i /\ j # i
      BY <1>4, <1>5, <2>1
    <3> QED
      BY <1>2, <1>3, <3>1
  <2> QED
    BY <1>4, <2>1 DEF Precedes
<1> QED
  BY <1>4, <1>5 DEF Oldest

(* The one that follows f is registered, and whoever f still had to tell   *)
(* is that one or is told later.                                           *)
LEMMA Following ==
  ASSUME StoreType, NEW f \in Frames, f.kind = "telling", NEW n, n = NextObserver(f)
  PROVE  /\ n.who \in ToSet(registered) \cup {NoObserver}
         /\ n.phase \in Props \cup {Whole} /\ n.rest \in SUBSET Handlers
         /\ \A h \in ToSet(registered) :
               h.at = f.obj /\ h.of \in {f.prop, Whole} /\ ToCome(f, h)
               => n.who # NoObserver /\ (h = n.who \/ (n.phase = Whole /\ h.of # Whole) \/ h \in n.rest)
<1> DEFINE whole == IF f.who = Metadata THEN OfKind(f.obj, Whole)
                    ELSE IF f.phase = Whole THEN StillThere(f.rest) ELSE {}
           each == IF f.phase = Whole THEN OfKind(f.obj, f.prop) ELSE StillThere(f.rest)
<1>1. /\ f.prop \in Props /\ f.rest \in SUBSET Handlers
      /\ f.who = Metadata => f.phase = Whole
      /\ ToSet(registered) \subseteq Handlers
  BY FrameParts DEF StoreType
<1>2. whole \subseteq ToSet(registered) /\ each \subseteq ToSet(registered)
  BY DEF OfKind, StillThere
<1>3. n = IF whole # {} THEN Calling(whole, Whole)
          ELSE IF each # {} THEN Calling(each, f.prop)
          ELSE [who |-> NoObserver, phase |-> Whole, rest |-> {}]
  BY DEF NextObserver
<1>4. ASSUME NEW h \in ToSet(registered), h.at = f.obj, h.of \in {f.prop, Whole}, ToCome(f, h)
      PROVE  h \in whole \/ (h.of # Whole /\ whole # {}) \/ (whole = {} /\ h \in each)
  <2>1. CASE f.who = Metadata
    <3>1. whole = OfKind(f.obj, Whole) /\ each = OfKind(f.obj, f.prop)
      BY <1>1, <2>1
    <3> HIDE DEF whole, each
    <3>2. CASE h.of = Whole
      BY <1>4, <3>1, <3>2 DEF OfKind
    <3>3. CASE h.of = f.prop
      <4>1. h \in each
        BY <1>4, <3>1, <3>3 DEF OfKind
      <4>2. h.of # Whole
        BY <1>1, <3>3, SlotAssumption
      <4> QED
        BY <4>1, <4>2
    <3> QED
      BY <1>4, <3>2, <3>3
  <2>2. CASE f.who # Metadata /\ f.phase = Whole /\ h.of # Whole
    BY <1>1, <1>4, <2>2 DEF OfKind
  <2>3. CASE f.who # Metadata /\ h \in f.rest
    BY <1>1, <1>4, <2>3 DEF StillThere
  <2> QED
    BY <1>4, <2>1, <2>2, <2>3 DEF ToCome
<1>5. NoObserver \notin Handlers
  BY SlotAssumption DEF NoObserver, Objects
<1> HIDE DEF whole, each
<1>6. ASSUME NEW hs, NEW phase, hs # {}, hs \subseteq ToSet(registered), n = Calling(hs, phase)
      PROVE  /\ n.who \in ToSet(registered) /\ n.who # NoObserver /\ n.phase = phase
             /\ n.rest \in SUBSET Handlers /\ \A h \in hs : h = n.who \/ h \in n.rest
  <2>1. Oldest(hs) \in hs
    BY <1>6, OldestIs
  <2>2. n.who = Oldest(hs) /\ n.phase = phase /\ n.rest = hs \ {Oldest(hs)}
    BY <1>6 DEF Calling
  <2> QED
    BY <1>1, <1>5, <1>6, <2>1, <2>2
<1>7. CASE whole # {}
  <2>1. n = Calling(whole, Whole)
    BY <1>3, <1>7
  <2>2. /\ n.who \in ToSet(registered) /\ n.who # NoObserver /\ n.phase = Whole
        /\ n.rest \in SUBSET Handlers /\ \A h \in whole : h = n.who \/ h \in n.rest
    BY <1>2, <1>6, <1>7, <2>1
  <2> QED
    BY <1>4, <1>7, <2>2
<1>8. CASE whole = {} /\ each # {}
  <2>1. n = Calling(each, f.prop)
    BY <1>3, <1>8
  <2>2. /\ n.who \in ToSet(registered) /\ n.who # NoObserver /\ n.phase = f.prop
        /\ n.rest \in SUBSET Handlers /\ \A h \in each : h = n.who \/ h \in n.rest
    BY <1>2, <1>6, <1>8, <2>1
  <2>3. ASSUME NEW h \in ToSet(registered), h.at = f.obj, h.of \in {f.prop, Whole}, ToCome(f, h)
        PROVE  h = n.who \/ h \in n.rest
    <3>1. h \in each
      BY <1>4, <1>8, <2>3
    <3> QED
      BY <2>2, <3>1
  <2>4. n.phase \in Props \cup {Whole}
    BY <1>1, <2>2
  <2> QED
    BY <2>2, <2>3, <2>4
<1>9. CASE whole = {} /\ each = {}
  <2>1. n = [who |-> NoObserver, phase |-> Whole, rest |-> {}]
    BY <1>3, <1>9
  <2> QED
    BY <1>4, <1>9, <2>1
<1> QED
  BY <1>7, <1>8, <1>9

(* The next observer runs.                                                 *)
Handing(f, n) == [f EXCEPT !.who = n.who, !.phase = n.phase, !.rest = n.rest]

LEMMA Handed ==
  ASSUME NEW f \in Frames, f.kind = "telling", NEW n, n.who \in Handlers, n.phase \in Props \cup {Whole},
         n.rest \in SUBSET Handlers, NEW g, g = Handing(f, n)
  PROVE  /\ g \in Frames
         /\ g.kind = "telling" /\ g.obj = f.obj /\ g.prop = f.prop /\ g.before = f.before /\ g.after = f.after
         /\ g.phase = n.phase /\ g.rest = n.rest
<1>1. PICK ob, pr, be, af, wh, ph, re :
         /\ ob \in Objects /\ pr \in Props /\ be \in MaybeValues /\ af \in MaybeValues
         /\ f = [kind |-> "telling", obj |-> ob, prop |-> pr, before |-> be, after |-> af,
                 who |-> wh, phase |-> ph, rest |-> re]
  BY DEF Frames
<1>2. g = [kind |-> "telling", obj |-> ob, prop |-> pr, before |-> be, after |-> af,
           who |-> n.who, phase |-> n.phase, rest |-> n.rest]
  BY <1>1 DEF Handing
<1>3. n.who # Metadata
  BY SlotAssumption DEF Metadata, Objects
<1>4. g \in Frames
  BY <1>1, <1>2, <1>3 DEF Frames
<1> QED
  BY <1>1, <1>2, <1>4

LEMMA NextRuns ==
  ASSUME StoreInv, NEW f \in Frames, f.kind = "telling", NEW n, n = NextObserver(f),
         n.who # NoObserver, UNCHANGED <<value, up, registered, spent, seen>>,
         NEW g \in Frames, NEW ts \in Seq(Frames), stack' = <<g>> \o ts,
         ToSet(stack) = {f} \cup ToSet(ts),
         g.kind = "telling", g.obj = f.obj, g.prop = f.prop, g.before = f.before, g.after = f.after,
         g.phase = n.phase, g.rest = n.rest,
         owed' = owed \ Told(n.who, f.obj, f.prop, f.after, Effective(f.obj, f.prop))
  PROVE  StoreInv'
<1>1. StoreType /\ MarkedInv /\ OwedInv
  BY DEF StoreInv
<1>2. \A h \in ToSet(registered) :
         h.at = f.obj /\ h.of \in {f.prop, Whole} /\ ToCome(f, h)
         => h = n.who \/ (n.phase = Whole /\ h.of # Whole) \/ h \in n.rest
  BY <1>1, Following
<1>3. stack' \in Seq(Frames) /\ ToSet(stack') = {g} \cup ToSet(ts)
  BY PushMember
<1>4. StoreType'
  BY <1>1, <1>3 DEF StoreType
<1>5. MarkedInv'
  <2> SUFFICES ASSUME NEW x \in Objects, NEW p \in Props, ~(seen[x][p] \in {Unset, Effective(x, p)})
               PROVE  \E h \in ToSet(stack') : Covers(h, value, up, x, p, seen[x][p])
    BY DEF MarkedInv, Effective
  <2>1. PICK h \in ToSet(stack) : Covers(h, value, up, x, p, seen[x][p])
    BY <1>1 DEF MarkedInv
  <2>2. CASE h = f
    <3>1. Covers(g, value, up, x, p, seen[x][p])
      BY <2>1, <2>2 DEF Covers
    <3> QED
      BY <1>3, <3>1
  <2> QED
    BY <1>3, <2>1, <2>2
<1>6. OwedInv'
  <2> SUFFICES ASSUME NEW e \in owed'
               PROVE  /\ e[1] \in ToSet(registered) /\ e[1].of \in {e[2], Whole} /\ e[2] \in Props \ Inherits
                      /\ \E h \in ToSet(stack') : WillTell(h, e[1], e[2])'
    BY DEF OwedInv
  <2>1. /\ e \in owed /\ e = <<e[1], e[2]>>
        /\ e[1] \in ToSet(registered) /\ e[1].of \in {e[2], Whole} /\ e[2] \in Props \ Inherits
        /\ \E h \in ToSet(stack) : WillTell(h, e[1], e[2])
    BY <1>1 DEF OwedInv, StoreType
  <2>2. \A h : WillTell(h, e[1], e[2])' <=> WillTell(h, e[1], e[2])
    BY DEF WillTell, Effective, ToCome
  <2>3. PICK h \in ToSet(stack) : WillTell(h, e[1], e[2])
    BY <2>1
  <2>4. CASE h = f
    <3>1. f.obj = e[1].at /\ f.prop = e[2] /\ f.after = Effective(f.obj, e[2]) /\ ToCome(f, e[1])
      BY <2>3, <2>4 DEF WillTell
    <3>2. e[1] # n.who
      BY <2>1, <3>1 DEF Told
    <3>3. (n.phase = Whole /\ e[1].of # Whole) \/ e[1] \in n.rest
      BY <1>2, <2>1, <3>1, <3>2
    <3>4. WillTell(g, e[1], e[2])
      BY <3>1, <3>3 DEF WillTell, ToCome
    <3> QED
      BY <1>3, <2>1, <2>2, <3>4
  <2> QED
    BY <1>3, <2>1, <2>2, <2>3, <2>4
<1> QED
  BY <1>4, <1>5, <1>6 DEF StoreInv

(* The last has run: the heirs that read the value before hear.            *)
LEMMA LastRan ==
  ASSUME StoreInv, NEW f, f = Head(stack), stack # <<>>, f.kind = "telling", NextObserver(f).who = NoObserver,
         UNCHANGED <<value, up, registered, spent, owed>>, stack' = Tail(stack),
         NEW heard, heard = IF f.prop \in Inherits THEN Reaches(value, up, f.obj, f.prop, f.before) ELSE {},
         seen' = Marked(seen, value, up, heard, f.prop)
  PROVE  StoreInv'
<1>1. StoreType /\ MarkedInv /\ OwedInv
  BY DEF StoreInv
<1>2. f \in Frames /\ stack' \in Seq(Frames) /\ ToSet(stack) = {f} \cup ToSet(stack')
  BY <1>1, Popped
<1>3. f.obj \in Objects /\ f.prop \in Props
  BY <1>2, FrameParts
<1>4. heard \subseteq Objects
  BY DEF Reaches
<1>5. \A x \in Objects : GetValue(value, up, x, f.prop) \in Values
  BY <1>1, ReadTyped DEF StoreType
<1>6. seen' \in [Objects -> [Props -> MaybeValues]]
  BY <1>1, <1>3, <1>5 DEF Marked, StoreType, MaybeValues
<1>7. StoreType'
  BY <1>1, <1>2, <1>6 DEF StoreType
<1>8. MarkedInv'
  <2> SUFFICES ASSUME NEW x \in Objects, NEW p \in Props, ~(seen'[x][p] \in {Unset, GetValue(value, up, x, p)})
               PROVE  \E h \in ToSet(stack') : Covers(h, value, up, x, p, seen'[x][p])
    BY DEF MarkedInv, Effective
  <2>1. seen'[x][p] = seen[x][p] /\ ~(x \in heard /\ p = f.prop)
    BY <1>1, <1>3 DEF Marked, StoreType
  <2>2. PICK h \in ToSet(stack) : Covers(h, value, up, x, p, seen[x][p])
    BY <1>1, <2>1 DEF MarkedInv, Effective
  <2>3. CASE h = f
    <3>1. p = f.prop /\ f.before = seen[x][p] /\ p \in Inherits /\ x \in Heirs(value, up, f.obj, p)
      BY <2>2, <2>3 DEF Covers
    <3>2. GetValue(value, up, x, p) = GetValue(value, up, f.obj, p)
      BY <1>1, <1>3, <3>1, HeirsChain, HeirsRead DEF StoreType
    <3>3. f.before # GetValue(value, up, f.obj, p)
      BY <2>1, <3>1, <3>2
    <3>4. x \in Reaches(value, up, f.obj, p, f.before)
      BY <1>1, <1>3, <3>1, <3>3, HeirsChain, HeirsHear DEF StoreType
    <3> QED
      BY <2>1, <3>1, <3>4
  <2> QED
    BY <1>2, <2>1, <2>2, <2>3
<1>9. OwedInv'
  <2> SUFFICES ASSUME NEW e \in owed
               PROVE  /\ e[1] \in ToSet(registered) /\ e[1].of \in {e[2], Whole} /\ e[2] \in Props \ Inherits
                      /\ \E h \in ToSet(stack') : WillTell(h, e[1], e[2])'
    BY DEF OwedInv
  <2>1. /\ e[1] \in ToSet(registered) /\ e[1].of \in {e[2], Whole} /\ e[2] \in Props \ Inherits
        /\ \E h \in ToSet(stack) : WillTell(h, e[1], e[2])
    BY <1>1 DEF OwedInv
  <2>2. \A h : WillTell(h, e[1], e[2])' <=> WillTell(h, e[1], e[2])
    BY DEF WillTell, Effective, ToCome
  <2>3. PICK h \in ToSet(stack) : WillTell(h, e[1], e[2])
    BY <2>1
  <2>4. CASE h = f
    <3>1. f.obj = e[1].at /\ f.prop = e[2] /\ ToCome(f, e[1])
      BY <2>3, <2>4 DEF WillTell
    <3> QED
      BY <1>1, <1>2, <2>1, <3>1, Following
  <2> QED
    BY <1>2, <2>1, <2>2, <2>3, <2>4
<1> QED
  BY <1>7, <1>8, <1>9 DEF StoreInv

LEMMA ReturnStep ==
  ASSUME StoreInv, Return
  PROVE  StoreInv'
<1>1. PICK f, n, heard :
         /\ f = Head(stack) /\ n = NextObserver(f)
         /\ heard = IF f.prop \in Inherits THEN Reaches(value, up, f.obj, f.prop, f.before) ELSE {}
  OBVIOUS
<1>2. stack # <<>> /\ f.kind = "telling" /\ UNCHANGED <<value, up, registered, spent>>
  BY <1>1 DEF Return
<1>3. \/ /\ n.who # NoObserver
         /\ stack' = <<[f EXCEPT !.who = n.who, !.phase = n.phase, !.rest = n.rest]>> \o Tail(stack)
         /\ owed' = owed \ Told(n.who, f.obj, f.prop, f.after, Effective(f.obj, f.prop))
         /\ UNCHANGED seen
      \/ /\ n.who = NoObserver
         /\ stack' = Tail(stack)
         /\ seen' = Marked(seen, value, up, heard, f.prop)
         /\ UNCHANGED owed
  BY <1>1 DEF Return
<1>4. CASE n.who # NoObserver
  <2>1. PICK g, ts : g = Handing(f, n) /\ ts = Tail(stack)
    OBVIOUS
  <2>2. f \in Frames /\ StoreType
    BY <1>1, <1>2, Popped DEF StoreInv
  <2>3. n.who \in Handlers /\ n.phase \in Props \cup {Whole} /\ n.rest \in SUBSET Handlers
    BY <1>1, <1>2, <1>4, <2>2, Following DEF StoreType
  <2>4. /\ g \in Frames
        /\ g.kind = "telling" /\ g.obj = f.obj /\ g.prop = f.prop /\ g.before = f.before /\ g.after = f.after
        /\ g.phase = n.phase /\ g.rest = n.rest
    BY <1>2, <2>1, <2>2, <2>3, Handed
  <2>5. /\ stack' = <<g>> \o ts
        /\ owed' = owed \ Told(n.who, f.obj, f.prop, f.after, Effective(f.obj, f.prop)) /\ UNCHANGED seen
    BY <1>3, <1>4, <2>1 DEF Handing
  <2>6. ts \in Seq(Frames) /\ ToSet(stack) = {f} \cup ToSet(ts)
    BY <1>1, <1>2, <2>1, <2>2, Popped
  <2> QED
    BY <1>1, <1>2, <1>4, <2>2, <2>4, <2>5, <2>6, NextRuns
<1>5. CASE n.who = NoObserver
  BY <1>1, <1>2, <1>3, <1>5, LastRan
<1> QED
  BY <1>4, <1>5

LEMMA ThrowStep ==
  ASSUME StoreInv, Throw
  PROVE  StoreInv'
<1>1. StoreType /\ UNCHANGED <<value, up, registered, spent>> /\ stack' = <<>> /\ owed' = {}
      /\ seen' = Overtake(seen, Objects, Props)
  BY DEF StoreInv, Throw
<1>2. seen' \in [Objects -> [Props -> MaybeValues]]
  BY <1>1 DEF Overtake, StoreType, MaybeValues
<1>3. StoreType'
  BY <1>1, <1>2 DEF StoreType
<1>4. \A x \in Objects, p \in Props : seen'[x][p] \in {Unset, Effective(x, p)}
  BY <1>1 DEF Overtake
<1>5. MarkedInv'
  BY <1>1, <1>4 DEF MarkedInv, Effective
<1>6. OwedInv'
  BY <1>1 DEF OwedInv
<1> QED
  BY <1>3, <1>5, <1>6 DEF StoreInv

-----------------------------------------------------------------------------
(* SetInheritanceParent.                                                   *)
LEMMA ParentStep ==
  ASSUME StoreInv, NEW o \in Objects, NEW q \in 0 .. NObjects, SetInheritanceParent(o, q)
  PROVE  StoreInv'
<1>1. PICK tree : tree = [up EXCEPT ![o] = q]
  OBVIOUS
<1> DEFINE moved == {p \in Inherits : OwnValue(value, o, p) = Unset
                                      /\ Effective(o, p) # GetValue(value, tree, o, p)}
           told == [p \in Inherits |->
                      IF p \in moved THEN {o} \cup Reaches(value, tree, o, p, Effective(o, p)) ELSE {}]
           past == Overtake(seen, {o} \cup Below(up, o), Inherits)
<1>2. /\ up' = tree /\ q < o /\ UNCHANGED <<value, registered, spent, stack, owed>>
      /\ seen' = [x \in Objects |-> [p \in Props |->
                    IF p \in Inherits /\ x \in told[p] THEN GetValue(value, tree, x, p) ELSE past[x][p]]]
  BY <1>1 DEF SetInheritanceParent
<1>3. StoreType /\ MarkedInv /\ OwedInv /\ Tree(up)
  BY DEF StoreInv, StoreType
<1>4. Tree(tree) /\ \A y \in Objects \ {o} : tree[y] = up[y]
  BY <1>1, <1>2, <1>3 DEF Tree
<1>5. \A p : At(o, p, value, up, value, tree)
  BY <1>3, <1>4 DEF At
<1>6. \A x \in Objects, p \in Props :
         seen'[x][p] = IF p \in Inherits /\ x \in told[p] THEN GetValue(value, tree, x, p)
                       ELSE IF x \in {o} \cup Below(up, o) /\ p \in Inherits /\ seen[x][p] # Effective(x, p)
                       THEN Unset ELSE seen[x][p]
  BY <1>2 DEF Overtake
<1>7. \A p \in Inherits : told[p] = IF p \in moved THEN {o} \cup Reaches(value, tree, o, p, Effective(o, p)) ELSE {}
  OBVIOUS
<1>8. \A x \in Objects, p \in Props : seen'[x][p] \in MaybeValues
  <2>1. \A x \in Objects, p \in Props : GetValue(value, tree, x, p) \in MaybeValues /\ seen[x][p] \in MaybeValues
    BY <1>3, <1>4, ReadTyped DEF StoreType, MaybeValues
  <2> HIDE DEF told
  <2> QED
    BY <1>6, <2>1 DEF MaybeValues
<1>9. StoreType'
  <2>1. seen' \in [Objects -> [Props -> MaybeValues]]
    <3> HIDE DEF told, past
    <3> QED
      BY <1>2, <1>8
  <2> QED
    BY <1>2, <1>3, <1>4, <2>1 DEF StoreType
<1> HIDE DEF told, past, moved
<1>10. ASSUME NEW x \in Objects, NEW p \in Props \ Inherits
       PROVE  GetValue(value, tree, x, p) = Effective(x, p)
  BY <1>3, <1>4, <1>10, Reading DEF Effective
<1>11. ASSUME NEW x \in Objects, NEW p \in Props
       PROVE  \/ seen'[x][p] \in {Unset, GetValue(value, tree, x, p)}
              \/ \E f \in ToSet(stack) : Covers(f, value, tree, x, p, seen'[x][p])
  <2>1. \/ seen[x][p] \in {Unset, Effective(x, p)}
        \/ \E f \in ToSet(stack) : Covers(f, value, up, x, p, seen[x][p])
    BY <1>3 DEF MarkedInv
  <2>2. CASE p \notin Inherits
    <3>1. seen'[x][p] = seen[x][p] /\ GetValue(value, tree, x, p) = Effective(x, p)
      BY <1>6, <1>10, <2>2
    <3>2. ASSUME NEW f \in ToSet(stack), Covers(f, value, up, x, p, seen[x][p])
          PROVE  Covers(f, value, tree, x, p, seen[x][p])
      BY <2>2, <3>2 DEF Covers
    <3> QED
      BY <2>1, <3>1, <3>2
  <2>3. CASE p \in Inherits /\ x \in told[p]
    BY <1>6, <2>3
  <2>4. CASE p \in Inherits /\ x \notin told[p] /\ x \in {o} \cup Below(up, o)
    <3>1. seen'[x][p] \in {Unset, Effective(x, p)}
      BY <1>6, <2>4
    <3>2. GetValue(value, tree, x, p) = Effective(x, p)
      <4> SUFFICES ASSUME GetValue(value, tree, x, p) # GetValue(value, up, x, p) PROVE FALSE
        BY DEF Effective
      <4>1. /\ x = o \/ x \in Heirs(value, up, o, p)
            /\ GetValue(value, tree, o, p) # GetValue(value, up, o, p)
        BY <1>5, Moves
      <4>2. OwnValue(value, o, p) = Unset
        BY <1>3, <1>4, <4>1, Reading
      <4>3. p \in moved /\ Effective(o, p) # GetValue(value, tree, o, p)
        BY <2>4, <4>1, <4>2 DEF moved, Effective
      <4>4. Chain(value, tree, o, p, Heirs(value, up, o, p))
        BY <1>5, SameHeirs, HeirsChain
      <4>5. Heirs(value, up, o, p) \subseteq Reaches(value, tree, o, p, Effective(o, p))
        BY <1>4, <2>4, <4>3, <4>4, HeirsHear
      <4> QED
        BY <1>7, <2>4, <4>1, <4>3, <4>5
    <3> QED
      BY <3>1, <3>2
  <2>5. CASE p \in Inherits /\ x \notin told[p] /\ x \notin {o} \cup Below(up, o)
    <3>1. seen'[x][p] = seen[x][p]
      BY <1>6, <2>5
    <3>2. /\ GetValue(value, tree, x, p) = Effective(x, p)
          /\ \A w \in Objects : x \in Heirs(value, up, w, p) => x \in Heirs(value, tree, w, p)
      BY <1>5, <2>5, Apart DEF Effective
    <3>3. stack' = stack
      BY <1>2
    <3> QED
      BY <1>3, <2>1, <3>1, <3>2, <3>3, StillCovered
  <2> QED
    BY <2>2, <2>3, <2>4, <2>5
<1>12. MarkedInv'
  BY <1>2, <1>11 DEF MarkedInv, Effective
<1>13. OwedInv'
  <2>1. \A e \in owed' : e \in owed /\ e[1] \in ToSet(registered')
    BY <1>2, <1>3 DEF OwedInv
  <2> QED
    BY <1>2, <1>3, <1>10, <2>1, QuietOwed
<1> QED
  BY <1>9, <1>12, <1>13 DEF StoreInv

-----------------------------------------------------------------------------
(* The handlers' list.                                                     *)
LEMMA Joined ==
  ASSUME NEW S, NEW a \in Seq(S), NEW b \in Seq(S)
  PROVE  /\ a \o b \in Seq(S) /\ Len(a \o b) = Len(a) + Len(b)
         /\ \A i \in 1 .. Len(a) + Len(b) : (a \o b)[i] = IF i <= Len(a) THEN a[i] ELSE b[i - Len(a)]
OBVIOUS

LEMMA Removing ==
  ASSUME NEW S, NEW s \in Seq(S), NEW h
  PROVE  /\ RemoveFirst(s, h) \in Seq(S)
         /\ ToSet(s) \ {h} \subseteq ToSet(RemoveFirst(s, h)) /\ ToSet(RemoveFirst(s, h)) \subseteq ToSet(s)
<1> DEFINE I == {i \in 1 .. Len(s) : s[i] = h}
<1>1. CASE I = {}
  <2>1. ~(\E i \in 1 .. Len(s) : s[i] = h)
    BY <1>1
  <2> QED
    BY <2>1 DEF RemoveFirst
<1>2. CASE I # {}
  <2>1. PICK k \in I : \A i \in I : k <= i
    <3>1. I \subseteq Nat
      OBVIOUS
    <3> HIDE DEF I
    <3> QED
      BY <1>2, <3>1, First
  <2>2. k \in 1 .. Len(s) /\ s[k] = h /\ Len(s) \in Nat
    BY <2>1
  <2>3. SelectInSeq(s, LAMBDA v : v = h) = k
    <3>1. SelectInSeq(s, LAMBDA v : v = h) = IF I # {} THEN CHOOSE x \in I : \A y \in I : x <= y ELSE 0
      BY DEF SelectInSeq, Min
    <3>2. \A x \in I : (\A y \in I : x <= y) => x = k
      BY <2>1, <2>2
    <3> HIDE DEF I
    <3> QED
      BY <1>2, <2>1, <3>1, <3>2
  <2>4. RemoveFirst(s, h) = SubSeq(s, 1, k - 1) \o SubSeq(s, k + 1, Len(s))
    BY <2>2, <2>3 DEF RemoveFirst, RemoveAt
  <2>5. PICK a, b : a = SubSeq(s, 1, k - 1) /\ b = SubSeq(s, k + 1, Len(s))
    OBVIOUS
  <2>6. /\ a \in Seq(S) /\ Len(a) = k - 1 /\ \A i \in 1 .. (k - 1) : a[i] = s[i]
        /\ b \in Seq(S) /\ Len(b) = Len(s) - k /\ \A i \in 1 .. (Len(s) - k) : b[i] = s[i + k]
    BY <2>2, <2>5
  <2>7. PICK t : t = a \o b
    OBVIOUS
  <2>8. /\ t \in Seq(S) /\ Len(t) = Len(s) - 1
        /\ \A i \in 1 .. Len(t) : t[i] = IF i < k THEN s[i] ELSE s[i + 1]
    <3>1. /\ t \in Seq(S) /\ Len(t) = Len(a) + Len(b)
          /\ \A i \in 1 .. Len(t) : t[i] = IF i <= Len(a) THEN a[i] ELSE b[i - Len(a)]
      <4>1. a \in Seq(S) /\ b \in Seq(S)
        BY <2>6
      <4> QED
        BY <2>7, <4>1, Joined
    <3>2. Len(t) = Len(s) - 1
      BY <2>2, <2>6, <3>1
    <3>3. ASSUME NEW i \in 1 .. Len(t) PROVE t[i] = IF i < k THEN s[i] ELSE s[i + 1]
      <4>1. CASE i < k
        BY <2>2, <2>6, <3>1, <3>2, <3>3, <4>1
      <4>2. CASE ~(i < k)
        <5>1. i - Len(a) \in 1 .. (Len(s) - k) /\ i - Len(a) + k = i + 1
          BY <2>2, <2>6, <3>2, <3>3, <4>2
        <5>2. t[i] = b[i - Len(a)]
          BY <2>2, <2>6, <3>1, <3>3, <4>2
        <5> QED
          BY <2>6, <4>2, <5>1, <5>2
      <4> QED
        BY <4>1, <4>2
    <3> QED
      BY <3>1, <3>2, <3>3
  <2>9. DOMAIN s = 1 .. Len(s) /\ DOMAIN t = 1 .. Len(t)
    BY <2>8
  <2>10. ToSet(s) \ {h} \subseteq ToSet(t)
    <3> SUFFICES ASSUME NEW i \in DOMAIN s, s[i] # h PROVE \E j \in DOMAIN t : t[j] = s[i]
      BY DEF ToSet
    <3>1. CASE i < k
      <4>1. i \in DOMAIN t /\ t[i] = s[i]
        BY <2>2, <2>8, <2>9, <3>1
      <4> QED
        BY <4>1
    <3>2. CASE i > k
      <4>1. i - 1 \in DOMAIN t /\ t[i - 1] = s[i]
        BY <2>2, <2>8, <2>9, <3>2
      <4> QED
        BY <4>1
    <3> QED
      BY <2>2, <2>9, <3>1, <3>2
  <2>11. ToSet(t) \subseteq ToSet(s)
    <3> SUFFICES ASSUME NEW j \in DOMAIN t PROVE \E i \in DOMAIN s : t[j] = s[i]
      BY DEF ToSet
    <3> QED
      BY <2>2, <2>8, <2>9
  <2> QED
    BY <2>4, <2>5, <2>7, <2>8, <2>10, <2>11
<1> QED
  BY <1>1, <1>2

LEMMA RegisterStep ==
  ASSUME StoreInv, NEW h \in Handlers, Register(h)
  PROVE  StoreInv'
<1>1. /\ StoreType /\ MarkedInv /\ OwedInv
      /\ registered' = Append(registered, h) /\ spent' = spent \cup {h}
      /\ UNCHANGED <<value, up, stack, seen, owed>>
  BY DEF StoreInv, Register, history
<1>2. registered \in Seq(Handlers)
  BY <1>1 DEF StoreType
<1>3. PICK t : t = registered'
  OBVIOUS
<1>4. /\ t \in Seq(Handlers) /\ Len(t) = Len(registered) + 1 /\ t[Len(t)] = h
      /\ \A i \in 1 .. Len(registered) : t[i] = registered[i]
  BY <1>1, <1>2, <1>3
<1>5. DOMAIN t = 1 .. Len(t) /\ DOMAIN registered = 1 .. Len(registered) /\ Len(registered) \in Nat
  BY <1>2, <1>4
<1>6. ToSet(t) \subseteq ToSet(registered) \cup {h} /\ ToSet(registered) \subseteq ToSet(t)
  BY <1>4, <1>5 DEF ToSet
<1>7. StoreType'
  BY <1>1, <1>3, <1>4, <1>6 DEF StoreType
<1>8. MarkedInv'
  BY <1>1, QuietMarked
<1>9. OwedInv'
  <2>1. \A e \in owed' : e \in owed /\ e[1] \in ToSet(registered')
    BY <1>1, <1>3, <1>6 DEF OwedInv
  <2>2. \A x \in Objects, p \in Props \ Inherits : GetValue(value, up', x, p) = Effective(x, p)
    BY <1>1 DEF Effective
  <2> QED
    BY <1>1, <2>1, <2>2, QuietOwed
<1> QED
  BY <1>7, <1>8, <1>9 DEF StoreInv

LEMMA UnregisterStep ==
  ASSUME StoreInv, NEW h \in Handlers, Unregister(h)
  PROVE  StoreInv'
<1>1. /\ StoreType /\ MarkedInv /\ OwedInv
      /\ registered' = RemoveFirst(registered, h) /\ owed' = {e \in owed : e[1] # h}
      /\ UNCHANGED <<value, up, spent, stack, seen>>
  BY DEF StoreInv, Unregister, Forget
<1>2. /\ registered' \in Seq(Handlers)
      /\ ToSet(registered) \ {h} \subseteq ToSet(registered') /\ ToSet(registered') \subseteq ToSet(registered)
  BY <1>1, Removing DEF StoreType
<1>3. StoreType'
  BY <1>1, <1>2 DEF StoreType
<1>4. MarkedInv'
  BY <1>1, QuietMarked
<1>5. OwedInv'
  <2>1. \A e \in owed' : e \in owed /\ e[1] \in ToSet(registered')
    BY <1>1, <1>2 DEF OwedInv
  <2>2. \A x \in Objects, p \in Props \ Inherits : GetValue(value, up', x, p) = Effective(x, p)
    BY <1>1 DEF Effective
  <2> QED
    BY <1>1, <2>1, <2>2, QuietOwed
<1> QED
  BY <1>3, <1>4, <1>5 DEF StoreInv

-----------------------------------------------------------------------------
LEMMA StoreStarts ==
  Init => StoreInv
<1> SUFFICES ASSUME Init PROVE StoreInv
  OBVIOUS
<1>1. Tree(up)
  BY SizeAssumption DEF Init, Tree, Objects, NoParent
<1>2. Slotted(value)
  BY DEF Init, Slotted, MaybeValues
<1>3. ToSet(<<>>) = {}
  BY DEF ToSet
<1>4. StoreType
  BY <1>1, <1>2, <1>3, SlotAssumption DEF Init, StoreType, MaybeValues
<1>5. ASSUME NEW x \in Objects, NEW p \in Props PROVE seen[x][p] = Effective(x, p)
  <2> DEFINE Odd == {y \in Objects : GetValue(value, up, y, p) # Default}
  <2>1. Odd = {}
    <3>1. ASSUME NEW y \in Objects PROVE GetValue(value, up, y, p) = Default
      <4>1. OwnValue(value, y, p) = Unset /\ up[y] = 0
        BY DEF Init, OwnValue, Kept, NoParent
      <4> QED
        BY <1>1, <4>1, Reading
    <3> QED
      BY <3>1
  <2> QED
    BY <2>1 DEF Init, Effective
<1>6. MarkedInv
  BY <1>5 DEF MarkedInv
<1>7. OwedInv
  BY DEF Init, OwedInv
<1> QED
  BY <1>4, <1>6, <1>7 DEF StoreInv

LEMMA StoreStep ==
  StoreInv /\ [Next]_vars => StoreInv'
<1> SUFFICES ASSUME StoreInv, [Next]_vars PROVE StoreInv'
  OBVIOUS
<1>1. ASSUME NEW c \in Cells, NEW v \in Values, Set(c, v) PROVE StoreInv'
  BY <1>1, SetStep
<1>2. ASSUME NEW c \in Cells, Clear(c) PROVE StoreInv'
  BY <1>2, ClearStep
<1>3. ASSUME NEW o \in Objects, NEW i \in DOMAIN Slots, ClearAll(o, Slots[i]) PROVE StoreInv'
  BY <1>3, ClearAllStep
<1>4. ASSUME NEW o \in Objects, NEW i \in DOMAIN Slots, NEW v \in Values, ApplyStyle(o, Slots[i], v)
      PROVE  StoreInv'
  BY <1>4, ApplyStyleStep
<1>5. ASSUME NEW o \in Objects, NEW q \in 0 .. NObjects, SetInheritanceParent(o, q) PROVE StoreInv'
  BY <1>5, ParentStep
<1>6. ASSUME NEW h \in Handlers, Register(h) \/ Unregister(h) PROVE StoreInv'
  BY <1>6, RegisterStep, UnregisterStep
<1>7. CASE NextSetter
  BY <1>7, NextSetterStep
<1>8. CASE Announce
  BY <1>8, AnnounceMarked, AnnounceOwed DEF StoreInv
<1>9. CASE Return
  BY <1>9, ReturnStep
<1>10. CASE Throw
  BY <1>10, ThrowStep
<1>11. CASE UNCHANGED vars
  <2>1. UNCHANGED <<value, up, registered, spent, stack, seen, owed>>
    BY <1>11 DEF vars
  <2>2. StoreType' /\ MarkedInv'
    BY <2>1, QuietMarked DEF StoreInv, StoreType
  <2>3. OwedInv'
    <3>1. \A e \in owed' : e \in owed /\ e[1] \in ToSet(registered')
      BY <2>1 DEF StoreInv, OwedInv
    <3>2. \A x \in Objects, p \in Props \ Inherits : GetValue(value, up', x, p) = Effective(x, p)
      BY <2>1 DEF Effective
    <3> QED
      BY <2>1, <3>1, <3>2, QuietOwed DEF StoreInv
  <2> QED
    BY <2>2, <2>3 DEF StoreInv
<1> QED
  BY <1>1, <1>2, <1>3, <1>4, <1>5, <1>6, <1>7, <1>8, <1>9, <1>10, <1>11 DEF Next, Operations

LEMMA StoreAlways == Spec => []StoreInv
BY StoreStarts, StoreStep, PTL DEF Spec

LEMMA StorePromises ==
  ASSUME StoreInv
  PROVE  TypeOK /\ MarkedWhenMoved /\ AllTold
<1>1. stack = <<>> => ToSet(stack) = {}
  BY DEF ToSet
<1>2. MarkedWhenMoved
  BY <1>1 DEF StoreInv, MarkedInv, MarkedWhenMoved
<1>3. AllTold
  BY <1>1 DEF StoreInv, OwedInv, AllTold
<1> QED
  BY <1>2, <1>3, TypeParts DEF StoreInv

(* When the outermost call returns, OnPropertyChanged has run on every     *)
(* object since its effective value last moved, however slots, styles and  *)
(* parents moved it and the calls nested; only where an observer changed   *)
(* the object, or threw, before it could run may the element be unmarked.  *)
THEOREM MarkedCorrect == Spec => []MarkedWhenMoved
BY StoreAlways, StorePromises, PTL

(* The observer told next is a registered one.                             *)
LEMMA OnlyRegisteredStep ==
  ASSUME StoreInv, [Next]_vars, stack # <<>>, Head(stack).kind = "telling",
         Len(stack') = Len(stack), Head(stack').who # Head(stack).who
  PROVE  Head(stack').who \in ToSet(registered)
<1> USE DEF StoreInv
<1>1. StoreType /\ stack \in Seq(Frames)
  BY DEF StoreType
<1>2. ASSUME NEW g, stack' = <<g>> \o stack PROVE FALSE
  <2>1. Len(stack') = Len(stack) + 1 /\ Len(stack) \in Nat
    BY <1>1, <1>2
  <2> QED
    BY <2>1
<1>3. ASSUME NEW val, NEW o, NEW list, Write(val, o, list, stack) PROVE FALSE
  <2>1. CASE list = <<>>
    <3>1. stack' = <<>> \o stack
      BY <1>3, <2>1 DEF Write
    <3>2. stack' = stack
      BY <1>1, <3>1
    <3> QED
      BY <3>2
  <2>2. CASE list # <<>>
    BY <1>2, <1>3, <2>2 DEF Write
  <2> QED
    BY <2>1, <2>2
<1>4. CASE Operations
  <2>1. \A c \in Cells, v \in Values : ~Set(c, v)
    BY <1>3 DEF Set, SetSlot
  <2>2. \A c \in Cells : ~Clear(c)
    BY <1>3 DEF Clear, ClearSlot
  <2>3. \A o \in Objects, i \in DOMAIN Slots : ~ClearAll(o, Slots[i])
    BY <1>3 DEF ClearAll
  <2>4. \A o \in Objects, i \in DOMAIN Slots, v \in Values : ~ApplyStyle(o, Slots[i], v)
    BY <1>2 DEF ApplyStyle
  <2>5. \A o \in Objects, q \in 0 .. NObjects : ~SetInheritanceParent(o, q)
    BY DEF SetInheritanceParent
  <2>6. \A h \in Handlers : ~Register(h) /\ ~Unregister(h)
    BY DEF Register, Unregister, Forget
  <2> QED
    BY <1>4, <2>1, <2>2, <2>3, <2>4, <2>5, <2>6 DEF Operations
<1>5. ~NextSetter /\ ~Announce
  BY DEF NextSetter, Announce
<1>6. ~Throw
  <2>1. Len(stack) # 0
    BY <1>1, Popped
  <2> QED
    BY <2>1 DEF Throw
<1>7. CASE Return
  <2>1. PICK f, n, ts : f = Head(stack) /\ n = NextObserver(f) /\ ts = Tail(stack)
    OBVIOUS
  <2>2. f \in Frames /\ ts \in Seq(Frames) /\ Len(ts) = Len(stack) - 1 /\ Len(stack) \in Nat
    BY <1>1, <2>1, Popped
  <2>3. CASE n.who # NoObserver
    <3>1. PICK g : g = Handing(f, n)
      OBVIOUS
    <3>2. stack' = <<g>> \o ts
      BY <1>7, <2>1, <2>3, <3>1 DEF Return, Handing
    <3>3. Head(stack') = g
      BY <2>2, <3>2
    <3>4. n.who \in ToSet(registered)
      BY <1>1, <2>1, <2>2, <2>3, Following
    <3>5. g.who = n.who
      BY <2>2, <3>1 DEF Handing, Frames
    <3> QED
      BY <3>3, <3>4, <3>5
  <2>4. CASE n.who = NoObserver
    <3>1. stack' = ts
      BY <1>7, <2>1, <2>4 DEF Return
    <3> QED
      BY <2>2, <3>1
  <2> QED
    BY <2>3, <2>4
<1>8. CASE UNCHANGED vars
  BY <1>8 DEF vars
<1> QED
  BY <1>4, <1>5, <1>6, <1>7, <1>8 DEF Next

(* A handler that was registered when a property of its own moved hears,   *)
(* before the outermost call returns, of the value the property then has,  *)
(* though handlers before it set it again, add and remove others; and the  *)
(* snapshots of the handler maps run none that was removed.                *)
THEOREM ToldCorrect == Spec => ObserversTold
<1>1. StoreInv => TypeOK /\ AllTold
  BY StorePromises
<1>2. StoreInv /\ [Next]_vars =>
        [/\ stack # <<>> /\ Head(stack).kind = "telling"
         /\ Len(stack') = Len(stack) /\ Head(stack').who # Head(stack).who
         => Head(stack').who \in ToSet(registered)]_vars
  BY OnlyRegisteredStep
<1>3. Spec => []StoreInv
  BY StoreAlways
<1>4. Spec => [](TypeOK /\ AllTold)
  BY <1>1, <1>3, PTL
<1>5. Spec => OnlyRegisteredTold
  BY <1>2, <1>3, PTL DEF Spec, OnlyRegisteredTold
<1> QED
  BY <1>4, <1>5 DEF ObserversTold

-----------------------------------------------------------------------------
(***************************************************************************)
(* Two clients of the property store.  A binding, for any tree, slots,     *)
(* values and user handlers nested to any depth: transfers do not nest,    *)
(* and at rest the two sides of a TwoWay binding agree unless a change was *)
(* dropped.  The visual states, for any groups, states and lines, and      *)
(* changes of state nested to any depth: at rest a group animates what its *)
(* state does, unless it changed state inside a change.                    *)
(***************************************************************************)

-----------------------------------------------------------------------------
(* The binding.  What may be on the stack: nothing is inherited, because   *)
(* no object has a parent, and the only handler of the target is the       *)
(* expression's.                                                           *)
Listening == {"expression", Listener}
OneChange == {<<m>> : m \in Changes}
BFrames ==
    [kind : {"moved"}, obj : {Target[1]}, list : OneChange]
    \cup [kind : {"telling"}, obj : {Target[1]}, prop : Props, before : MaybeValues, after : MaybeValues,
          who : {Metadata, TargetHandler, NoObserver}, phase : {Whole}, rest : {{}}]
    \cup [kind : {"source"}, who : Listening, rest : SUBSET Listening]
    \cup {Transfer, Constructing, Made}

Alone == [o \in Objects |-> NoParent]
BType ==
    /\ Slotted(value) /\ up = Alone
    /\ source \in MaybeValues /\ fallback \in MaybeValues
    /\ listeners \in Seq(Listening) /\ mode \in Modes \cup {"none"}
    /\ registered \in Seq({TargetHandler})
    /\ attached \in BOOLEAN /\ updating \in BOOLEAN /\ dropped \in BOOLEAN
    /\ mode = "none" => registered = <<>> /\ "expression" \notin ToSet(listeners) /\ ~attached
    /\ attached => /\ "expression" \in ToSet(listeners) <=> mode \in {"OneWay", "TwoWay"}
                   /\ TargetHandler \in ToSet(registered) <=> mode \in {"TwoWay", "OneWayToSource"}

(* At most one transfer is on the stack, and the constructor starts alone. *)
Once(s) == \A i, j \in DOMAIN s : s[i].kind = "transfer" /\ s[j].kind = "transfer" => i = j
Carries(s) == \E f \in ToSet(s) : f.kind = "transfer"
Calls(s, u) ==
    /\ s \in Seq(BFrames) /\ Once(s) /\ (u <=> Carries(s))
    /\ Constructing \in ToSet(s) => s = <<Constructing>>

(* The frames that will still transfer, if none is in progress: one that   *)
(* has to announce the target's property, or to come to a handler of the   *)
(* expression.                                                             *)
Promises(f) ==
    \/ f.kind = "moved" /\ \E m \in ToSet(f.list) : m.prop = Target[2] /\ m.before # TargetValue
    \/ f.kind = "telling" /\ f.prop = Target[2] /\ f.who \in {Metadata, TargetHandler}
    \/ f.kind = "source" /\ "expression" \in {f.who} \cup f.rest

SourceValue == IF source = Unset THEN fallback ELSE source
Agree == TargetValue = SourceValue
Agreeing ==
    attached /\ mode = "TwoWay" /\ ~dropped =>
        \/ Agree \/ stack = <<Constructing>>
        \/ ~updating /\ \E f \in ToSet(stack) : Promises(f)

BindingInv == BType /\ Calls(stack, updating) /\ Agreeing

-----------------------------------------------------------------------------
(* The kinds of frames.                                                    *)
LEMMA MadeIsOther == Made # Constructing
<1>1. "made" \in DOMAIN Made /\ "made" \notin DOMAIN Constructing
  BY DEF Made, Constructing
<1> QED
  BY <1>1

LEMMA FrameKinds ==
  ASSUME NEW f \in BFrames
  PROVE  /\ f.kind \in {"moved", "telling", "source", "transfer", "constructing"}
         /\ f.kind = "moved" => f.obj = Target[1] /\ \E m \in Changes : f.list = <<m>>
         /\ f.kind = "telling" => /\ f.obj = Target[1] /\ f.prop \in Props /\ f.phase = Whole /\ f.rest = {}
                                  /\ f.before \in MaybeValues /\ f.after \in MaybeValues
                                  /\ f.who \in {Metadata, TargetHandler, NoObserver}
         /\ f.kind = "source" => f.who \in Listening /\ f.rest \in SUBSET Listening
         /\ f.kind = "transfer" => f = Transfer
         /\ f.kind = "constructing" => f \in {Constructing, Made}
BY DEF BFrames, OneChange, Transfer, Constructing, Made

LEMMA FramesMade ==
  /\ Transfer \in BFrames /\ Constructing \in BFrames /\ Made \in BFrames
  /\ Transfer.kind = "transfer" /\ Constructing.kind = "constructing" /\ Made.kind = "constructing"
  /\ \A m \in Changes : /\ Moved(Target[1], <<m>>) \in BFrames
                        /\ Moved(Target[1], <<m>>).kind = "moved" /\ Moved(Target[1], <<m>>).list = <<m>>
  /\ \A p \in Props, b, a \in MaybeValues, w \in {Metadata, TargetHandler, NoObserver} :
        Telling(Target[1], p, b, a, w, Whole, {}) \in BFrames
  /\ \A w \in Listening, r \in SUBSET Listening : Notifying(w, r) \in BFrames
BY DEF BFrames, OneChange, Transfer, Constructing, Made, Moved, Telling, Notifying

(* Pushing and popping.                                                    *)
LEMMA PushOnce ==
  ASSUME NEW s \in Seq(BFrames), Once(s), NEW e \in BFrames, e.kind = "transfer" => ~Carries(s)
  PROVE  Once(<<e>> \o s) /\ (Carries(<<e>> \o s) <=> e.kind = "transfer" \/ Carries(s))
<1>1. PICK t : t = <<e>> \o s
  OBVIOUS
<1>2. /\ Len(s) \in Nat /\ DOMAIN s = 1 .. Len(s) /\ DOMAIN t = 1 .. Len(s) + 1
      /\ t[1] = e /\ \A i \in 1 .. Len(s) : t[i + 1] = s[i]
  BY <1>1
<1>3. \A i \in DOMAIN t : i = 1 \/ (i - 1 \in DOMAIN s /\ t[i] = s[i - 1])
  BY <1>2
<1>4. ToSet(t) = {e} \cup ToSet(s)
  BY <1>1, PushMember
<1>5. Carries(t) <=> e.kind = "transfer" \/ Carries(s)
  BY <1>4 DEF Carries
<1>6. Once(t)
  <2> SUFFICES ASSUME NEW i \in DOMAIN t, NEW j \in DOMAIN t, t[i].kind = "transfer", t[j].kind = "transfer"
               PROVE  i = j
    BY DEF Once
  <2>1. ASSUME NEW k \in DOMAIN t, k # 1, t[k].kind = "transfer" PROVE Carries(s) /\ e.kind # "transfer"
    <3>1. k - 1 \in DOMAIN s /\ s[k - 1].kind = "transfer"
      BY <1>3, <2>1
    <3> QED
      BY <3>1 DEF Carries, ToSet
  <2>2. CASE i = 1 \/ j = 1
    BY <1>2, <2>1, <2>2
  <2>3. CASE i # 1 /\ j # 1
    <3>1. i - 1 \in DOMAIN s /\ s[i - 1].kind = "transfer" /\ j - 1 \in DOMAIN s /\ s[j - 1].kind = "transfer"
      BY <1>3, <2>3
    <3>2. i - 1 = j - 1
      BY <3>1 DEF Once
    <3> QED
      BY <1>2, <3>2
  <2> QED
    BY <2>2, <2>3
<1> QED
  BY <1>1, <1>5, <1>6

LEMMA PopOnce ==
  ASSUME NEW s \in Seq(BFrames), s # <<>>, Once(s)
  PROVE  /\ Once(Tail(s))
         /\ Head(s).kind = "transfer" => ~Carries(Tail(s))
         /\ Head(s).kind # "transfer" => (Carries(Tail(s)) <=> Carries(s))
<1>1. PICK t, e : t = Tail(s) /\ e = Head(s)
  OBVIOUS
<1>2. /\ Len(t) \in Nat /\ DOMAIN t = 1 .. Len(t) /\ DOMAIN s = 1 .. Len(t) + 1
      /\ s[1] = e /\ \A i \in 1 .. Len(t) : t[i] = s[i + 1]
  BY <1>1
<1>3. \A i \in DOMAIN t : i + 1 \in DOMAIN s /\ t[i] = s[i + 1] /\ i + 1 # 1
  BY <1>2
<1>4. ToSet(s) = {e} \cup ToSet(t)
  BY <1>1, PopMember
<1>5. Once(t)
  <2> SUFFICES ASSUME NEW i \in DOMAIN t, NEW j \in DOMAIN t, t[i].kind = "transfer", t[j].kind = "transfer"
               PROVE  i = j
    BY DEF Once
  <2>1. i + 1 = j + 1
    BY <1>3 DEF Once
  <2> QED
    BY <1>2, <2>1
<1>6. ASSUME e.kind = "transfer", Carries(t) PROVE FALSE
  <2>1. PICK i \in DOMAIN t : t[i].kind = "transfer"
    BY <1>6 DEF Carries, ToSet
  <2>2. 1 \in DOMAIN s /\ i + 1 \in DOMAIN s /\ s[i + 1].kind = "transfer" /\ i + 1 # 1
    BY <1>2, <1>3, <2>1
  <2> QED
    BY <1>2, <1>6, <2>2 DEF Once
<1>7. e.kind # "transfer" => (Carries(t) <=> Carries(s))
  BY <1>4 DEF Carries
<1> QED
  BY <1>1, <1>5, <1>6, <1>7

LEMMA CallsPush ==
  ASSUME NEW s, NEW u \in BOOLEAN, Calls(s, u), Constructing \notin ToSet(s),
         NEW e \in BFrames, e # Constructing, e.kind = "transfer" => ~u
  PROVE  /\ Calls(<<e>> \o s, e.kind = "transfer" \/ u)
         /\ ToSet(<<e>> \o s) = {e} \cup ToSet(s) /\ Constructing \notin ToSet(<<e>> \o s)
<1>1. s \in Seq(BFrames) /\ Once(s) /\ (u <=> Carries(s))
  BY DEF Calls
<1>2. <<e>> \o s \in Seq(BFrames) /\ ToSet(<<e>> \o s) = {e} \cup ToSet(s)
  BY <1>1, PushMember
<1>3. Once(<<e>> \o s) /\ (Carries(<<e>> \o s) <=> e.kind = "transfer" \/ Carries(s))
  BY <1>1, PushOnce
<1> QED
  BY <1>1, <1>2, <1>3 DEF Calls

LEMMA CallsPop ==
  ASSUME NEW s, NEW u \in BOOLEAN, Calls(s, u), s # <<>>
  PROVE  /\ Head(s) \in BFrames /\ ToSet(s) = {Head(s)} \cup ToSet(Tail(s))
         /\ Calls(Tail(s), u /\ Head(s).kind # "transfer")
         /\ Constructing \notin ToSet(Tail(s))
         /\ Head(s).kind = "transfer" => u
<1>1. s \in Seq(BFrames) /\ Once(s) /\ (u <=> Carries(s)) /\ (Constructing \in ToSet(s) => s = <<Constructing>>)
  BY DEF Calls
<1>2. PICK t, f : t = Tail(s) /\ f = Head(s)
  OBVIOUS
<1>3. t \in Seq(BFrames) /\ f \in BFrames /\ ToSet(s) = {f} \cup ToSet(t)
  BY <1>1, <1>2, PopMember
<1>4. Once(t) /\ (f.kind = "transfer" => ~Carries(t)) /\ (f.kind # "transfer" => (Carries(t) <=> Carries(s)))
  BY <1>1, <1>2, PopOnce
<1>5. Constructing \notin ToSet(t)
  <2>1. CASE Constructing \in ToSet(s)
    <3>1. t = <<>>
      BY <1>1, <1>2, <2>1
    <3> QED
      BY <3>1 DEF ToSet
  <2>2. CASE Constructing \notin ToSet(s)
    BY <1>3, <2>2
  <2> QED
    BY <2>1, <2>2
<1>6. f.kind = "transfer" => Carries(s)
  BY <1>3 DEF Carries
<1>7. Calls(t, u /\ f.kind # "transfer")
  BY <1>1, <1>3, <1>4, <1>5 DEF Calls
<1> QED
  BY <1>1, <1>2, <1>3, <1>5, <1>6, <1>7

LEMMA CallsNone == Calls(<<>>, FALSE)
BY DEF Calls, Once, Carries, ToSet

-----------------------------------------------------------------------------
(* The target's value.  An object without a parent reads its own value, or *)
(* the default.                                                            *)
LEMMA TargetParts ==
  /\ Target \in Cells /\ Target[1] \in Objects /\ Target[2] \in Props
  /\ TargetHandler \in Handlers /\ TargetHandler.at = Target[1] /\ TargetHandler.of = Whole
  /\ Whole # Target[2] /\ Whole \notin Props /\ TargetHandler # Metadata /\ TargetHandler # NoObserver
<1>1. Target \in Cells /\ Target[1] \in Objects /\ Target[2] \in Props
  BY BindingAssumption, CellParts
<1>2. TargetHandler \in Handlers /\ TargetHandler.at = Target[1] /\ TargetHandler.of = Whole
  BY BindingAssumption, SlotAssumption
<1>3. Metadata.at = 0 /\ NoObserver.at = 0 /\ Target[1] # 0
  BY <1>1 DEF Metadata, NoObserver, Objects
<1> QED
  BY <1>1, <1>2, <1>3, SlotAssumption

LEMMA AloneIsTree == Tree(Alone)
BY SizeAssumption DEF Tree, Alone, Objects, NoParent

LEMMA TargetReads ==
  ASSUME BType
  PROVE  /\ Tree(up) /\ \A p : Effective(Target[1], p) \in Values
         /\ TargetValue \in Values /\ Unset \notin Values /\ Default \in Values
<1>1. Tree(up) /\ Slotted(value)
  BY AloneIsTree DEF BType
<1>2. \A p : Effective(Target[1], p) \in Values
  BY <1>1, TargetParts, ReadTyped DEF Effective
<1> QED
  BY <1>1, <1>2, SlotAssumption DEF TargetValue

LEMMA OneAnnounced ==
  ASSUME NEW o, NEW p
  PROVE  ToAnnounce(o, {p}) = <<[prop |-> p, before |-> Effective(o, p)]>>
<1> DEFINE x == [prop |-> p, before |-> Effective(o, p)]
<1>1. {[prop |-> q, before |-> Effective(o, q)] : q \in {p}} = {x}
  OBVIOUS
<1> HIDE DEF x
<1>2. Cardinality({x}) = 1
  BY FS_Singleton
<1>3. [i \in 1 .. 1 |-> x] \in [1 .. 1 -> {x}] /\ IsInjective([i \in 1 .. 1 |-> x])
  BY DEF IsInjective
<1>4. SetToSeq({x}) \in [1 .. 1 -> {x}]
  BY <1>2, <1>3 DEF SetToSeq
<1>5. SetToSeq({x}) = <<x>>
  BY <1>4
<1> QED
  BY <1>1, <1>5 DEF ToAnnounce, x

(* A write of the target: the frame it pushes announces what it moved.     *)
TargetMoves(rest) ==
    \E m \in Changes :
        /\ stack' = <<Moved(Target[1], <<m>>)>> \o rest
        /\ up' = up /\ registered' = registered /\ Slotted(value')
        /\ TargetValue' # TargetValue => m.prop = Target[2] /\ m.before # TargetValue'

LEMMA Elsewise ==
  ASSUME BType, NEW c \in Cells, c[1] = Target[1], Slotted(value'), up' = up,
         \A d \in Cells : value'[d] # value[d] => d = c, c[2] # Target[2]
  PROVE  TargetValue' = TargetValue
<1>1. \A y \in Objects : OwnValue(value', y, Target[2]) = OwnValue(value, y, Target[2])
  BY OwnDepends
<1>2. GetValue(value', up, Target[1], Target[2]) = GetValue(value, up, Target[1], Target[2])
  BY <1>1, TargetParts, TargetReads, NoneMove
<1> QED
  BY <1>2 DEF TargetValue, Effective

LEMMA SetMoves ==
  ASSUME BType, NEW c \in Cells, c[1] = Target[1], NEW v \in Values, NEW rest, SetSlot(c, v, rest)
  PROVE  TargetMoves(rest) /\ value' = [value EXCEPT ![c] = v]
<1> DEFINE m == [prop |-> c[2], before |-> Effective(c[1], c[2])]
<1>1. m \in Changes /\ <<m>> # <<>>
  BY TargetReads, CellParts DEF Changes, MaybeValues
<1>2. /\ value' = [value EXCEPT ![c] = v] /\ up' = up /\ registered' = registered
      /\ stack' = (IF <<m>> = <<>> THEN <<>> ELSE <<Moved(c[1], <<m>>)>>) \o rest
  BY OneAnnounced DEF SetSlot, Write
<1>3. stack' = <<Moved(Target[1], <<m>>)>> \o rest
  BY <1>1, <1>2
<1>4. Slotted(value') /\ \A d \in Cells : value'[d] # value[d] => d = c
  BY <1>2 DEF BType, Slotted, MaybeValues
<1>5. TargetValue' # TargetValue => m.prop = Target[2] /\ m.before # TargetValue'
  <2>1. CASE c[2] = Target[2]
    BY <2>1 DEF TargetValue
  <2>2. CASE c[2] # Target[2]
    BY <1>2, <1>4, <2>2, Elsewise
  <2> QED
    BY <2>1, <2>2
<1> HIDE DEF m
<1> QED
  BY <1>1, <1>2, <1>3, <1>4, <1>5 DEF TargetMoves

LEMMA ClearMoves ==
  ASSUME BType, NEW c \in Cells, c[1] = Target[1], value[c] # Unset, NEW rest, ClearSlot(c, rest)
  PROVE  TargetMoves(rest)
<1> DEFINE m == [prop |-> c[2], before |-> value[c]]
<1>1. m \in Changes /\ <<m>> # <<>>
  BY CellParts DEF Changes, BType, Slotted
<1>2. /\ value' = Cleared(c) /\ up' = up /\ registered' = registered
      /\ stack' = (IF <<m>> = <<>> THEN <<>> ELSE <<Moved(c[1], <<m>>)>>) \o rest
  BY DEF ClearSlot, Write
<1>3. stack' = <<Moved(Target[1], <<m>>)>> \o rest
  BY <1>1, <1>2
<1>4. Slotted(value') /\ \A d \in Cells : value'[d] # value[d] => d = c
  BY <1>2 DEF BType, Slotted, MaybeValues, Cleared
<1>5. TargetValue' # TargetValue => m.prop = Target[2] /\ m.before # TargetValue'
  <2>1. CASE c[2] = Target[2]
    <3>1. value[c] = Effective(c[1], c[2]) \/ GetValue(Cleared(c), up, c[1], c[2]) = Effective(c[1], c[2])
      BY TargetReads, ClearedReads DEF BType
    <3> QED
      BY <1>2, <2>1, <3>1 DEF TargetValue, Effective
  <2>2. CASE c[2] # Target[2]
    BY <1>2, <1>4, <2>2, Elsewise
  <2> QED
    BY <2>1, <2>2
<1> HIDE DEF m
<1> QED
  BY <1>1, <1>2, <1>3, <1>4, <1>5 DEF TargetMoves

(* What a notification starts with: one of the handlers it is for.         *)
LEMMA Tells ==
  ASSUME listeners \in Seq(Listening), NEW hs, hs \subseteq ToSet(listeners)
  PROVE  \/ hs = {} /\ Tell(hs) = <<>>
         \/ \E w \in hs : Tell(hs) = <<Notifying(w, hs \ {w})>>
<1>1. CASE hs = {}
  BY <1>1 DEF Tell
<1>2. CASE hs # {}
  <2> DEFINE I == {i \in DOMAIN listeners : listeners[i] \in hs}
  <2>1. DOMAIN listeners = 1 .. Len(listeners) /\ Len(listeners) \in Nat
    OBVIOUS
  <2>2. I \subseteq Nat /\ I # {}
    BY <1>2, <2>1 DEF ToSet
  <2>3. PICK k \in I : \A i \in I : k <= i
    <3> HIDE DEF I
    <3> QED
      BY <2>2, First
  <2>4. listeners[k] \in hs /\ k \in 1 .. Len(listeners)
    BY <2>1, <2>3
  <2>5. ASSUME NEW g \in hs \ {listeners[k]}, NEW j \in 1 .. k PROVE listeners[j] # g
    <3>1. j \in DOMAIN listeners
      BY <2>1, <2>4
    <3>2. j < k => j \notin I
      BY <2>3, <2>4
    <3> QED
      BY <2>4, <2>5, <3>1, <3>2
  <2>6. \E h \in hs : \A g \in hs \ {h} :
           \E i \in DOMAIN listeners : listeners[i] = h /\ \A j \in 1 .. i : listeners[j] # g
    BY <2>1, <2>4, <2>5
  <2>7. Foremost(hs) \in hs
    BY <2>6 DEF Foremost
  <2> QED
    BY <1>2, <2>7 DEF Tell
<1> QED
  BY <1>1, <1>2

-----------------------------------------------------------------------------
(* The transfers.                                                          *)
LEMMA MovedPushed ==
  ASSUME NEW rest, NEW u \in BOOLEAN, Calls(rest, u), Constructing \notin ToSet(rest), TargetMoves(rest)
  PROVE  /\ Calls(stack', u) /\ ToSet(rest) \subseteq ToSet(stack') /\ Constructing \notin ToSet(stack')
         /\ TargetValue' # TargetValue =>
              \E f \in ToSet(stack') : f.kind = "moved" /\ \E m \in ToSet(f.list) :
                                          m.prop = Target[2] /\ m.before # TargetValue'
<1>1. PICK m \in Changes : /\ stack' = <<Moved(Target[1], <<m>>)>> \o rest
                           /\ TargetValue' # TargetValue => m.prop = Target[2] /\ m.before # TargetValue'
  BY DEF TargetMoves
<1>2. PICK f : f = Moved(Target[1], <<m>>)
  OBVIOUS
<1>3. f \in BFrames /\ f.kind = "moved" /\ f.list = <<m>> /\ f # Constructing
  BY <1>2, FramesMade
<1>4. /\ Calls(<<f>> \o rest, f.kind = "transfer" \/ u)
      /\ ToSet(<<f>> \o rest) = {f} \cup ToSet(rest) /\ Constructing \notin ToSet(<<f>> \o rest)
  BY <1>3, CallsPush
<1>5. (f.kind = "transfer" \/ u) = u
  BY <1>3
<1>6. m \in ToSet(<<m>>)
  BY DEF ToSet
<1> QED
  BY <1>1, <1>2, <1>3, <1>4, <1>5, <1>6

LEMMA TransferPushed ==
  ASSUME NEW rest, Calls(rest, FALSE), Constructing \notin ToSet(rest)
  PROVE  Calls(<<Transfer>> \o rest, TRUE) /\ Constructing \notin ToSet(<<Transfer>> \o rest)
BY FramesMade, CallsPush

(* A promise stands while the target's value does.                         *)
LEMMA PromiseStands ==
  ASSUME TargetValue' = TargetValue, NEW f, Promises(f)
  PROVE  Promises(f)'
BY DEF Promises

(* An exception drops what was promised.                                   *)
LEMMA UnwindStep ==
  ASSUME BindingInv, Unwind,
         \/ stack = <<>> \/ Has("constructing") \/ Has("source") \/ Has("telling")
  PROVE  BindingInv'
<1>1. BType'
  BY DEF Unwind, BType, BindingInv, Caught
<1>2. Calls(stack', updating')
  BY CallsNone DEF Unwind, Caught
<1>3. Agreeing'
  <2> SUFFICES ASSUME attached', mode' = "TwoWay", ~dropped' PROVE Agree'
    BY DEF Agreeing
  <2>1. attached /\ mode = "TwoWay" /\ ~dropped /\ stack = <<>>
    BY DEF Unwind
  <2>2. ToSet(stack) = {} /\ stack # <<Constructing>>
    BY <2>1 DEF ToSet
  <2>3. Agree
    BY <2>1, <2>2 DEF BindingInv, Agreeing
  <2> QED
    BY <2>3 DEF Agree, TargetValue, SourceValue, Effective, Unwind
<1> QED
  BY <1>1, <1>2, <1>3 DEF BindingInv

(* While a transfer is in progress the sides agree, or a change was        *)
(* dropped.                                                                *)
LEMMA BlockedAgrees ==
  ASSUME BindingInv, Blocked, attached, mode = "TwoWay", ~dropped
  PROVE  Agree
<1>1. updating
  BY DEF Blocked
<1>2. stack # <<Constructing>>
  <2>1. PICK f \in ToSet(stack) : f.kind = "transfer"
    BY <1>1 DEF BindingInv, Calls, Carries
  <2> SUFFICES ASSUME stack = <<Constructing>> PROVE FALSE
    OBVIOUS
  <2>2. f = Constructing
    BY <2>1 DEF ToSet
  <2> QED
    BY <2>1, <2>2, FramesMade
<1> QED
  BY <1>1, <1>2 DEF BindingInv, Agreeing

LEMMA BlockedStep ==
  ASSUME BindingInv, Blocked, NEW rest, Calls(rest, updating),
         stack' = rest, UNCHANGED <<storeVars, bindingVars>>
  PROVE  BindingInv'
<1>1. BType'
  BY DEF BType, BindingInv, storeVars, bindingVars
<1>2. Calls(stack', updating')
  BY DEF bindingVars
<1>3. Agreeing'
  <2> SUFFICES ASSUME attached', mode' = "TwoWay", ~dropped' PROVE Agree'
    BY DEF Agreeing
  <2>1. Agree
    BY BlockedAgrees DEF bindingVars
  <2> QED
    BY <2>1 DEF Agree, TargetValue, SourceValue, Effective, storeVars, bindingVars
<1> QED
  BY <1>1, <1>2, <1>3 DEF BindingInv

(* Where a step of user code, or of one of the expression's handlers,      *)
(* transfers, the calls that remain are rest.                              *)
Proceeds(rest) ==
    /\ Calls(rest, updating) /\ Constructing \notin ToSet(rest)
    /\ \/ stack = <<>> \/ Has("constructing") \/ Has("source") \/ Has("telling")

LEMMA TargetFromSourceStep ==
  ASSUME BindingInv, NEW rest, Proceeds(rest), TargetFromSource(rest)
  PROVE  BindingInv'
<1> DEFINE v == IF source = Unset THEN fallback ELSE source
<1>1. CASE Blocked
  BY <1>1, BlockedStep DEF TargetFromSource, Proceeds
<1>2. CASE ~Blocked /\ v = Unset
  BY <1>2, UnwindStep DEF TargetFromSource, Proceeds
<1>3. CASE ~Blocked /\ v # Unset
  <2>1. /\ SetSlot(Target, v, <<Transfer>> \o rest) /\ updating' = TRUE
        /\ dropped' = (OwnValue(value', Target[1], Target[2]) # v)
        /\ source' = source /\ listeners' = listeners /\ mode' = mode /\ fallback' = fallback /\ attached' = attached
    BY <1>3 DEF TargetFromSource, expression
  <2>2. BType /\ updating = FALSE
    BY <1>3 DEF BindingInv, Blocked, BType
  <2>3. v \in Values
    BY <1>3, <2>2 DEF BType, MaybeValues
  <2>4. TargetMoves(<<Transfer>> \o rest)
    BY <2>1, <2>2, <2>3, TargetParts, SetMoves
  <2>5. up' = up /\ registered' = registered /\ Slotted(value')
    BY <2>4 DEF TargetMoves
  <2>6. BType'
    BY <2>1, <2>2, <2>5 DEF BType
  <2>7. Calls(<<Transfer>> \o rest, TRUE) /\ Constructing \notin ToSet(<<Transfer>> \o rest)
    BY <2>2, TransferPushed DEF Proceeds
  <2>8. Calls(stack', updating')
    BY <2>1, <2>4, <2>7, MovedPushed
  <2>9. Agreeing'
    <3> SUFFICES ASSUME ~dropped' PROVE Agree'
      BY DEF Agreeing
    <3>1. OwnValue(value', Target[1], Target[2]) = v /\ v # Unset
      BY <1>3, <2>1
    <3>2. GetValue(value', up, Target[1], Target[2]) = v
      BY <2>2, <3>1, TargetParts, TargetReads, Reading
    <3> QED
      BY <2>1, <2>5, <3>2 DEF Agree, TargetValue, SourceValue, Effective
  <2> QED
    BY <2>6, <2>8, <2>9 DEF BindingInv
<1> QED
  BY <1>1, <1>2, <1>3

(* The notification that a change of the source begins.                    *)
LEMMA TellPushed ==
  ASSUME listeners \in Seq(Listening), NEW hs, hs \subseteq ToSet(listeners),
         NEW rest, NEW u \in BOOLEAN, Calls(rest, u), Constructing \notin ToSet(rest)
  PROVE  /\ Calls(Tell(hs) \o rest, u) /\ Constructing \notin ToSet(Tell(hs) \o rest)
         /\ ToSet(rest) \subseteq ToSet(Tell(hs) \o rest)
         /\ "expression" \in hs => \E f \in ToSet(Tell(hs) \o rest) : Promises(f) /\ Promises(f)'
<1>1. CASE hs = {} /\ Tell(hs) = <<>>
  <2>1. Tell(hs) \o rest = rest
    BY <1>1 DEF Calls
  <2> QED
    BY <1>1, <2>1
<1>2. CASE \E w \in hs : Tell(hs) = <<Notifying(w, hs \ {w})>>
  <2>1. PICK w \in hs : Tell(hs) = <<Notifying(w, hs \ {w})>>
    BY <1>2
  <2>2. hs \subseteq Listening
    BY Members
  <2>3. PICK f : f = Notifying(w, hs \ {w})
    OBVIOUS
  <2>4. f \in BFrames /\ f.kind = "source" /\ f.who = w /\ f.rest = hs \ {w}
    BY <2>2, <2>3, FramesMade DEF Notifying
  <2>5. f # Constructing
    BY <2>4, FramesMade
  <2>6. /\ Calls(<<f>> \o rest, f.kind = "transfer" \/ u)
        /\ ToSet(<<f>> \o rest) = {f} \cup ToSet(rest) /\ Constructing \notin ToSet(<<f>> \o rest)
    BY <2>4, <2>5, CallsPush
  <2>7. (f.kind = "transfer" \/ u) = u
    BY <2>4
  <2>8. "expression" \in hs => Promises(f) /\ Promises(f)'
    BY <2>4 DEF Promises
  <2> QED
    BY <2>1, <2>3, <2>6, <2>7, <2>8
<1> QED
  BY <1>1, <1>2, Tells

LEMMA SourceFromTargetStep ==
  ASSUME BindingInv, NEW rest, Proceeds(rest), SourceFromTarget(rest)
  PROVE  BindingInv'
<1>1. CASE Blocked
  BY <1>1, BlockedStep DEF SourceFromTarget, Proceeds
<1>2. CASE ~Blocked
  <2>1. /\ SetSource(TargetValue, <<Transfer>> \o rest) /\ updating' = TRUE /\ dropped' = FALSE
        /\ value' = value /\ up' = up /\ registered' = registered
        /\ listeners' = listeners /\ mode' = mode /\ fallback' = fallback /\ attached' = attached
    BY <1>2 DEF SourceFromTarget, expression, storeVars
  <2>2. BType /\ updating = FALSE
    BY <1>2 DEF BindingInv, Blocked, BType
  <2>3. TargetValue \in Values /\ Unset \notin Values
    BY <2>2, TargetReads
  <2>4. source' = TargetValue
    BY <2>1 DEF SetSource
  <2>5. BType'
    BY <2>1, <2>2, <2>3, <2>4 DEF BType, MaybeValues
  <2>6. Calls(<<Transfer>> \o rest, TRUE) /\ Constructing \notin ToSet(<<Transfer>> \o rest)
    BY <2>2, TransferPushed DEF Proceeds
  <2>7. Calls(Tell(ToSet(listeners)) \o (<<Transfer>> \o rest), TRUE)
    BY <2>2, <2>6, TellPushed DEF BType
  <2>8. Calls(stack', updating')
    BY <2>1, <2>6, <2>7 DEF SetSource
  <2>9. Agree'
    BY <2>1, <2>3, <2>4 DEF Agree, TargetValue, SourceValue, Effective
  <2> QED
    BY <2>5, <2>8, <2>9 DEF BindingInv, Agreeing
<1> QED
  BY <1>1, <1>2

-----------------------------------------------------------------------------
(* Where user code runs, nothing is being constructed.                     *)
LEMMA TopIs ==
  ASSUME BindingInv, stack # <<>>
  PROVE  /\ Head(stack) \in BFrames /\ Head(stack) \in ToSet(stack)
         /\ \A k : Head(stack).kind = k => Has(k)
         /\ Head(stack).kind # "constructing" => Constructing \notin ToSet(stack)
<1>1. stack \in Seq(BFrames) /\ (Constructing \in ToSet(stack) => stack = <<Constructing>>)
  BY DEF BindingInv, Calls
<1>2. 1 \in DOMAIN stack /\ stack[1] = Head(stack)
  BY <1>1
<1>3. Head(stack) \in BFrames /\ Head(stack) \in ToSet(stack)
  BY <1>1, PopMember
<1>4. stack = <<Constructing>> => Head(stack) = Constructing
  OBVIOUS
<1> QED
  BY <1>1, <1>2, <1>3, <1>4, FramesMade DEF Has

LEMMA UserCode ==
  ASSUME BindingInv, BInUserCode
  PROVE  Proceeds(stack) /\ stack # <<Constructing>>
<1>1. CASE stack = <<>>
  <2>1. ToSet(stack) = {}
    BY <1>1 DEF ToSet
  <2> QED
    BY <1>1, <2>1 DEF Proceeds, BindingInv
<1>2. CASE stack # <<>>
  <2>1. Head(stack).kind \in {"telling", "source"}
    BY <1>2 DEF BInUserCode
  <2>2. Constructing \notin ToSet(stack) /\ (Has("source") \/ Has("telling"))
    BY <1>2, <2>1, TopIs
  <2>3. stack # <<Constructing>>
    BY <2>2 DEF ToSet
  <2> QED
    BY <2>2, <2>3 DEF Proceeds, BindingInv
<1> QED
  BY <1>1, <1>2

LEMMA InProgress ==
  ASSUME BindingInv
  PROVE  updating <=> Has("transfer")
BY DEF BindingInv, Calls, Carries, Has, ToSet

(* A step that leaves both sides alone and keeps what was promised.        *)
LEMMA SidesStay ==
  ASSUME BindingInv, BType', Calls(stack', updating'), stack # <<Constructing>>,
         UNCHANGED <<value, up, source, fallback, attached, mode, dropped, updating>>,
         \A f \in ToSet(stack) : Promises(f) /\ attached /\ mode = "TwoWay" =>
             \E g \in ToSet(stack') : Promises(g)'
  PROVE  BindingInv'
<1>1. TargetValue' = TargetValue /\ SourceValue' = SourceValue
  BY DEF TargetValue, SourceValue, Effective
<1>2. Agreeing'
  <2> SUFFICES ASSUME attached', mode' = "TwoWay", ~dropped', ~Agree'
               PROVE  ~updating' /\ \E f \in ToSet(stack') : Promises(f)'
    BY DEF Agreeing
  <2>1. ~Agree
    BY <1>1 DEF Agree
  <2>2. ~updating /\ \E f \in ToSet(stack) : Promises(f)
    BY <2>1 DEF BindingInv, Agreeing
  <2> QED
    BY <2>2
<1> QED
  BY <1>2 DEF BindingInv

-----------------------------------------------------------------------------
(* What user code does.                                                    *)
LEMMA SourceMoves ==
  ASSUME BindingInv, BInUserCode, source' \in MaybeValues, stack' = Tell(ToSet(listeners)) \o stack,
         dropped' = (dropped \/ Has("transfer")), UNCHANGED <<storeVars, expression, updating>>
  PROVE  BindingInv'
<1>1. Proceeds(stack)
  BY UserCode
<1>2. BType'
  BY DEF BType, BindingInv, storeVars, expression, Has
<1>3. updating \in BOOLEAN /\ listeners \in Seq(Listening)
  BY DEF BindingInv, BType
<1>4. /\ Calls(stack', updating)
      /\ "expression" \in ToSet(listeners) => \E f \in ToSet(stack') : Promises(f) /\ Promises(f)'
  BY <1>1, <1>3, TellPushed DEF Proceeds
<1>5. Agreeing'
  <2> SUFFICES ASSUME attached', mode' = "TwoWay", ~dropped'
               PROVE  ~updating' /\ \E f \in ToSet(stack') : Promises(f)'
    BY DEF Agreeing
  <2>1. attached /\ mode = "TwoWay" /\ ~updating /\ updating' = updating
    BY InProgress DEF expression
  <2>2. "expression" \in ToSet(listeners)
    BY <2>1 DEF BindingInv, BType
  <2> QED
    BY <1>4, <2>1, <2>2
<1> QED
  BY <1>2, <1>4, <1>5 DEF BindingInv

LEMMA BagSetStep ==
  ASSUME BindingInv, NEW v \in Values, BagSet(v)
  PROVE  BindingInv'
<1>1. CASE source = v
  <2>1. /\ stack' = stack /\ source' = source /\ dropped' = dropped /\ updating' = updating
        /\ UNCHANGED <<value, up, fallback, attached, mode>>
    BY <1>1 DEF BagSet, SetSource, storeVars, expression, BindingInv, BType
  <2>2. BType'
    BY <2>1 DEF BagSet, BType, BindingInv, storeVars, expression
  <2>3. \A f \in ToSet(stack) : Promises(f) => Promises(f)'
    BY <2>1, PromiseStands DEF TargetValue, Effective
  <2>4. Calls(stack', updating') /\ stack # <<Constructing>>
    BY <2>1, UserCode DEF BindingInv, BagSet
  <2> QED
    BY <2>1, <2>2, <2>3, <2>4, SidesStay
<1>2. CASE source # v
  BY <1>2, SourceMoves DEF BagSet, SetSource, MaybeValues
<1> QED
  BY <1>1, <1>2

LEMMA BagRemoveStep ==
  ASSUME BindingInv, BagRemove
  PROVE  BindingInv'
BY SourceMoves DEF BagRemove, MaybeValues

LEMMA WriteTargetStep ==
  ASSUME BindingInv, WriteTarget
  PROVE  BindingInv'
<1>1. PICK c \in TargetCells :
         /\ BInUserCode
         /\ \/ \E v \in Values : SetSlot(c, v, stack)
            \/ value[c] # Unset /\ ClearSlot(c, stack)
         /\ dropped' = (dropped \/ Has("transfer"))
         /\ UNCHANGED <<source, expression, updating>>
  BY DEF WriteTarget
<1>2. BType /\ Proceeds(stack) /\ stack # <<Constructing>> /\ updating \in BOOLEAN
  BY <1>1, UserCode DEF BindingInv, BType
<1>3. c \in Cells /\ c[1] = Target[1]
  BY DEF TargetCells
<1>4. TargetMoves(stack)
  BY <1>1, <1>2, <1>3, SetMoves, ClearMoves
<1>5. up' = up /\ registered' = registered /\ Slotted(value')
  BY <1>4 DEF TargetMoves
<1>6. BType'
  BY <1>1, <1>2, <1>5 DEF BType, expression, Has
<1>7. /\ Calls(stack', updating) /\ ToSet(stack) \subseteq ToSet(stack')
      /\ TargetValue' # TargetValue =>
              \E f \in ToSet(stack') : f.kind = "moved" /\ \E m \in ToSet(f.list) :
                                          m.prop = Target[2] /\ m.before # TargetValue'
  BY <1>2, <1>4, MovedPushed DEF Proceeds
<1>8. updating' = updating
  BY <1>1
<1>9. Agreeing'
  <2> SUFFICES ASSUME attached', mode' = "TwoWay", ~dropped', ~Agree'
               PROVE  ~updating' /\ \E f \in ToSet(stack') : Promises(f)'
    BY DEF Agreeing
  <2>1. attached /\ mode = "TwoWay" /\ ~dropped /\ ~updating /\ ~updating'
    <3>1. attached /\ mode = "TwoWay"
      BY <1>1 DEF expression
    <3>2. ~dropped /\ ~Has("transfer")
      BY <1>1, Zenon
    <3>3. ~updating
      BY <3>2, InProgress, Zenon
    <3> QED
      BY <1>8, <3>1, <3>2, <3>3
  <2>2. CASE TargetValue' # TargetValue
    BY <1>7, <2>1, <2>2 DEF Promises
  <2>3. CASE TargetValue' = TargetValue
    <3>1. ~Agree
      BY <1>1, <2>3 DEF Agree, SourceValue, expression
    <3>2. PICK f \in ToSet(stack) : Promises(f)
      BY <1>2, <2>1, <3>1 DEF BindingInv, Agreeing
    <3> QED
      BY <1>7, <2>1, <2>3, <3>2, PromiseStands
  <2> QED
    BY <2>2, <2>3
<1> QED
  BY <1>6, <1>7, <1>8, <1>9 DEF BindingInv

LEMMA UpdateSteps ==
  ASSUME BindingInv, UpdateTarget \/ UpdateSource
  PROVE  BindingInv'
BY UserCode, TargetFromSourceStep, SourceFromTargetStep DEF UpdateTarget, UpdateSource

LEMMA DetachStep ==
  ASSUME BindingInv, Detach
  PROVE  BindingInv'
<1>1. /\ attached' = FALSE /\ listeners' = RemoveFirst(listeners, "expression")
      /\ registered' = RemoveFirst(registered, TargetHandler)
      /\ value' = value /\ up' = up /\ stack' = stack
      /\ UNCHANGED <<source, mode, fallback, updating, dropped>>
  BY DEF Detach, Forget
<1>2. mode # "none" /\ BType /\ attached
  BY DEF Detach, BindingInv, BType
<1>3. listeners' \in Seq(Listening) /\ registered' \in Seq({TargetHandler})
  BY <1>1, <1>2, Removing DEF BType
<1>4. BType'
  BY <1>1, <1>2, <1>3 DEF BType
<1> QED
  BY <1>1, <1>4 DEF BindingInv, Agreeing

LEMMA AddListenerStep ==
  ASSUME BindingInv, AddListener
  PROVE  BindingInv'
<1>1. /\ stack = <<>> /\ stack' = stack /\ listeners' = Append(listeners, Listener)
      /\ value' = value /\ up' = up /\ registered' = registered
      /\ UNCHANGED <<source, mode, fallback, attached, updating, dropped>>
  BY DEF AddListener, vars
<1>2. listeners \in Seq(Listening) /\ Listener \in Listening /\ Listener # "expression"
  BY DEF BindingInv, BType, Listening, Listener
<1>3. listeners' \in Seq(Listening) /\ ToSet(listeners') = ToSet(listeners) \cup {Listener}
  <2>1. PICK l : l = Append(listeners, Listener)
    OBVIOUS
  <2>2. /\ l \in Seq(Listening) /\ Len(listeners) \in Nat
        /\ DOMAIN l = 1 .. Len(listeners) + 1 /\ DOMAIN listeners = 1 .. Len(listeners)
        /\ l[Len(listeners) + 1] = Listener /\ \A i \in 1 .. Len(listeners) : l[i] = listeners[i]
    BY <1>2, <2>1
  <2>3. ToSet(l) = ToSet(listeners) \cup {Listener}
    BY <2>2 DEF ToSet
  <2> QED
    BY <1>1, <2>1, <2>2, <2>3
<1>4. BType'
  BY <1>1, <1>2, <1>3 DEF BType, BindingInv
<1>5. ToSet(stack) = {} /\ stack # <<Constructing>>
  BY <1>1 DEF ToSet
<1> QED
  BY <1>1, <1>4, <1>5, SidesStay DEF BindingInv

-----------------------------------------------------------------------------
(* The constructor.                                                        *)
LEMMA ConstructStep ==
  ASSUME BindingInv, NEW m \in Modes, NEW fb \in {Default, Unset}, Construct(m, fb)
  PROVE  BindingInv'
<1>1. /\ stack = <<>> /\ mode = "none" /\ mode' = m /\ fallback' = fb /\ attached' = TRUE
      /\ listeners' = IF m \in ListensToSource THEN Append(listeners, "expression") ELSE listeners
      /\ registered' = IF m \in ListensToTarget THEN Append(registered, TargetHandler) ELSE registered
      /\ stack' = <<Constructing>> \o stack
      /\ UNCHANGED <<value, up, source, updating, dropped>>
  BY DEF Construct
<1>2. /\ BType /\ listeners \in Seq(Listening) /\ registered \in Seq({TargetHandler})
      /\ registered = <<>> /\ "expression" \notin ToSet(listeners) /\ "expression" \in Listening
  BY <1>1 DEF BindingInv, BType, Listening
<1>3. /\ Append(listeners, "expression") \in Seq(Listening) /\ "expression" \in ToSet(Append(listeners, "expression"))
  <2>1. PICK l : l = Append(listeners, "expression")
    OBVIOUS
  <2>2. l \in Seq(Listening) /\ Len(listeners) + 1 \in DOMAIN l /\ l[Len(listeners) + 1] = "expression"
    BY <1>2, <2>1
  <2> QED
    BY <2>1, <2>2 DEF ToSet
<1>4. /\ Append(registered, TargetHandler) \in Seq({TargetHandler})
      /\ TargetHandler \in ToSet(Append(registered, TargetHandler)) /\ TargetHandler \notin ToSet(registered)
  <2>1. Append(registered, TargetHandler) = <<TargetHandler>>
    BY <1>2
  <2>2. ToSet(<<TargetHandler>>) = {TargetHandler} /\ ToSet(registered) = {}
    BY <1>2 DEF ToSet
  <2> QED
    BY <2>1, <2>2
<1>5. fb \in MaybeValues /\ m # "none"
  BY SlotAssumption DEF MaybeValues, Modes
<1>6. listeners' \in Seq(Listening) /\ ("expression" \in ToSet(listeners') <=> m \in {"OneWay", "TwoWay"})
  BY <1>1, <1>2, <1>3 DEF ListensToSource
<1>7. /\ registered' \in Seq({TargetHandler})
      /\ TargetHandler \in ToSet(registered') <=> m \in {"TwoWay", "OneWayToSource"}
  BY <1>1, <1>2, <1>4 DEF ListensToTarget
<1>8. BType'
  BY <1>1, <1>2, <1>5, <1>6, <1>7 DEF BType
<1>9. stack' = <<Constructing>>
  BY <1>1
<1>10. Calls(stack', updating')
  <2>1. ~updating /\ ToSet(stack) = {}
    BY <1>1 DEF BindingInv, Calls, Carries, ToSet
  <2>2. Once(<<>>) /\ ~Carries(<<>>) /\ <<>> \in Seq(BFrames)
    BY DEF Once, Carries, ToSet
  <2>3. <<Constructing>> = <<Constructing>> \o <<>>
    OBVIOUS
  <2>4. PICK s : s = <<>>
    OBVIOUS
  <2>5. Once(<<Constructing>> \o s) /\ ~Carries(<<Constructing>> \o s) /\ <<Constructing>> \o s \in Seq(BFrames)
    BY <2>2, <2>4, FramesMade, PushOnce, PushMember
  <2> QED
    BY <1>1, <1>9, <2>1, <2>3, <2>4, <2>5 DEF Calls
<1> QED
  BY <1>8, <1>9, <1>10 DEF BindingInv, Agreeing

LEMMA FirstTransferStep ==
  ASSUME BindingInv, FirstTransfer
  PROVE  BindingInv'
<1>1. stack # <<>> /\ Head(stack) = Constructing
  BY DEF FirstTransfer
<1>2. /\ Calls(stack, updating) /\ updating \in BOOLEAN
  BY DEF BindingInv, BType
<1>3. Calls(Tail(stack), updating) /\ Constructing \notin ToSet(Tail(stack)) /\ Has("constructing")
  BY <1>1, <1>2, CallsPop, TopIs, FramesMade
<1>4. Calls(<<Made>> \o Tail(stack), updating) /\ Constructing \notin ToSet(<<Made>> \o Tail(stack))
  <2>1. (Made.kind = "transfer" \/ updating) = updating
    BY <1>2, FramesMade
  <2> QED
    BY <1>2, <1>3, <2>1, MadeIsOther, FramesMade, CallsPush
<1>5. Proceeds(<<Made>> \o Tail(stack))
  BY <1>3, <1>4 DEF Proceeds
<1> QED
  BY <1>5, TargetFromSourceStep, SourceFromTargetStep DEF FirstTransfer

(* A frame that promises nothing is popped.                                *)
LEMMA PoppedStep ==
  ASSUME BindingInv, stack # <<>>, stack' = Tail(stack), Head(stack) # Constructing,
         Promises(Head(stack)) => ~(attached /\ mode = "TwoWay"),
         Head(stack).kind # "transfer",
         UNCHANGED <<value, up, registered, bindingVars>>
  PROVE  BindingInv'
<1>1. BType'
  BY DEF BType, BindingInv, bindingVars
<1>2. Calls(stack, updating) /\ updating \in BOOLEAN
  BY DEF BindingInv, BType
<1>3. (updating /\ Head(stack).kind # "transfer") = updating
  BY <1>2
<1>4. Calls(stack', updating') /\ ToSet(stack) = {Head(stack)} \cup ToSet(stack')
  BY <1>2, <1>3, CallsPop DEF bindingVars
<1>5. stack # <<Constructing>>
  OBVIOUS
<1>6. TargetValue' = TargetValue
  BY DEF TargetValue, Effective
<1>7. \A f \in ToSet(stack) : Promises(f) /\ attached /\ mode = "TwoWay" => f \in ToSet(stack') /\ Promises(f)'
  BY <1>4, <1>6, PromiseStands
<1> QED
  BY <1>1, <1>4, <1>5, <1>7, SidesStay DEF bindingVars

LEMMA ConstructedStep ==
  ASSUME BindingInv, Constructed
  PROVE  BindingInv'
<1>1. stack # <<>> /\ Head(stack) = Made /\ stack' = Tail(stack) /\ UNCHANGED <<value, up, registered, bindingVars>>
  BY DEF Constructed, storeVars
<1>2. ~Promises(Made) /\ Made.kind # "transfer"
  BY FramesMade DEF Promises
<1> QED
  BY <1>1, <1>2, MadeIsOther, PoppedStep

LEMMA EndTransferStep ==
  ASSUME BindingInv, EndTransfer
  PROVE  BindingInv'
<1>1. /\ stack # <<>> /\ Head(stack).kind = "transfer" /\ updating' = FALSE /\ stack' = Tail(stack)
      /\ UNCHANGED <<value, up, registered, source, listeners, mode, fallback, attached, dropped>>
  BY DEF EndTransfer, Top, storeVars, expression
<1>2. Calls(stack, updating) /\ updating \in BOOLEAN
  BY DEF BindingInv, BType
<1>3. updating /\ Calls(stack', FALSE)
  BY <1>1, <1>2, CallsPop
<1>4. BType'
  BY <1>1 DEF BType, BindingInv
<1>5. Agreeing'
  <2> SUFFICES ASSUME attached', mode' = "TwoWay", ~dropped' PROVE Agree'
    BY DEF Agreeing
  <2>1. Agree
    BY <1>1, <1>3, BlockedAgrees DEF Blocked
  <2> QED
    BY <1>1, <2>1 DEF Agree, TargetValue, SourceValue, Effective
<1> QED
  BY <1>1, <1>3, <1>4, <1>5 DEF BindingInv

-----------------------------------------------------------------------------
(* The handlers.                                                           *)
LEMMA SourceFrame ==
  ASSUME BindingInv, Top("source")
  PROVE  /\ Head(stack).who \in Listening /\ Head(stack).rest \in SUBSET Listening
         /\ Calls(Tail(stack), updating) /\ Constructing \notin ToSet(Tail(stack))
         /\ ToSet(stack) = {Head(stack)} \cup ToSet(Tail(stack)) /\ Has("source") /\ stack # <<Constructing>>
         /\ LET told == Tell(Live(Head(stack).rest)) \o Tail(stack)
            IN /\ Calls(told, updating) /\ Constructing \notin ToSet(told)
               /\ ToSet(Tail(stack)) \subseteq ToSet(told)
               /\ "expression" \in Live(Head(stack).rest) => \E f \in ToSet(told) : Promises(f) /\ Promises(f)'
<1>1. stack # <<>> /\ Head(stack).kind = "source"
  BY DEF Top
<1>2. Calls(stack, updating) /\ updating \in BOOLEAN /\ listeners \in Seq(Listening)
  BY DEF BindingInv, BType
<1>3. (updating /\ Head(stack).kind # "transfer") = updating
  BY <1>1, <1>2
<1>4. Head(stack) \in BFrames /\ Calls(Tail(stack), updating) /\ Constructing \notin ToSet(Tail(stack))
      /\ ToSet(stack) = {Head(stack)} \cup ToSet(Tail(stack))
  BY <1>1, <1>2, <1>3, CallsPop
<1>5. Head(stack).who \in Listening /\ Head(stack).rest \in SUBSET Listening
  BY <1>1, <1>4, FrameKinds
<1>6. Has("source") /\ Constructing \notin ToSet(stack)
  BY <1>1, TopIs
<1>7. stack # <<Constructing>>
  BY <1>6 DEF ToSet
<1>8. Live(Head(stack).rest) \subseteq ToSet(listeners)
  BY DEF Live
<1>9. PICK hs, t : hs = Live(Head(stack).rest) /\ t = Tail(stack)
  OBVIOUS
<1>10. hs \subseteq ToSet(listeners) /\ Calls(t, updating) /\ Constructing \notin ToSet(t)
  BY <1>4, <1>8, <1>9
<1>11. /\ Calls(Tell(hs) \o t, updating) /\ Constructing \notin ToSet(Tell(hs) \o t)
       /\ ToSet(t) \subseteq ToSet(Tell(hs) \o t)
       /\ "expression" \in hs => \E f \in ToSet(Tell(hs) \o t) : Promises(f) /\ Promises(f)'
  BY <1>2, <1>10, TellPushed
<1> QED
  BY <1>4, <1>5, <1>6, <1>7, <1>9, <1>11

LEMMA ListenerReturnsStep ==
  ASSUME BindingInv, ListenerReturns
  PROVE  BindingInv'
<1>1. /\ Top("source") /\ Head(stack).kind = "source" /\ Head(stack).who = Listener
      /\ stack' = Tell(Live(Head(stack).rest)) \o Tail(stack)
      /\ UNCHANGED <<value, up, registered, bindingVars>>
  BY DEF ListenerReturns, storeVars, Top
<1>2. BType'
  BY <1>1 DEF BType, BindingInv, bindingVars
<1>3. Calls(stack', updating')
  BY <1>1, SourceFrame DEF bindingVars
<1>4. TargetValue' = TargetValue
  BY <1>1 DEF TargetValue, Effective
<1>5. ASSUME NEW f \in ToSet(stack), Promises(f), attached, mode = "TwoWay"
      PROVE  \E g \in ToSet(stack') : Promises(g)'
  <2>1. CASE f \in ToSet(Tail(stack))
    <3>1. f \in ToSet(stack') /\ Promises(f)'
      BY <1>1, <1>4, <1>5, <2>1, SourceFrame, PromiseStands
    <3> QED
      BY <3>1
  <2>2. CASE f = Head(stack)
    <3>1. "expression" \in Head(stack).rest
      BY <1>1, <1>5, <2>2 DEF Promises, Listener
    <3>2. "expression" \in ToSet(listeners)
      BY <1>5 DEF BindingInv, BType
    <3>3. "expression" \in Live(Head(stack).rest)
      BY <3>1, <3>2 DEF Live
    <3> QED
      BY <1>1, <3>3, SourceFrame
  <2> QED
    BY <1>1, <1>5, <2>1, <2>2, SourceFrame
<1>6. stack # <<Constructing>>
  BY <1>1, SourceFrame
<1> QED
  BY <1>1, <1>2, <1>3, <1>5, <1>6, SidesStay DEF bindingVars

LEMMA SourceHandlerRunsStep ==
  ASSUME BindingInv, SourceHandlerRuns
  PROVE  BindingInv'
<1>1. Proceeds(Tell(Live(Head(stack).rest)) \o Tail(stack))
  BY SourceFrame DEF SourceHandlerRuns, Proceeds
<1> QED
  BY <1>1, TargetFromSourceStep DEF SourceHandlerRuns

LEMMA BThrowStep ==
  ASSUME BindingInv, BThrow
  PROVE  BindingInv'
<1>1. stack # <<>> /\ (Head(stack).kind = "telling" \/ Head(stack).kind = "source") /\ Unwind
  BY DEF BThrow, Top
<1>2. Has("telling") \/ Has("source")
  BY <1>1, TopIs
<1> QED
  BY <1>1, <1>2, UnwindStep

LEMMA Handing1 ==
  ASSUME NEW f \in BFrames, f.kind = "telling", NEW w \in {Metadata, TargetHandler, NoObserver}
  PROVE  \E g \in BFrames : /\ g.kind = "telling" /\ g.prop = f.prop /\ g.who = w
                            /\ g = [f EXCEPT !.who = w]
                            /\ g = [f EXCEPT !.who = w, !.phase = Whole, !.rest = {}]
<1>1. f \in [kind : {"telling"}, obj : {Target[1]}, prop : Props, before : MaybeValues, after : MaybeValues,
             who : {Metadata, TargetHandler, NoObserver}, phase : {Whole}, rest : {{}}]
  BY DEF BFrames, Transfer, Constructing, Made
<1>2. f.phase = Whole /\ f.rest = {}
  BY <1>1
<1>3. [f EXCEPT !.who = w] \in [kind : {"telling"}, obj : {Target[1]}, prop : Props, before : MaybeValues, after : MaybeValues,
             who : {Metadata, TargetHandler, NoObserver}, phase : {Whole}, rest : {{}}]
  BY <1>1
<1>4. [f EXCEPT !.who = w, !.phase = Whole, !.rest = {}] = [f EXCEPT !.who = w]
  BY <1>1, <1>2
<1>5. [f EXCEPT !.who = w].kind = "telling" /\ [f EXCEPT !.who = w].prop = f.prop /\ [f EXCEPT !.who = w].who = w
  BY <1>1
<1> QED
  BY <1>3, <1>4, <1>5 DEF BFrames

(* The running observer of a telling frame, and the calls below it.        *)
LEMMA TellingFrame ==
  ASSUME BindingInv, stack # <<>>, Head(stack).kind \in {"telling", "moved"}
  PROVE  /\ Head(stack) \in BFrames /\ Calls(Tail(stack), updating) /\ Constructing \notin ToSet(Tail(stack))
         /\ ToSet(stack) = {Head(stack)} \cup ToSet(Tail(stack)) /\ stack # <<Constructing>>
         /\ Head(stack) # Constructing /\ updating \in BOOLEAN
<1>1. Calls(stack, updating) /\ updating \in BOOLEAN
  BY DEF BindingInv, BType
<1>2. (updating /\ Head(stack).kind # "transfer") = updating
  BY <1>1
<1>3. Head(stack) # Constructing
  BY FramesMade
<1>4. stack # <<Constructing>>
  BY <1>3
<1> QED
  BY <1>1, <1>2, <1>3, <1>4, CallsPop

LEMMA FramePushed ==
  ASSUME NEW rest, NEW u \in BOOLEAN, Calls(rest, u), Constructing \notin ToSet(rest),
         NEW g \in BFrames, g.kind = "telling"
  PROVE  /\ Calls(<<g>> \o rest, u) /\ Constructing \notin ToSet(<<g>> \o rest)
         /\ ToSet(<<g>> \o rest) = {g} \cup ToSet(rest)
<1>1. g # Constructing /\ (g.kind = "transfer" \/ u) = u
  BY FramesMade
<1> QED
  BY <1>1, CallsPush

LEMMA TargetHandlerRunsStep ==
  ASSUME BindingInv, TargetHandlerRuns
  PROVE  BindingInv'
<1>1. PICK f, t : f = Head(stack) /\ t = Tail(stack)
  OBVIOUS
<1>2. stack # <<>> /\ f.kind = "telling" /\ f.who = TargetHandler
  BY <1>1 DEF TargetHandlerRuns, Top
<1>3. /\ f \in BFrames /\ Calls(t, updating) /\ Constructing \notin ToSet(t)
      /\ ToSet(stack) = {f} \cup ToSet(t) /\ stack # <<Constructing>> /\ updating \in BOOLEAN
  BY <1>1, <1>2, TellingFrame
<1>4. PICK g \in BFrames : g.kind = "telling" /\ g.prop = f.prop /\ g = [f EXCEPT !.who = NoObserver]
  BY <1>2, <1>3, Handing1
<1>5. /\ Calls(<<g>> \o t, updating) /\ Constructing \notin ToSet(<<g>> \o t)
      /\ ToSet(<<g>> \o t) = {g} \cup ToSet(t)
  BY <1>3, <1>4, FramePushed
<1>6. IF f.prop = Target[2] THEN SourceFromTarget(<<g>> \o t)
      ELSE stack' = <<g>> \o t /\ UNCHANGED <<storeVars, bindingVars>>
  BY <1>1, <1>4 DEF TargetHandlerRuns
<1>7. CASE f.prop = Target[2]
  <2>1. Has("telling")
    BY <1>1, <1>2, TopIs
  <2>2. Proceeds(<<g>> \o t)
    BY <1>5, <2>1 DEF Proceeds
  <2> QED
    BY <1>6, <1>7, <2>2, SourceFromTargetStep
<1>8. CASE f.prop # Target[2]
  <2>1. stack' = <<g>> \o t /\ UNCHANGED <<value, up, registered, bindingVars>>
    BY <1>6, <1>8 DEF storeVars
  <2>2. BType'
    BY <2>1 DEF BType, BindingInv, bindingVars
  <2>3. TargetValue' = TargetValue
    BY <2>1 DEF TargetValue, Effective
  <2>4. ~Promises(f)
    BY <1>2, <1>8 DEF Promises
  <2>5. \A e \in ToSet(stack) : Promises(e) => e \in ToSet(stack') /\ Promises(e)'
    BY <1>3, <1>5, <2>1, <2>3, <2>4, PromiseStands
  <2>6. Calls(stack', updating')
    BY <1>5, <2>1 DEF bindingVars
  <2> QED
    BY <1>3, <2>1, <2>2, <2>5, <2>6, SidesStay DEF bindingVars
<1> QED
  BY <1>7, <1>8

LEMMA AnnounceTargetStep ==
  ASSUME BindingInv, Announce, UNCHANGED bindingVars
  PROVE  BindingInv'
<1>1. stack # <<>> /\ Head(stack).kind = "moved"
  BY DEF Announce
<1>2. PICK f, t : f = Head(stack) /\ t = Tail(stack)
  OBVIOUS
<1>3. /\ f \in BFrames /\ Calls(t, updating) /\ Constructing \notin ToSet(t)
      /\ ToSet(stack) = {f} \cup ToSet(t) /\ stack # <<Constructing>> /\ f # Constructing /\ updating \in BOOLEAN
  BY <1>1, <1>2, TellingFrame
<1>4. f.obj = Target[1] /\ \E m \in Changes : f.list = <<m>>
  BY <1>1, <1>2, <1>3, FrameKinds
<1>5. PICK m \in Changes : f.list = <<m>>
  BY <1>4
<1>6. m.prop \in Props /\ m.before \in MaybeValues /\ Len(f.list) = 1 /\ Head(f.list) = m
  BY <1>5 DEF Changes
<1>7. PICK now : now = Effective(Target[1], m.prop)
  OBVIOUS
<1>8. now \in MaybeValues
  BY <1>7, TargetReads DEF BindingInv, MaybeValues
<1>9. /\ UNCHANGED <<value, up, registered, bindingVars>>
      /\ \/ m.before = now /\ stack' = t
         \/ m.before # now /\ stack' = <<Telling(Target[1], m.prop, m.before, now, Metadata, Whole, {})>> \o t
  BY <1>2, <1>4, <1>6, <1>7 DEF Announce, SameValue
<1>10. CASE m.before = now /\ stack' = t
  <2>1. \A n \in ToSet(f.list) : n = m
    BY <1>5 DEF ToSet
  <2>2. ~Promises(f)
    BY <1>1, <1>2, <1>7, <1>10, <2>1 DEF Promises, TargetValue
  <2> QED
    BY <1>1, <1>2, <1>3, <1>9, <1>10, <2>2, PoppedStep
<1>11. CASE m.before # now /\ stack' = <<Telling(Target[1], m.prop, m.before, now, Metadata, Whole, {})>> \o t
  <2>1. PICK g : g = Telling(Target[1], m.prop, m.before, now, Metadata, Whole, {})
    OBVIOUS
  <2>2. g \in BFrames /\ g.kind = "telling" /\ g.prop = m.prop /\ g.who = Metadata
    BY <1>6, <1>8, <2>1, FramesMade DEF Telling
  <2>3. /\ Calls(<<g>> \o t, updating) /\ ToSet(<<g>> \o t) = {g} \cup ToSet(t)
    BY <1>3, <2>2, FramePushed
  <2>4. BType' /\ stack' = <<g>> \o t /\ TargetValue' = TargetValue
    BY <1>9, <1>11, <2>1 DEF BType, BindingInv, bindingVars, TargetValue, Effective
  <2>5. \A n \in ToSet(f.list) : n = m
    BY <1>5 DEF ToSet
  <2>6. Promises(f) => Promises(g)'
    BY <1>1, <1>2, <2>2, <2>5 DEF Promises
  <2>7. \A e \in ToSet(stack) : Promises(e) => \E d \in ToSet(stack') : Promises(d)'
    BY <1>3, <2>3, <2>4, <2>6, PromiseStands
  <2>8. Calls(stack', updating')
    BY <1>9, <2>3, <2>4 DEF bindingVars
  <2> QED
    BY <1>3, <1>9, <2>4, <2>7, <2>8, SidesStay DEF bindingVars
<1> QED
  BY <1>9, <1>10, <1>11

(* After the metadata's callback, the expression's handler if there is one.*)
LEMMA NextTold ==
  ASSUME BindingInv, NEW f \in BFrames, f.kind = "telling"
  PROVE  \/ /\ TargetHandler \in ToSet(registered) /\ f.who = Metadata
            /\ NextObserver(f) = [who |-> TargetHandler, phase |-> Whole, rest |-> {}]
         \/ /\ TargetHandler \notin ToSet(registered) \/ f.who # Metadata
            /\ NextObserver(f) = [who |-> NoObserver, phase |-> Whole, rest |-> {}]
<1>1. f.obj = Target[1] /\ f.prop \in Props /\ f.phase = Whole /\ f.rest = {}
  BY FrameKinds
<1>2. ToSet(registered) \subseteq {TargetHandler}
  BY Members DEF BindingInv, BType
<1>3. OfKind(f.obj, Whole) = ToSet(registered)
  BY <1>1, <1>2, TargetParts DEF OfKind
<1>4. OfKind(f.obj, f.prop) = {}
  BY <1>1, <1>2, TargetParts DEF OfKind
<1>5. StillThere(f.rest) = {}
  BY <1>1 DEF StillThere
<1>6. CASE TargetHandler \in ToSet(registered) /\ f.who = Metadata
  <2>1. OfKind(f.obj, Whole) = {TargetHandler}
    BY <1>2, <1>3, <1>6
  <2>2. Oldest({TargetHandler}) = TargetHandler
    BY DEF Oldest
  <2>3. Calling({TargetHandler}, Whole) = [who |-> TargetHandler, phase |-> Whole, rest |-> {}]
    BY <2>2 DEF Calling
  <2>4. {TargetHandler} # {}
    OBVIOUS
  <2>5. NextObserver(f) = Calling(OfKind(f.obj, Whole), Whole)
    BY <1>6, <2>1, <2>4 DEF NextObserver
  <2> QED
    BY <1>6, <2>1, <2>3, <2>5
<1>7. CASE ~(TargetHandler \in ToSet(registered) /\ f.who = Metadata)
  <2>1. (IF f.who = Metadata THEN OfKind(f.obj, Whole)
         ELSE IF f.phase = Whole THEN StillThere(f.rest) ELSE {}) = {}
    BY <1>2, <1>3, <1>5, <1>7
  <2> QED
    BY <1>1, <1>4, <1>7, <2>1 DEF NextObserver
<1> QED
  BY <1>6, <1>7

LEMMA ReturnTargetStep ==
  ASSUME BindingInv, Return, UNCHANGED bindingVars
  PROVE  BindingInv'
<1>1. PICK f, t, n : f = Head(stack) /\ t = Tail(stack) /\ n = NextObserver(f)
  OBVIOUS
<1>2. stack # <<>> /\ f.kind = "telling" /\ f.who \notin Internal
  BY <1>1 DEF Return
<1>3. /\ f \in BFrames /\ Calls(t, updating) /\ Constructing \notin ToSet(t)
      /\ ToSet(stack) = {f} \cup ToSet(t) /\ stack # <<Constructing>> /\ f # Constructing /\ updating \in BOOLEAN
  BY <1>1, <1>2, TellingFrame
<1>4. f.who # TargetHandler
  BY <1>2, BindingAssumption
<1>5. /\ UNCHANGED <<value, up, registered, bindingVars>>
      /\ \/ n.who # NoObserver /\ stack' = <<[f EXCEPT !.who = n.who, !.phase = n.phase, !.rest = n.rest]>> \o t
         \/ n.who = NoObserver /\ stack' = t
  BY <1>1 DEF Return
<1>6. CASE n.who = NoObserver /\ stack' = t
  <2>1. TargetHandler \notin ToSet(registered) \/ f.who # Metadata
    BY <1>1, <1>2, <1>3, <1>6, NextTold, TargetParts
  <2>2. Promises(f) => TargetHandler \notin ToSet(registered)
    BY <1>2, <1>4, <2>1 DEF Promises
  <2>3. Promises(f) => ~(attached /\ mode = "TwoWay")
    BY <2>2 DEF BindingInv, BType
  <2> QED
    BY <1>1, <1>2, <1>3, <1>5, <1>6, <2>3, PoppedStep
<1>7. CASE n.who # NoObserver /\ stack' = <<[f EXCEPT !.who = n.who, !.phase = n.phase, !.rest = n.rest]>> \o t
  <2>1. n = [who |-> TargetHandler, phase |-> Whole, rest |-> {}]
    BY <1>1, <1>2, <1>3, <1>7, NextTold
  <2>2. PICK g \in BFrames : /\ g.kind = "telling" /\ g.prop = f.prop /\ g.who = TargetHandler
                             /\ g = [f EXCEPT !.who = TargetHandler, !.phase = Whole, !.rest = {}]
    BY <1>2, <1>3, Handing1
  <2>3. stack' = <<g>> \o t
    BY <1>7, <2>1, <2>2
  <2>4. Calls(<<g>> \o t, updating) /\ ToSet(<<g>> \o t) = {g} \cup ToSet(t)
    BY <1>3, <2>2, FramePushed
  <2>5. BType' /\ TargetValue' = TargetValue
    BY <1>5 DEF BType, BindingInv, bindingVars, TargetValue, Effective
  <2>6. Promises(f) => Promises(g)'
    BY <1>2, <2>2 DEF Promises
  <2>7. \A e \in ToSet(stack) : Promises(e) => \E d \in ToSet(stack') : Promises(d)'
    BY <1>3, <2>3, <2>4, <2>5, <2>6, PromiseStands
  <2>8. Calls(stack', updating')
    BY <1>5, <2>3, <2>4 DEF bindingVars
  <2> QED
    BY <1>3, <1>5, <2>5, <2>7, <2>8, SidesStay DEF bindingVars
<1> QED
  BY <1>5, <1>6, <1>7

-----------------------------------------------------------------------------
LEMMA BindingStarts == Init /\ BInit => BindingInv
<1> SUFFICES ASSUME Init, BInit PROVE BindingInv
  OBVIOUS
<1>1. /\ value = [c \in Cells |-> Unset] /\ up = [o \in Objects |-> NoParent] /\ registered = <<>> /\ stack = <<>>
      /\ source \in Values /\ listeners = <<>> /\ mode = "none" /\ fallback = Unset
      /\ attached = FALSE /\ updating = FALSE /\ dropped = FALSE
  BY DEF Init, BInit
<1>2. ToSet(listeners) = {} /\ listeners \in Seq(Listening) /\ registered \in Seq({TargetHandler})
  BY <1>1 DEF ToSet
<1>3. BType
  BY <1>1, <1>2 DEF BType, Slotted, MaybeValues, Alone, Modes
<1> QED
  BY <1>1, <1>3, CallsNone DEF BindingInv, Agreeing

LEMMA BindingStep == BindingInv /\ [BNext]_bvars => BindingInv'
<1> SUFFICES ASSUME BindingInv, [BNext]_bvars PROVE BindingInv'
  OBVIOUS
<1>1. CASE \E v \in Values : BagSet(v)
  BY <1>1, BagSetStep
<1>2. CASE BagRemove \/ WriteTarget
  BY <1>2, BagRemoveStep, WriteTargetStep
<1>3. CASE UpdateTarget \/ UpdateSource
  BY <1>3, UpdateSteps
<1>4. CASE Detach \/ AddListener
  BY <1>4, DetachStep, AddListenerStep
<1>5. CASE \E m \in Modes, fb \in {Default, Unset} : Construct(m, fb)
  BY <1>5, ConstructStep
<1>6. CASE FirstTransfer \/ Constructed \/ EndTransfer
  BY <1>6, FirstTransferStep, ConstructedStep, EndTransferStep
<1>7. CASE SourceHandlerRuns \/ TargetHandlerRuns
  BY <1>7, SourceHandlerRunsStep, TargetHandlerRunsStep
<1>8. CASE ListenerReturns \/ BThrow
  BY <1>8, ListenerReturnsStep, BThrowStep
<1>9. CASE (Announce \/ Return) /\ UNCHANGED bindingVars
  BY <1>9, AnnounceTargetStep, ReturnTargetStep
<1>10. CASE UNCHANGED bvars
  <2>1. UNCHANGED <<value, up, registered, stack, bindingVars>>
    BY <1>10 DEF bvars, vars
  <2> QED
    BY <2>1 DEF BindingInv, BType, Agreeing, Agree, TargetValue, SourceValue, Effective, Promises, bindingVars
<1> QED
  BY <1>1, <1>2, <1>3, <1>4, <1>5, <1>6, <1>7, <1>8, <1>9, <1>10 DEF BNext

LEMMA BindingGives == BindingInv => TransferProtocol
<1> SUFFICES ASSUME BindingInv PROVE TransferProtocol
  OBVIOUS
<1>1. BTypeOK
  <2>1. ToSet(listeners) \subseteq {"expression", Listener}
    BY Members DEF BindingInv, BType, Listening
  <2> QED
    BY <2>1 DEF BindingInv, BType, BTypeOK, Slotted, MaybeValues
<1>2. OneTransfer
  BY DEF BindingInv, Calls, Once, OneTransfer
<1>3. UpdatingEnds
  BY InProgress DEF UpdatingEnds
<1>4. SidesAgree
  <2>1. stack = <<>> => ToSet(stack) = {} /\ stack # <<Constructing>>
    BY DEF ToSet
  <2> QED
    BY <2>1 DEF BindingInv, Agreeing, Agree, SourceValue, SidesAgree
<1> QED
  BY <1>1, <1>2, <1>3, <1>4 DEF TransferProtocol

(* updating covers the one transfer in progress and ends with it, also     *)
(* when a handler throws; and at rest the target and the source of a       *)
(* TwoWay binding agree, unless the last change was dropped: binding.cpp,  *)
(* TargetFromSource, SourceFromTarget and the handlers between them.       *)
THEOREM BindingCorrect == BSpec => []TransferProtocol
<1>1. BSpec => []BindingInv
  BY BindingStarts, BindingStep, PTL DEF BSpec
<1> QED
  BY <1>1, BindingGives, PTL

-----------------------------------------------------------------------------
(* The visual states.  What may be on the stack: no observer is registered *)
(* but the metadata's, and a change of state has lines of its own state.   *)
Written(list) == {l.cell : l \in ToSet(list)}
Undoing   == {f \in [kind : {"leaving", "stopping"}, state : States, next : States, list : Seq(Cells)] :
                 f.next.group = f.state.group /\ ToSet(f.list) \subseteq CellsOf(f.state)}
Applying  == {f \in [kind : {"entering"}, state : States, list : Seq(Writes)] :
                 Written(f.list) \subseteq CellsOf(f.state)}
Animating == {f \in [kind : {"sampling"}, state : States, list : Seq(Writes), done : BOOLEAN] :
                 Written(f.list) \subseteq CellsOf(f.state)}
VFrames ==
    [kind : {"moved"}, obj : Objects, list : OneChange]
    \cup [kind : {"telling"}, obj : Objects, prop : Props, before : MaybeValues, after : MaybeValues,
          who : {Metadata}, phase : {Whole}, rest : {{}}]
    \cup Undoing \cup Applying \cup Animating

VType ==
    /\ Slotted(value) /\ Tree(up) /\ registered = <<>> /\ stack \in Seq(VFrames)
    /\ current \in [Groups -> States \cup {NoState}]
    /\ \A g \in Groups : current[g] # NoState => current[g].group = g
    /\ DOMAIN base = States /\ \A s \in States : base[s] \in [CellsOf(s) -> MaybeValues]
    /\ overlapped \in SUBSET Groups

(* The changes of a group's state on the stack: one, unless they overlap.  *)
Busy(f, g) == f.kind \in {"leaving", "stopping", "entering", "sampling"} /\ f.state.group = g
Ongoing(st, g) == {f \in ToSet(st) : Busy(f, g)}
OneOf(st, g) == \A i, j \in DOMAIN st : Busy(st[i], g) /\ Busy(st[j], g) => i = j

(* The last line of the list for c writes v.                               *)
Ends(list, c, v) ==
    \E i \in DOMAIN list : /\ list[i].cell = c /\ list[i].to = v
                           /\ \A j \in DOMAIN list : j > i => list[j].cell # c

(* What the group animates has no value, but for the cells kept.           *)
Bare(g, kept) == \A t \in States, c \in Cells : t.group = g /\ c \in CellsOf(t) \ kept => value[c] = Unset
Forgets(g) == \A t \in States : t.group = g /\ t # current[g] => base[t] = [c \in CellsOf(t) |-> Unset]

(* What is left to clear: the timelines' values after all the setters'.    *)
ToClear(f) == IF f.kind = "leaving" THEN ToSet(f.list) \cup Written(f.state.timelines) ELSE ToSet(f.list)

(* The values of the state's cells are its own once the list is written.   *)
Applies(s, list) ==
    /\ Bare(s.group, CellsOf(s))
    /\ \A c \in CellsOf(s) :
          IF c \in Written(list) THEN Ends(list, c, FinalValue(s, c))
          ELSE value[c] \in {FinalValue(s, c), base[s][c]} \ {Unset}

InPlace(f) ==
    /\ current[f.state.group] = f.state
    /\ f.kind \in {"leaving", "stopping"} => Bare(f.state.group, ToClear(f))
    /\ f.kind = "entering" => Applies(f.state, f.list \o f.state.timelines)
    /\ f.kind = "sampling" => Applies(f.state, f.list)
AtRest(g) == IF current[g] = NoState THEN Bare(g, {}) ELSE Applies(current[g], <<>>)

GroupInv(g) ==
    /\ OneOf(stack, g) /\ Forgets(g)
    /\ \A f \in Ongoing(stack, g) : InPlace(f)
    /\ Ongoing(stack, g) = {} => AtRest(g)

StatesInv == VType /\ \A g \in Groups \ overlapped : GroupInv(g)

-----------------------------------------------------------------------------
(* The lines of a state.                                                   *)
LEMMA JoinedStacks ==
  ASSUME NEW S, NEW a \in Seq(S), NEW b \in Seq(S), NEW l, l = a \o b
  PROVE  /\ l \in Seq(S) /\ Len(a) \in Nat /\ Len(b) \in Nat
         /\ DOMAIN a = 1 .. Len(a) /\ DOMAIN b = 1 .. Len(b) /\ DOMAIN l = 1 .. Len(a) + Len(b)
         /\ \A i \in DOMAIN a : i \in DOMAIN l /\ l[i] = a[i]
         /\ \A i \in DOMAIN b : Len(a) + i \in DOMAIN l /\ l[Len(a) + i] = b[i]
<1>1. /\ l \in Seq(S) /\ Len(a) \in Nat /\ Len(b) \in Nat
      /\ DOMAIN a = 1 .. Len(a) /\ DOMAIN b = 1 .. Len(b) /\ DOMAIN l = 1 .. Len(a) + Len(b)
  OBVIOUS
<1>2. \A i \in DOMAIN a : l[i] = a[i]
  OBVIOUS
<1>3. \A i \in DOMAIN b : l[Len(a) + i] = b[i]
  OBVIOUS
<1> QED
  BY <1>1, <1>2, <1>3

LEMMA StateParts ==
  ASSUME NEW s \in States
  PROVE  /\ s.group \in Groups /\ s # NoState
         /\ s.setters \in Seq(Writes) /\ s.timelines \in Seq(Writes) /\ Lines(s) \in Seq(Writes)
         /\ CellsOf(s) = Written(Lines(s)) /\ CellsOf(s) \subseteq Cells
         /\ Written(s.setters) \subseteq CellsOf(s) /\ Written(s.timelines) \subseteq CellsOf(s)
<1>1. s.group \in Groups /\ s # NoState /\ s.setters \in Seq(Writes) /\ s.timelines \in Seq(Writes)
  BY StateAssumption DEF Writes
<1>2. PICK a, b : a = s.setters /\ b = s.timelines
  OBVIOUS
<1>3. PICK l : l = a \o b
  OBVIOUS
<1>4. /\ l \in Seq(Writes) /\ \A i \in DOMAIN a : i \in DOMAIN l /\ l[i] = a[i]
      /\ \A i \in DOMAIN b : Len(a) + i \in DOMAIN l /\ l[Len(a) + i] = b[i]
  <2>1. a \in Seq(Writes) /\ b \in Seq(Writes)
    BY <1>1, <1>2
  <2> QED
    BY <1>3, <2>1, JoinedStacks
<1>5. ToSet(a) \subseteq ToSet(l) /\ ToSet(b) \subseteq ToSet(l) /\ ToSet(l) \subseteq Writes
  BY <1>4, Members DEF ToSet
<1>6. Lines(s) = l /\ CellsOf(s) = Written(l)
  BY <1>2, <1>3 DEF Lines, CellsOf, Written
<1>7. Written(l) \subseteq Cells /\ Written(a) \subseteq Written(l) /\ Written(b) \subseteq Written(l)
  BY <1>5 DEF Written, Writes
<1> QED
  BY <1>1, <1>2, <1>4, <1>6, <1>7

(* The setters and the timelines are all the lines of a state.             *)
LEMMA PartsCover ==
  ASSUME NEW s \in States
  PROVE  CellsOf(s) = Written(s.setters) \cup Written(s.timelines)
<1>1. PICK a, b, l : a = s.setters /\ b = s.timelines /\ l = a \o b
  OBVIOUS
<1>2. a \in Seq(Writes) /\ b \in Seq(Writes) /\ CellsOf(s) = Written(l)
  BY <1>1, StateParts DEF Lines
<1>3. /\ Len(a) \in Nat /\ Len(b) \in Nat /\ DOMAIN l = 1 .. Len(a) + Len(b)
      /\ DOMAIN a = 1 .. Len(a) /\ DOMAIN b = 1 .. Len(b)
      /\ \A i \in DOMAIN a : l[i] = a[i]
      /\ \A i \in DOMAIN b : l[Len(a) + i] = b[i]
  <2>1. a \in Seq(Writes) /\ b \in Seq(Writes) /\ l = a \o b
    BY <1>1, <1>2
  <2> QED
    BY <2>1, JoinedStacks
<1>4. \A i \in DOMAIN l : (\E j \in DOMAIN a : l[i] = a[j]) \/ (\E j \in DOMAIN b : l[i] = b[j])
  <2> SUFFICES ASSUME NEW i \in DOMAIN l
               PROVE  \/ i \in DOMAIN a /\ l[i] = a[i]
                      \/ i - Len(a) \in DOMAIN b /\ l[i] = b[i - Len(a)]
    OBVIOUS
  <2> QED
    BY <1>3
<1>5. Written(l) \subseteq Written(a) \cup Written(b)
  BY <1>4 DEF Written, ToSet
<1> QED
  BY <1>1, <1>2, <1>5, StateParts

LEMMA CellsListed ==
  ASSUME NEW list \in Seq(Writes)
  PROVE  /\ [i \in DOMAIN list |-> list[i].cell] \in Seq(Cells)
         /\ ToSet([i \in DOMAIN list |-> list[i].cell]) = Written(list)
<1>1. PICK u : u = [i \in DOMAIN list |-> list[i].cell]
  OBVIOUS
<1>2. u = [i \in 1 .. Len(list) |-> list[i].cell] /\ Len(list) \in Nat
  BY <1>1
<1>3. \A i \in 1 .. Len(list) : list[i].cell \in Cells
  <2>1. \A i \in 1 .. Len(list) : list[i] \in Writes
    OBVIOUS
  <2> QED
    BY <2>1 DEF Writes
<1>4. u \in Seq(Cells)
  BY <1>2, <1>3
<1>5. ToSet(u) = Written(list)
  BY <1>1 DEF Written, ToSet
<1> QED
  BY <1>1, <1>4, <1>5

LEMMA GroupsApart ==
  ASSUME NEW s \in States, NEW t \in States, s.group # t.group, NEW c \in CellsOf(s)
  PROVE  c \notin CellsOf(t)
BY StateAssumption

LEMMA ListPopped ==
  ASSUME NEW S, NEW list \in Seq(S), list # <<>>, NEW more \in Seq(S)
  PROVE  /\ Head(list) \in S /\ Tail(list) \in Seq(S) /\ list \o more \in Seq(S) /\ list \o more # <<>>
         /\ Head(list \o more) = Head(list) /\ Tail(list \o more) = Tail(list) \o more
OBVIOUS

LEMMA WrittenTail ==
  ASSUME NEW list \in Seq(Writes), list # <<>>
  PROVE  Written(list) = {Head(list).cell} \cup Written(Tail(list))
BY PopMember DEF Written

LEMMA EndsTail ==
  ASSUME NEW list \in Seq(Writes), list # <<>>, NEW c, NEW v, Ends(list, c, v)
  PROVE  IF c \in Written(Tail(list)) THEN Ends(Tail(list), c, v)
         ELSE Head(list).cell = c /\ Head(list).to = v
<1>1. PICK t, h : t = Tail(list) /\ h = Head(list)
  OBVIOUS
<1>2. /\ Len(t) \in Nat /\ DOMAIN t = 1 .. Len(t) /\ DOMAIN list = 1 .. Len(t) + 1
      /\ list[1] = h /\ \A i \in 1 .. Len(t) : t[i] = list[i + 1]
  BY <1>1
<1>3. PICK i \in DOMAIN list : /\ list[i].cell = c /\ list[i].to = v
                               /\ \A j \in DOMAIN list : j > i => list[j].cell # c
  BY DEF Ends
<1>4. Written(t) = {t[j].cell : j \in DOMAIN t}
  BY DEF Written, ToSet
<1>5. CASE i = 1
  <2>1. \A j \in DOMAIN t : t[j].cell # c
    BY <1>2, <1>3, <1>5
  <2> QED
    BY <1>1, <1>2, <1>3, <1>4, <1>5, <2>1
<1>6. CASE i # 1
  <2>1. i - 1 \in DOMAIN t /\ t[i - 1] = list[i]
    BY <1>2, <1>6
  <2>2. \A j \in DOMAIN t : j > i - 1 => t[j].cell # c
    BY <1>2, <1>3, <1>6
  <2>3. Ends(t, c, v)
    BY <1>3, <2>1, <2>2 DEF Ends
  <2>4. c \in Written(t)
    BY <1>3, <1>4, <2>1
  <2> QED
    BY <1>1, <2>3, <2>4
<1> QED
  BY <1>5, <1>6

LEMMA LastLine ==
  ASSUME NEW list \in Seq(Writes), NEW c \in Written(list)
  PROVE  \E i \in DOMAIN list : list[i].cell = c /\ \A j \in DOMAIN list : j > i => list[j].cell # c
<1>1. PICK n \in Nat : n = Len(list) /\ DOMAIN list = 1 .. n
  OBVIOUS
<1>2. PICK S : S = {k \in 0 .. n : k < n /\ list[n - k].cell = c}
  OBVIOUS
<1>3. S \subseteq Nat /\ S # {}
  <2>1. PICK i \in DOMAIN list : list[i].cell = c
    BY DEF Written, ToSet
  <2>2. n - i \in 0 .. n /\ n - i < n /\ n - (n - i) = i
    BY <1>1, <2>1
  <2> QED
    BY <1>2, <2>1, <2>2
<1>4. PICK k \in S : \A m \in S : k <= m
  BY <1>3, First
<1>5. n - k \in DOMAIN list /\ list[n - k].cell = c
  BY <1>1, <1>2, <1>4
<1>6. ASSUME NEW j \in DOMAIN list, j > n - k, list[j].cell = c
      PROVE  FALSE
  <2>1. n - j \in 0 .. n /\ n - j < n /\ n - (n - j) = j
    BY <1>1, <1>6
  <2>2. n - j \in S
    BY <1>2, <1>6, <2>1
  <2>3. k <= n - j /\ k \in Nat /\ j \in Nat
    BY <1>1, <1>3, <1>4, <2>2
  <2> QED
    BY <1>1, <1>6, <2>3
<1> QED
  BY <1>5, <1>6

LEMMA FinalEnds ==
  ASSUME NEW s \in States, NEW c \in CellsOf(s)
  PROVE  Ends(Lines(s), c, FinalValue(s, c)) /\ FinalValue(s, c) \in Values
<1>1. PICK l : l = Lines(s) /\ l \in Seq(Writes) /\ c \in Written(l)
  BY StateParts
<1>2. \E i \in DOMAIN l : IsLast(s, c, i)
  BY <1>1, LastLine DEF IsLast
<1>3. PICK k : k = CHOOSE i \in DOMAIN l : IsLast(s, c, i)
  OBVIOUS
<1>4. k \in DOMAIN l /\ IsLast(s, c, k)
  BY <1>2, <1>3
<1>5. FinalValue(s, c) = l[k].to
  BY <1>1, <1>3 DEF FinalValue
<1>6. l[k] \in Writes
  BY <1>1, <1>4
<1> QED
  BY <1>1, <1>4, <1>5, <1>6 DEF IsLast, Ends, Writes

LEMMA TimelineEnds ==
  ASSUME NEW s \in States, NEW c \in Written(s.timelines)
  PROVE  Ends(s.timelines, c, FinalValue(s, c))
<1>1. PICK a, b, l, v : a = s.setters /\ b = s.timelines /\ l = a \o b /\ v = FinalValue(s, c)
  OBVIOUS
<1>2. a \in Seq(Writes) /\ b \in Seq(Writes) /\ c \in CellsOf(s) /\ Lines(s) = l
  BY <1>1, StateParts DEF Lines
<1>3. /\ Len(a) \in Nat /\ Len(b) \in Nat /\ DOMAIN b = 1 .. Len(b) /\ DOMAIN l = 1 .. Len(a) + Len(b)
      /\ \A j \in DOMAIN b : l[Len(a) + j] = b[j]
  <2>1. a \in Seq(Writes) /\ b \in Seq(Writes) /\ l = a \o b
    BY <1>1, <1>2
  <2> QED
    BY <2>1, JoinedStacks
<1>4. PICK i \in DOMAIN l : l[i].cell = c /\ l[i].to = v /\ \A j \in DOMAIN l : j > i => l[j].cell # c
  <2>1. Ends(l, c, v)
    BY <1>1, <1>2, FinalEnds
  <2> QED
    BY <2>1 DEF Ends
<1>5. PICK m \in DOMAIN b : b[m].cell = c
  BY <1>1 DEF Written, ToSet
<1>6. Len(a) + m \in DOMAIN l /\ l[Len(a) + m].cell = c
  BY <1>3, <1>5
<1>7. i >= Len(a) + m
  BY <1>3, <1>4, <1>5, <1>6
<1>8. PICK k \in DOMAIN b : i = Len(a) + k
  <2>1. i - Len(a) \in DOMAIN b /\ i = Len(a) + (i - Len(a))
    BY <1>3, <1>4, <1>5, <1>7
  <2> QED
    BY <2>1
<1>9. b[k].cell = c /\ b[k].to = v
  BY <1>3, <1>4, <1>8
<1>10. ASSUME NEW j \in DOMAIN b, j > k PROVE b[j].cell # c
  <2>1. Len(a) + j \in DOMAIN l /\ Len(a) + j > i /\ l[Len(a) + j] = b[j]
    BY <1>3, <1>8, <1>10
  <2> QED
    BY <1>4, <2>1
<1> QED
  BY <1>1, <1>9, <1>10 DEF Ends

-----------------------------------------------------------------------------
(* The frames of a change of state, and what becomes of the ongoing ones.  *)
LEMMA ChangeKinds ==
  ASSUME NEW f \in VFrames
  PROVE  /\ f.kind \in {"moved", "telling", "leaving", "stopping", "entering", "sampling"}
         /\ f.kind = "moved" => f.obj \in Objects /\ \E m \in Changes : f.list = <<m>>
         /\ f.kind = "telling" => /\ f.obj \in Objects /\ f.prop \in Props /\ f.phase = Whole /\ f.rest = {}
                                  /\ f.before \in MaybeValues /\ f.after \in MaybeValues /\ f.who = Metadata
         /\ f.kind \in {"leaving", "stopping"} => f \in Undoing
         /\ f.kind = "entering" => f \in Applying
         /\ f.kind = "sampling" => f \in Animating
BY DEF VFrames, Undoing, Applying, Animating, OneChange

LEMMA MovedMade ==
  \A o \in Objects, m \in Changes : Moved(o, <<m>>) \in VFrames /\ Moved(o, <<m>>).kind = "moved"
BY DEF VFrames, OneChange, Moved

LEMMA ChangesMade ==
  /\ \A o \in Objects, p \in Props, b, a \in MaybeValues :
        /\ Telling(o, p, b, a, Metadata, Whole, {}) \in VFrames
        /\ Telling(o, p, b, a, Metadata, Whole, {}).kind = "telling"
  /\ \A s, t \in States, l \in Seq(Cells) : t.group = s.group /\ ToSet(l) \subseteq CellsOf(s) =>
        /\ Leaving(s, t, l) \in VFrames /\ Leaving(s, t, l).kind = "leaving"
        /\ Leaving(s, t, l).state = s /\ Leaving(s, t, l).list = l
        /\ Stopping(s, t, l) \in VFrames /\ Stopping(s, t, l).kind = "stopping"
        /\ Stopping(s, t, l).state = s /\ Stopping(s, t, l).list = l
  /\ \A s \in States, l \in Seq(Writes) : Written(l) \subseteq CellsOf(s) =>
        /\ Entering(s, l) \in VFrames /\ Entering(s, l).kind = "entering"
        /\ Entering(s, l).state = s /\ Entering(s, l).list = l
  /\ \A s \in States, l \in Seq(Writes), done \in BOOLEAN : Written(l) \subseteq CellsOf(s) =>
        /\ Sampling(s, l, done) \in VFrames /\ Sampling(s, l, done).kind = "sampling"
        /\ Sampling(s, l, done).state = s /\ Sampling(s, l, done).list = l
<1>1. \A o \in Objects, p \in Props, b, a \in MaybeValues :
         /\ Telling(o, p, b, a, Metadata, Whole, {}) \in VFrames
         /\ Telling(o, p, b, a, Metadata, Whole, {}).kind = "telling"
  BY DEF VFrames, Telling
<1>2. ASSUME NEW s \in States, NEW t \in States, NEW l \in Seq(Cells),
             t.group = s.group, ToSet(l) \subseteq CellsOf(s)
      PROVE  /\ Leaving(s, t, l) \in VFrames /\ Leaving(s, t, l).kind = "leaving"
             /\ Leaving(s, t, l).state = s /\ Leaving(s, t, l).list = l
             /\ Stopping(s, t, l) \in VFrames /\ Stopping(s, t, l).kind = "stopping"
             /\ Stopping(s, t, l).state = s /\ Stopping(s, t, l).list = l
  BY <1>2 DEF VFrames, Undoing, Leaving, Stopping
<1>3. ASSUME NEW s \in States, NEW l \in Seq(Writes), Written(l) \subseteq CellsOf(s)
      PROVE  /\ Entering(s, l) \in VFrames /\ Entering(s, l).kind = "entering"
             /\ Entering(s, l).state = s /\ Entering(s, l).list = l
             /\ \A done \in BOOLEAN :
                   /\ Sampling(s, l, done) \in VFrames /\ Sampling(s, l, done).kind = "sampling"
                   /\ Sampling(s, l, done).state = s /\ Sampling(s, l, done).list = l
  BY <1>3 DEF VFrames, Applying, Animating, Entering, Sampling
<1> QED
  BY <1>1, <1>2, <1>3

LEMMA OngoingPush ==
  ASSUME NEW s \in Seq(VFrames), NEW e \in VFrames, NEW g, OneOf(s, g),
         Busy(e, g) => Ongoing(s, g) = {}
  PROVE  /\ <<e>> \o s \in Seq(VFrames) /\ OneOf(<<e>> \o s, g)
         /\ Ongoing(<<e>> \o s, g) = IF Busy(e, g) THEN {e} ELSE Ongoing(s, g)
<1>1. PICK t : t = <<e>> \o s
  OBVIOUS
<1>2. /\ t \in Seq(VFrames) /\ Len(s) \in Nat /\ DOMAIN s = 1 .. Len(s) /\ DOMAIN t = 1 .. Len(s) + 1
      /\ t[1] = e /\ \A i \in 1 .. Len(s) : t[i + 1] = s[i]
  BY <1>1
<1>3. \A i \in DOMAIN t : i = 1 \/ (i - 1 \in DOMAIN s /\ t[i] = s[i - 1])
  BY <1>2
<1>4. ToSet(t) = {e} \cup ToSet(s)
  BY <1>1, PushMember
<1>5. Ongoing(t, g) = IF Busy(e, g) THEN {e} ELSE Ongoing(s, g)
  BY <1>4 DEF Ongoing
<1>6. OneOf(t, g)
  <2> SUFFICES ASSUME NEW i \in DOMAIN t, NEW j \in DOMAIN t, Busy(t[i], g), Busy(t[j], g)
               PROVE  i = j
    BY DEF OneOf
  <2>1. ASSUME NEW k \in DOMAIN t, k # 1, Busy(t[k], g) PROVE ~Busy(e, g)
    <3>1. k - 1 \in DOMAIN s /\ Busy(s[k - 1], g)
      BY <1>3, <2>1
    <3> QED
      BY <3>1 DEF Ongoing, ToSet
  <2>2. CASE i = 1 \/ j = 1
    BY <1>2, <2>1, <2>2
  <2>3. CASE i # 1 /\ j # 1
    <3>1. i - 1 \in DOMAIN s /\ Busy(s[i - 1], g) /\ j - 1 \in DOMAIN s /\ Busy(s[j - 1], g)
      BY <1>3, <2>3
    <3>2. i - 1 = j - 1
      BY <3>1 DEF OneOf
    <3> QED
      BY <1>2, <3>2
  <2> QED
    BY <2>2, <2>3
<1> QED
  BY <1>1, <1>2, <1>5, <1>6

LEMMA OngoingPop ==
  ASSUME NEW s \in Seq(VFrames), s # <<>>, NEW g, OneOf(s, g)
  PROVE  /\ Tail(s) \in Seq(VFrames) /\ Head(s) \in VFrames /\ OneOf(Tail(s), g)
         /\ Busy(Head(s), g) => Head(s) \in Ongoing(s, g)
         /\ Ongoing(Tail(s), g) = IF Busy(Head(s), g) THEN {} ELSE Ongoing(s, g)
<1>1. PICK t, e : t = Tail(s) /\ e = Head(s)
  OBVIOUS
<1>2. /\ t \in Seq(VFrames) /\ e \in VFrames
      /\ Len(t) \in Nat /\ DOMAIN t = 1 .. Len(t) /\ DOMAIN s = 1 .. Len(t) + 1
      /\ s[1] = e /\ \A i \in 1 .. Len(t) : t[i] = s[i + 1]
  BY <1>1
<1>3. \A i \in DOMAIN t : i + 1 \in DOMAIN s /\ t[i] = s[i + 1] /\ i + 1 # 1 /\ 1 \in DOMAIN s
  BY <1>2
<1>4. ToSet(s) = {e} \cup ToSet(t)
  BY <1>1, PopMember
<1>5. OneOf(t, g)
  <2> SUFFICES ASSUME NEW i \in DOMAIN t, NEW j \in DOMAIN t, Busy(t[i], g), Busy(t[j], g)
               PROVE  i = j
    BY DEF OneOf
  <2>1. i + 1 = j + 1
    BY <1>3 DEF OneOf
  <2> QED
    BY <1>2, <2>1
<1>6. Busy(e, g) => Ongoing(t, g) = {}
  <2> SUFFICES ASSUME Busy(e, g), NEW i \in DOMAIN t, Busy(t[i], g) PROVE FALSE
    BY DEF Ongoing, ToSet
  <2>1. i + 1 = 1
    BY <1>2, <1>3 DEF OneOf
  <2> QED
    BY <1>3, <2>1
<1>7. e \in ToSet(s)
  BY <1>4
<1> QED
  BY <1>1, <1>2, <1>4, <1>5, <1>6, <1>7 DEF Ongoing

(* The frame on top goes on as another of the same state.                  *)
LEMMA OngoingNext ==
  ASSUME NEW s \in Seq(VFrames), s # <<>>, NEW e \in VFrames, NEW g, OneOf(s, g), Busy(e, g) <=> Busy(Head(s), g)
  PROVE  /\ <<e>> \o Tail(s) \in Seq(VFrames) /\ OneOf(<<e>> \o Tail(s), g)
         /\ Ongoing(<<e>> \o Tail(s), g) = IF Busy(e, g) THEN {e} ELSE Ongoing(s, g)
<1>1. PICK t : t = Tail(s)
  OBVIOUS
<1>2. t \in Seq(VFrames) /\ OneOf(t, g) /\ Ongoing(t, g) = IF Busy(Head(s), g) THEN {} ELSE Ongoing(s, g)
  BY <1>1, OngoingPop
<1>3. <<e>> \o t \in Seq(VFrames) /\ OneOf(<<e>> \o t, g)
      /\ Ongoing(<<e>> \o t, g) = IF Busy(e, g) THEN {e} ELSE Ongoing(t, g)
  BY <1>2, OngoingPush
<1> QED
  BY <1>1, <1>2, <1>3

-----------------------------------------------------------------------------
(* Writing one animated value.                                             *)
LEMMA SlotWritten ==
  ASSUME VType, NEW c \in Cells, NEW v \in Values, NEW rest, SetSlot(c, v, rest)
  PROVE  /\ value' = [value EXCEPT ![c] = v] /\ Slotted(value') /\ Tree(up') /\ registered' = <<>>
         /\ \E m \in VFrames : m.kind = "moved" /\ stack' = <<m>> \o rest
<1>1. c[1] \in Objects /\ c[2] \in Props /\ Effective(c[1], c[2]) \in Values
  BY CellParts, ReadTyped DEF VType, Effective
<1>2. PICK m : m = [prop |-> c[2], before |-> Effective(c[1], c[2])]
  OBVIOUS
<1>3. m \in Changes
  BY <1>1, <1>2 DEF Changes, MaybeValues
<1>4. /\ value' = [value EXCEPT ![c] = v] /\ UNCHANGED <<up, registered>>
      /\ stack' = (IF <<m>> = <<>> THEN <<>> ELSE <<Moved(c[1], <<m>>)>>) \o rest
  BY <1>2, OneAnnounced DEF SetSlot, Write
<1>5. <<m>> # <<>>
  OBVIOUS
<1>6. stack' = <<Moved(c[1], <<m>>)>> \o rest
  BY <1>4, <1>5
<1>7. \E n \in VFrames : n.kind = "moved" /\ stack' = <<n>> \o rest
  <2>1. Moved(c[1], <<m>>) \in VFrames /\ Moved(c[1], <<m>>).kind = "moved"
    BY <1>1, <1>3, MovedMade
  <2> QED
    BY <1>6, <2>1, Zenon
<1>8. Slotted(value') /\ Tree(up') /\ registered' = <<>>
  BY <1>4 DEF VType, Slotted, MaybeValues
<1> QED
  BY <1>4, <1>7, <1>8

LEMMA SlotCleared ==
  ASSUME VType, NEW c \in Cells, NEW rest, ClearSlot(c, rest)
  PROVE  /\ value' = [value EXCEPT ![c] = Unset] /\ Slotted(value') /\ Tree(up') /\ registered' = <<>>
         /\ \E m \in VFrames : m.kind = "moved" /\ stack' = <<m>> \o rest
<1>1. PICK m : m = [prop |-> c[2], before |-> value[c]]
  OBVIOUS
<1>2. m \in Changes /\ c[1] \in Objects
  BY <1>1, CellParts DEF Changes, VType, Slotted
<1>3. /\ value' = [value EXCEPT ![c] = Unset] /\ UNCHANGED <<up, registered>>
      /\ stack' = (IF <<m>> = <<>> THEN <<>> ELSE <<Moved(c[1], <<m>>)>>) \o rest
  BY <1>1 DEF ClearSlot, Write, Cleared
<1>4. <<m>> # <<>>
  OBVIOUS
<1>5. stack' = <<Moved(c[1], <<m>>)>> \o rest
  BY <1>3, <1>4
<1>6. \E n \in VFrames : n.kind = "moved" /\ stack' = <<n>> \o rest
  <2>1. Moved(c[1], <<m>>) \in VFrames /\ Moved(c[1], <<m>>).kind = "moved"
    BY <1>2, MovedMade
  <2> QED
    BY <1>5, <2>1, Zenon
<1>7. Slotted(value') /\ Tree(up') /\ registered' = <<>>
  BY <1>3 DEF VType, Slotted, MaybeValues
<1> QED
  BY <1>3, <1>6, <1>7

-----------------------------------------------------------------------------
(* A step of one group leaves the others as they are.                      *)
Spared(g) ==
    /\ current'[g] = current[g]
    /\ \A t \in States : t.group = g => /\ base'[t] = base[t]
                                        /\ \A c \in CellsOf(t) : value'[c] = value[c]
    /\ OneOf(stack', g) /\ Ongoing(stack', g) = Ongoing(stack, g)

LEMMA SparedKept ==
  ASSUME VType, NEW g \in Groups, GroupInv(g), Spared(g)
  PROVE  GroupInv(g)'
<1>1. ASSUME NEW kept PROVE Bare(g, kept)' <=> Bare(g, kept)
  BY DEF Spared, Bare
<1>2. ASSUME NEW s \in States, s.group = g, NEW list PROVE Applies(s, list)' <=> Applies(s, list)
  <2>1. Bare(s.group, CellsOf(s))' <=> Bare(s.group, CellsOf(s))
    BY <1>1, <1>2
  <2>2. base'[s] = base[s] /\ \A c \in CellsOf(s) : value'[c] = value[c]
    BY <1>2 DEF Spared
  <2> QED
    BY <2>1, <2>2 DEF Applies
<1>3. Forgets(g)'
  BY DEF GroupInv, Forgets, Spared
<1>4. ASSUME NEW f \in Ongoing(stack, g) PROVE InPlace(f)'
  <2>1. InPlace(f) /\ f.state.group = g
    BY DEF GroupInv, Ongoing, Busy
  <2>2. f.state \in States /\ f.kind \in {"leaving", "stopping", "entering", "sampling"}
    <3>1. f \in VFrames /\ f.kind \in {"leaving", "stopping", "entering", "sampling"}
      BY Members DEF VType, Ongoing, Busy
    <3> QED
      BY <3>1, ChangeKinds DEF Undoing, Applying, Animating
  <2>3. current'[f.state.group] = f.state
    BY <2>1 DEF InPlace, Spared
  <2> QED
    BY <1>1, <1>2, <2>1, <2>2, <2>3 DEF InPlace, ToClear
<1>5. AtRest(g) => AtRest(g)'
  <2>1. current[g] # NoState => current[g] \in States /\ current[g].group = g
    BY DEF VType
  <2>2. CASE current[g] = NoState
    BY <1>1, <2>2 DEF AtRest, Spared
  <2>3. CASE current[g] # NoState
    <3>1. PICK s : s = current[g]
      OBVIOUS
    <3>2. Applies(s, <<>>)' <=> Applies(s, <<>>)
      BY <1>2, <2>1, <2>3, <3>1
    <3>3. s # NoState /\ current'[g] = s
      BY <2>3, <3>1 DEF Spared
    <3> QED
      BY <3>1, <3>2, <3>3 DEF AtRest
  <2> QED
    BY <2>2, <2>3
<1> QED
  BY <1>3, <1>4, <1>5 DEF GroupInv, Spared

LEMMA ByGroup ==
  ASSUME StatesInv, VType', NEW s \in States, overlapped \subseteq overlapped',
         \A c \in Cells \ CellsOf(s) : value'[c] = value[c],
         \A t \in States : t.group # s.group => base'[t] = base[t],
         \A g \in Groups : g # s.group =>
             /\ current'[g] = current[g]
             /\ OneOf(stack, g) => OneOf(stack', g) /\ Ongoing(stack', g) = Ongoing(stack, g),
         s.group \notin overlapped' => GroupInv(s.group)'
  PROVE  StatesInv'
<1> SUFFICES ASSUME NEW g \in Groups, g \notin overlapped', g # s.group
             PROVE  GroupInv(g)'
  BY DEF StatesInv
<1>1. VType /\ GroupInv(g)
  BY DEF StatesInv
<1>2. \A t \in States : t.group = g => \A c \in CellsOf(t) : c \in Cells /\ c \notin CellsOf(s)
  BY GroupsApart, StateParts
<1>3. Spared(g)
  BY <1>1, <1>2 DEF Spared, GroupInv
<1> QED
  BY <1>1, <1>3, SparedKept

(* Nor does a step that is no change of state.                             *)
LEMMA NoGroup ==
  ASSUME StatesInv, VType', UNCHANGED visualVars,
         \A s \in States : \A c \in CellsOf(s) : value'[c] = value[c],
         \A g \in Groups : OneOf(stack, g) => OneOf(stack', g) /\ Ongoing(stack', g) = Ongoing(stack, g)
  PROVE  StatesInv'
<1> SUFFICES ASSUME NEW g \in Groups, g \notin overlapped
             PROVE  GroupInv(g)'
  BY DEF StatesInv, visualVars
<1>1. VType /\ GroupInv(g)
  BY DEF StatesInv
<1>2. Spared(g)
  BY <1>1 DEF Spared, GroupInv, visualVars
<1> QED
  BY <1>1, <1>2, SparedKept

(* One cell of the state on top is written, or none.                       *)
LEMMA Advances ==
  ASSUME StatesInv, stack # <<>>, NEW f, f = Head(stack), NEW e \in VFrames,
         f.kind \in {"leaving", "stopping", "entering", "sampling"}, e.kind = f.kind, e.state = f.state,
         \/ stack' = <<e>> \o Tail(stack)
         \/ \E m \in VFrames : m.kind = "moved" /\ stack' = <<m>> \o (<<e>> \o Tail(stack)),
         Slotted(value'), Tree(up'), registered' = <<>>, UNCHANGED <<current, overlapped>>,
         DOMAIN base' = States, \A t \in States : base'[t] \in [CellsOf(t) -> MaybeValues],
         \A c \in Cells \ CellsOf(f.state) : value'[c] = value[c],
         \A t \in States \ {f.state} : base'[t] = base[t],
         f.state.group \notin overlapped /\ InPlace(f) => InPlace(e)'
  PROVE  StatesInv'
<1>1. VType
  BY DEF StatesInv
<1>2. f \in VFrames /\ f.state \in States
  <2>1. f \in VFrames
    BY <1>1 DEF VType
  <2> QED
    BY <2>1, ChangeKinds DEF Undoing, Applying, Animating
<1>3. \A g : Busy(e, g) <=> Busy(f, g)
  BY DEF Busy
<1>4. ASSUME NEW g, OneOf(stack, g)
      PROVE  /\ stack' \in Seq(VFrames) /\ OneOf(stack', g)
             /\ Ongoing(stack', g) = IF Busy(f, g) THEN {e} ELSE Ongoing(stack, g)
  <2>1. PICK t : t = <<e>> \o Tail(stack)
    OBVIOUS
  <2>2. /\ t \in Seq(VFrames) /\ OneOf(t, g)
        /\ Ongoing(t, g) = IF Busy(f, g) THEN {e} ELSE Ongoing(stack, g)
    BY <1>1, <1>3, <1>4, <2>1, OngoingNext DEF VType
  <2>3. CASE stack' = t
    BY <2>2, <2>3
  <2>4. CASE \E m \in VFrames : m.kind = "moved" /\ stack' = <<m>> \o t
    <3>1. PICK m \in VFrames : m.kind = "moved" /\ stack' = <<m>> \o t
      BY <2>4
    <3>2. ~Busy(m, g)
      BY <3>1 DEF Busy
    <3> QED
      BY <2>2, <3>1, <3>2, OngoingPush
  <2> QED
    BY <2>1, <2>3, <2>4
<1>5. stack' \in Seq(VFrames)
  <2>1. PICK t : t = Tail(stack)
    OBVIOUS
  <2>2. t \in Seq(VFrames)
    BY <1>1, <2>1 DEF VType
  <2>3. <<e>> \o t \in Seq(VFrames)
    BY <2>2, PushMember
  <2> QED
    BY <2>1, <2>3, PushMember
<1>6. VType'
  BY <1>1, <1>5 DEF VType
<1>7. ASSUME f.state.group \notin overlapped' PROVE GroupInv(f.state.group)'
  <2>1. PICK g \in Groups : g = f.state.group
    BY <1>2, StateParts
  <2>2. GroupInv(g) /\ g \notin overlapped /\ Busy(f, g)
    BY <1>7, <2>1 DEF StatesInv, Busy
  <2>3. f \in Ongoing(stack, g)
    BY <1>1, <2>2, OngoingPop DEF VType, GroupInv
  <2>4. OneOf(stack', g) /\ Ongoing(stack', g) = {e}
    BY <1>4, <2>2 DEF GroupInv
  <2>5. InPlace(e)'
    BY <2>1, <2>2, <2>3 DEF GroupInv
  <2>6. Forgets(g)'
    <3>1. current[g] = f.state
      BY <2>1, <2>2, <2>3 DEF GroupInv, InPlace
    <3> QED
      BY <2>2, <3>1 DEF GroupInv, Forgets
  <2> QED
    BY <2>1, <2>4, <2>5, <2>6 DEF GroupInv
<1>8. \A g \in Groups : g # f.state.group =>
         (OneOf(stack, g) => OneOf(stack', g) /\ Ongoing(stack', g) = Ongoing(stack, g))
  <2> SUFFICES ASSUME NEW g \in Groups, g # f.state.group, OneOf(stack, g)
               PROVE  OneOf(stack', g) /\ Ongoing(stack', g) = Ongoing(stack, g)
    OBVIOUS
  <2> QED
    BY <1>4 DEF Busy
<1> QED
  BY <1>2, <1>6, <1>7, <1>8, ByGroup

-----------------------------------------------------------------------------
(* The steps.                                                              *)
(* A line is written: the rest of the list is to be written still.         *)
LEMMA LineApplied ==
  ASSUME VType, NEW s \in States, NEW list \in Seq(Writes), list # <<>>, Written(list) \subseteq CellsOf(s),
         Applies(s, list), NEW l, l = Head(list), NEW v, v \in {l.to, base'[s][l.cell]} \ {Unset},
         l.cell \in Cells, value' = [value EXCEPT ![l.cell] = v],
         \A c \in CellsOf(s) \ {l.cell} : base'[s][c] = base[s][c]
  PROVE  Applies(s, Tail(list))'
<1>1. PICK t : t = Tail(list)
  OBVIOUS
<1>2. Written(list) = {l.cell} \cup Written(t)
  BY <1>1, WrittenTail
<1>3. l.cell \in CellsOf(s)
  BY <1>2
<1>4. /\ value'[l.cell] = v /\ \A c \in Cells \ {l.cell} : value'[c] = value[c]
  BY DEF VType, Slotted
<1>5. Bare(s.group, CellsOf(s))'
  BY <1>3, <1>4 DEF Applies, Bare
<1>6. ASSUME NEW c \in CellsOf(s), c \in Written(t)
      PROVE  Ends(t, c, FinalValue(s, c))
  <2>1. Ends(list, c, FinalValue(s, c))
    BY <1>2, <1>6 DEF Applies
  <2> QED
    BY <1>1, <1>6, <2>1, EndsTail
<1>7. ASSUME NEW c \in CellsOf(s), c \notin Written(t)
      PROVE  value'[c] \in {FinalValue(s, c), base'[s][c]} \ {Unset}
  <2>1. CASE c = l.cell
    <3>1. Ends(list, c, FinalValue(s, c))
      BY <1>2, <2>1 DEF Applies
    <3>2. l.to = FinalValue(s, c)
      BY <1>1, <1>7, <3>1, EndsTail
    <3> QED
      BY <1>4, <2>1, <3>2
  <2>2. CASE c # l.cell
    <3>1. c \notin Written(list) /\ c \in Cells
      BY <1>2, <1>7, <2>2, StateParts
    <3>2. value[c] \in {FinalValue(s, c), base[s][c]} \ {Unset}
      BY <3>1 DEF Applies
    <3> QED
      BY <1>4, <2>2, <3>1, <3>2
  <2> QED
    BY <2>1, <2>2
<1>8. Applies(s, t)'
  BY <1>5, <1>6, <1>7 DEF Applies
<1> QED
  BY <1>1, <1>8

LEMMA ClearNextStep ==
  ASSUME StatesInv, ClearNext
  PROVE  StatesInv'
<1>1. VType /\ stack # <<>> /\ Head(stack).kind \in {"leaving", "stopping"} /\ Head(stack).list # <<>>
  BY DEF StatesInv, ClearNext, Doing
<1>2. PICK f : /\ f = Head(stack) /\ f \in VFrames /\ f.kind \in {"leaving", "stopping"}
               /\ f \in Undoing /\ f.list # <<>>
  <2>1. Head(stack) \in VFrames
    BY <1>1 DEF VType
  <2> QED
    BY <1>1, <2>1, ChangeKinds
<1>3. PICK list, c, t : list = f.list /\ c = Head(list) /\ t = Tail(list)
  OBVIOUS
<1>4. /\ f.state \in States /\ f.next \in States /\ f.next.group = f.state.group
      /\ list \in Seq(Cells) /\ list # <<>> /\ ToSet(list) \subseteq CellsOf(f.state)
  BY <1>2, <1>3 DEF Undoing
<1>5. t \in Seq(Cells) /\ c \in Cells /\ ToSet(list) = {c} \cup ToSet(t)
  BY <1>3, <1>4, PopMember
<1>6. PICK e : e = [f EXCEPT !.list = t]
  OBVIOUS
<1>7. e.kind = f.kind /\ e.state = f.state /\ e.list = t /\ e \in VFrames
  <2>1. e \in Undoing /\ e.list = t /\ e.state = f.state /\ e.kind = f.kind
    BY <1>2, <1>4, <1>5, <1>6 DEF Undoing
  <2> QED
    BY <2>1 DEF VFrames, Undoing
<1>8. PICK rest : rest = <<e>> \o Tail(stack)
  OBVIOUS
<1>9. /\ UNCHANGED visualVars
      /\ \/ value[c] # Unset /\ ClearSlot(c, rest)
         \/ value[c] = Unset /\ stack' = rest /\ UNCHANGED storeVars
  BY <1>2, <1>3, <1>6, <1>8 DEF ClearNext
<1>10. /\ Slotted(value') /\ Tree(up') /\ registered' = <<>>
       /\ value'[c] = Unset /\ \A d \in Cells \ {c} : value'[d] = value[d]
       /\ stack' = rest \/ \E m \in VFrames : m.kind = "moved" /\ stack' = <<m>> \o rest
  <2>1. CASE value[c] # Unset /\ ClearSlot(c, rest)
    <3>1. /\ value' = [value EXCEPT ![c] = Unset] /\ Slotted(value') /\ Tree(up') /\ registered' = <<>>
          /\ \E m \in VFrames : m.kind = "moved" /\ stack' = <<m>> \o rest
      BY <1>1, <1>5, <2>1, SlotCleared
    <3>2. value'[c] = Unset /\ \A d \in Cells \ {c} : value'[d] = value[d]
      BY <1>1, <1>5, <3>1 DEF VType, Slotted
    <3> QED
      BY <3>1, <3>2
  <2>2. CASE value[c] = Unset /\ stack' = rest /\ UNCHANGED storeVars
    BY <1>1, <2>2 DEF storeVars, VType
  <2> QED
    BY <1>9, <2>1, <2>2
<1>11. ASSUME InPlace(f) PROVE InPlace(e)'
  <2>1. ToClear(f) \subseteq {c} \cup ToClear(e)
    BY <1>3, <1>5, <1>7 DEF ToClear
  <2>2. Bare(f.state.group, ToClear(e))'
    <3>1. Bare(f.state.group, ToClear(f))
      BY <1>2, <1>11 DEF InPlace
    <3> QED
      BY <1>10, <2>1, <3>1 DEF Bare
  <2>3. current'[f.state.group] = f.state
    BY <1>9, <1>11 DEF InPlace, visualVars
  <2> QED
    BY <1>2, <1>7, <2>2, <2>3 DEF InPlace
<1>12. UNCHANGED <<current, overlapped>> /\ base' = base /\ DOMAIN base = States
       /\ \A s \in States : base[s] \in [CellsOf(s) -> MaybeValues]
  BY <1>1, <1>9 DEF visualVars, VType
<1>13. \A d \in Cells \ CellsOf(f.state) : value'[d] = value[d]
  BY <1>4, <1>5, <1>10
<1> QED
  BY <1>1, <1>2, <1>7, <1>8, <1>10, <1>11, <1>12, <1>13, Advances

LEMMA ApplySetterStep ==
  ASSUME StatesInv, ApplySetter
  PROVE  StatesInv'
<1>1. VType /\ stack # <<>> /\ Head(stack).kind = "entering" /\ Head(stack).list # <<>>
  BY DEF StatesInv, ApplySetter, Doing
<1>2. PICK f : f = Head(stack) /\ f \in VFrames /\ f.kind = "entering" /\ f \in Applying /\ f.list # <<>>
  <2>1. Head(stack) \in VFrames
    BY <1>1 DEF VType
  <2> QED
    BY <1>1, <2>1, ChangeKinds
<1>3. PICK list, l, t : list = f.list /\ l = Head(list) /\ t = Tail(list)
  OBVIOUS
<1>4. /\ f.state \in States /\ list \in Seq(Writes) /\ list # <<>> /\ Written(list) \subseteq CellsOf(f.state)
  BY <1>2, <1>3 DEF Applying
<1>5. /\ t \in Seq(Writes) /\ l \in Writes /\ l.cell \in Cells /\ l.to \in Values
      /\ Written(list) = {l.cell} \cup Written(t)
  <2>1. t \in Seq(Writes) /\ l \in Writes
    BY <1>3, <1>4, PopMember
  <2>2. Written(list) = {l.cell} \cup Written(t)
    BY <1>3, <1>4, WrittenTail
  <2> QED
    BY <2>1, <2>2 DEF Writes
<1>6. PICK e : e = [f EXCEPT !.list = t]
  OBVIOUS
<1>7. e.kind = "entering" /\ e.state = f.state /\ e.list = t /\ e \in VFrames
  <2>1. e \in Applying /\ e.list = t /\ e.state = f.state
    BY <1>2, <1>4, <1>5, <1>6 DEF Applying
  <2> QED
    BY <2>1 DEF VFrames, Applying
<1>8. PICK rest : rest = <<e>> \o Tail(stack)
  OBVIOUS
<1>9. UNCHANGED visualVars /\ SetSlot(l.cell, l.to, rest)
  BY <1>2, <1>3, <1>6, <1>8 DEF ApplySetter
<1>10. /\ value' = [value EXCEPT ![l.cell] = l.to] /\ Slotted(value') /\ Tree(up') /\ registered' = <<>>
       /\ \E m \in VFrames : m.kind = "moved" /\ stack' = <<m>> \o rest
  BY <1>1, <1>5, <1>9, SlotWritten
<1>11. \A d \in Cells \ {l.cell} : value'[d] = value[d]
  BY <1>1, <1>10 DEF VType, Slotted
<1>12. UNCHANGED <<current, overlapped>> /\ base' = base /\ DOMAIN base = States
       /\ \A s \in States : base[s] \in [CellsOf(s) -> MaybeValues]
  BY <1>1, <1>9 DEF visualVars, VType
<1>13. ASSUME InPlace(f) PROVE InPlace(e)'
  <2>1. PICK s, more : s = f.state /\ more = s.timelines
    OBVIOUS
  <2>2. s \in States /\ more \in Seq(Writes) /\ Written(more) \subseteq CellsOf(s)
    BY <1>4, <2>1, StateParts
  <2>3. PICK all : all = list \o more
    OBVIOUS
  <2>4. all \in Seq(Writes) /\ all # <<>> /\ Head(all) = l /\ Tail(all) = t \o more
    <3>1. /\ list \o more \in Seq(Writes) /\ list \o more # <<>>
          /\ Head(list \o more) = Head(list) /\ Tail(list \o more) = Tail(list) \o more
      BY <1>4, <2>2, ListPopped, Zenon
    <3> QED
      BY <1>3, <2>3, <3>1, Zenon
  <2>5. Written(all) \subseteq CellsOf(s)
    <3>1. \A i \in DOMAIN all : all[i].cell \in Written(list) \cup Written(more)
      <4>1. \A i \in DOMAIN all : \/ \E j \in DOMAIN list : all[i] = list[j]
                                  \/ \E j \in DOMAIN more : all[i] = more[j]
        <5> SUFFICES ASSUME NEW i \in DOMAIN all
                     PROVE  \/ i \in DOMAIN list /\ all[i] = list[i]
                            \/ i - Len(list) \in DOMAIN more /\ all[i] = more[i - Len(list)]
          OBVIOUS
        <5>1. /\ Len(list) \in Nat /\ Len(more) \in Nat /\ DOMAIN list = 1 .. Len(list)
              /\ DOMAIN more = 1 .. Len(more) /\ DOMAIN all = 1 .. Len(list) + Len(more)
              /\ \A k \in DOMAIN list : all[k] = list[k]
              /\ \A k \in DOMAIN more : all[Len(list) + k] = more[k]
          BY <1>4, <2>2, <2>3, JoinedStacks
        <5> QED
          BY <5>1
      <4> QED
        BY <4>1 DEF Written, ToSet
    <3> QED
      BY <1>4, <2>1, <2>2, <3>1 DEF Written, ToSet
  <2>6. Applies(s, all)
    BY <1>2, <1>3, <1>13, <2>1, <2>3 DEF InPlace
  <2>7. l.to # Unset
    BY <1>5, SlotAssumption
  <2>8. PICK more2 : more2 = Tail(all)
    OBVIOUS
  <2>9. Applies(s, more2)'
    BY <1>1, <1>5, <1>10, <1>12, <2>2, <2>4, <2>5, <2>6, <2>7, <2>8, LineApplied
  <2>10. Applies(s, t \o more)'
    BY <2>4, <2>8, <2>9
  <2>11. current'[f.state.group] = f.state
    BY <1>12, <1>13 DEF InPlace
  <2> QED
    BY <1>7, <2>1, <2>10, <2>11 DEF InPlace
<1>14. \A d \in Cells \ CellsOf(f.state) : value'[d] = value[d]
  BY <1>4, <1>5, <1>11
<1> QED
  BY <1>1, <1>2, <1>7, <1>8, <1>10, <1>12, <1>13, <1>14, Advances

(* Sample: the value held is the base, read now or before.                 *)
LEMMA SampleNextStep ==
  ASSUME StatesInv, SampleNext
  PROVE  StatesInv'
<1>1. VType /\ stack # <<>> /\ Head(stack).kind = "sampling" /\ Head(stack).list # <<>>
  BY DEF StatesInv, SampleNext, Doing
<1>2. PICK f : f = Head(stack) /\ f \in VFrames /\ f.kind = "sampling" /\ f \in Animating /\ f.list # <<>>
  <2>1. Head(stack) \in VFrames
    BY <1>1 DEF VType
  <2> QED
    BY <1>1, <2>1, ChangeKinds
<1>3. PICK s, list, l, t : s = f.state /\ list = f.list /\ l = Head(list) /\ t = Tail(list)
  OBVIOUS
<1>4. s \in States /\ list \in Seq(Writes) /\ list # <<>> /\ Written(list) \subseteq CellsOf(s)
  BY <1>2, <1>3 DEF Animating
<1>5. /\ t \in Seq(Writes) /\ l.cell \in Cells /\ l.to \in Values /\ l.cell \in CellsOf(s)
      /\ Written(list) = {l.cell} \cup Written(t)
  <2>1. t \in Seq(Writes) /\ l \in Writes
    BY <1>3, <1>4, PopMember
  <2>2. Written(list) = {l.cell} \cup Written(t)
    BY <1>3, <1>4, WrittenTail
  <2> QED
    BY <1>4, <2>1, <2>2 DEF Writes
<1>6. PICK e : e = [f EXCEPT !.list = t]
  OBVIOUS
<1>7. e.kind = "sampling" /\ e.state = s /\ e.list = t /\ e \in VFrames
  <2>1. e \in Animating /\ e.list = t /\ e.state = s
    BY <1>2, <1>3, <1>4, <1>5, <1>6 DEF Animating
  <2> QED
    BY <2>1 DEF VFrames, Animating
<1>8. PICK from, v : /\ from = IF base[s][l.cell] # Unset THEN base[s][l.cell] ELSE Effective(l.cell[1], l.cell[2])
                     /\ v = IF f.done THEN l.to ELSE from
  OBVIOUS
<1>9. from \in Values
  <2>1. Effective(l.cell[1], l.cell[2]) \in Values
    BY <1>1, <1>5, CellParts, ReadTyped DEF VType, Effective
  <2>2. base[s][l.cell] \in MaybeValues
    BY <1>1, <1>4, <1>5 DEF VType
  <2> QED
    BY <1>8, <2>1, <2>2 DEF MaybeValues
<1>10. v \in Values /\ v # Unset
  BY <1>5, <1>8, <1>9, SlotAssumption
<1>11. PICK rest : rest = <<e>> \o Tail(stack)
  OBVIOUS
<1>12. UNCHANGED <<current, overlapped>> /\ base' = [base EXCEPT ![s][l.cell] = from] /\ SetSlot(l.cell, v, rest)
  BY <1>2, <1>3, <1>6, <1>8, <1>11 DEF SampleNext
<1>13. /\ value' = [value EXCEPT ![l.cell] = v] /\ Slotted(value') /\ Tree(up') /\ registered' = <<>>
       /\ \E m \in VFrames : m.kind = "moved" /\ stack' = <<m>> \o rest
  BY <1>1, <1>5, <1>10, <1>12, SlotWritten
<1>14. \A d \in Cells \ {l.cell} : value'[d] = value[d]
  BY <1>1, <1>13 DEF VType, Slotted
<1>15. /\ DOMAIN base' = States /\ \A r \in States \ {s} : base'[r] = base[r]
       /\ base'[s] = [base[s] EXCEPT ![l.cell] = from]
  BY <1>1, <1>4, <1>12 DEF VType
<1>16. base'[s][l.cell] = from /\ \A c \in CellsOf(s) \ {l.cell} : base'[s][c] = base[s][c]
  BY <1>1, <1>4, <1>5, <1>15 DEF VType
<1>17. \A r \in States : base'[r] \in [CellsOf(r) -> MaybeValues]
  <2>1. base'[s] \in [CellsOf(s) -> MaybeValues]
    BY <1>1, <1>4, <1>9, <1>15 DEF VType, MaybeValues
  <2> QED
    BY <1>1, <1>15, <2>1 DEF VType
<1>18. ASSUME InPlace(f) PROVE InPlace(e)'
  <2>1. Applies(s, list)
    BY <1>2, <1>3, <1>18 DEF InPlace
  <2>2. v \in {l.to, base'[s][l.cell]} \ {Unset}
    BY <1>8, <1>10, <1>16
  <2>3. Applies(s, t)'
    BY <1>1, <1>3, <1>4, <1>5, <1>13, <1>16, <2>1, <2>2, LineApplied
  <2>4. current'[s.group] = s
    BY <1>3, <1>12, <1>18 DEF InPlace
  <2> QED
    BY <1>7, <2>3, <2>4 DEF InPlace
<1>19. \A d \in Cells \ CellsOf(s) : value'[d] = value[d]
  BY <1>5, <1>14
<1>20. e.kind = f.kind /\ e.state = f.state
  BY <1>2, <1>3, <1>7
<1>21. \E m \in VFrames : m.kind = "moved" /\ stack' = <<m>> \o (<<e>> \o Tail(stack))
  BY <1>11, <1>13
<1>22. /\ \A d \in Cells \ CellsOf(f.state) : value'[d] = value[d]
       /\ \A r \in States \ {f.state} : base'[r] = base[r]
  BY <1>3, <1>15, <1>19
<1>23. /\ Slotted(value') /\ Tree(up') /\ registered' = <<>> /\ UNCHANGED <<current, overlapped>>
       /\ DOMAIN base' = States /\ e \in VFrames
  BY <1>7, <1>12, <1>13, <1>15
<1>24. f = Head(stack) /\ f.kind \in {"leaving", "stopping", "entering", "sampling"} /\ stack # <<>>
  BY <1>1, <1>2
<1> QED
  BY <1>17, <1>18, <1>20, <1>21, <1>22, <1>23, <1>24, Advances

(* A state whose group animates nothing yet has all its lines to write.    *)
LEMMA StateBegins ==
  ASSUME NEW s \in States, Bare(s.group, {}), value' = value
  PROVE  Applies(s, s.setters \o s.timelines)'
<1>1. PICK l : l = Lines(s) /\ l = s.setters \o s.timelines
  BY DEF Lines
<1>2. \A c \in CellsOf(s) : c \in Written(l) /\ Ends(l, c, FinalValue(s, c))
  BY <1>1, StateParts, FinalEnds
<1>3. Bare(s.group, CellsOf(s))'
  BY DEF Bare
<1>4. Applies(s, l)'
  BY <1>2, <1>3 DEF Applies
<1> QED
  BY <1>1, <1>4

(* The state current by now is the one that was left, unless they overlap. *)
LEMMA StopStoryboardStep ==
  ASSUME StatesInv, StopStoryboard
  PROVE  StatesInv'
<1>1. VType /\ stack # <<>> /\ Head(stack).kind = "leaving" /\ Head(stack).list = <<>>
  BY DEF StatesInv, StopStoryboard, Doing
<1>2. PICK f : f = Head(stack) /\ f \in VFrames /\ f.kind = "leaving" /\ f \in Undoing /\ f.list = <<>>
  <2>1. Head(stack) \in VFrames
    BY <1>1 DEF VType
  <2> QED
    BY <1>1, <2>1, ChangeKinds
<1>3. PICK g, now : g = f.state.group /\ now = current[g]
  OBVIOUS
<1>4. f.state \in States /\ g \in Groups /\ f.next \in States /\ f.next.group = g
  BY <1>2, <1>3, StateParts DEF Undoing
<1>5. now \in States /\ now.group = g
  BY <1>1, <1>2, <1>3, <1>4 DEF StopStoryboard, VType
<1>6. PICK u : u = Stopped(now)
  OBVIOUS
<1>7. u \in Seq(Cells) /\ ToSet(u) = Written(now.timelines) /\ ToSet(u) \subseteq CellsOf(now)
  <2>1. now.timelines \in Seq(Writes) /\ Written(now.timelines) \subseteq CellsOf(now)
    BY <1>5, StateParts
  <2> QED
    BY <1>6, <2>1, CellsListed DEF Stopped
<1>8. PICK e : e = Stopping(now, f.next, u)
  OBVIOUS
<1>9. e \in VFrames /\ e.kind = "stopping" /\ e.state = now /\ e.list = u
  BY <1>4, <1>5, <1>7, <1>8, ChangesMade
<1>10. PICK rest : rest = <<e>> \o Tail(stack)
  OBVIOUS
<1>11. stack' = rest /\ UNCHANGED <<storeVars, visualVars>>
  BY <1>2, <1>3, <1>6, <1>8, <1>10 DEF StopStoryboard
<1>12. value' = value /\ up' = up /\ registered' = registered /\ UNCHANGED <<current, base, overlapped>>
  BY <1>11 DEF storeVars, visualVars
<1>13. \A h : Busy(e, h) <=> Busy(f, h)
  BY <1>2, <1>3, <1>5, <1>9 DEF Busy
<1>14. \A h : OneOf(stack, h) => /\ OneOf(stack', h)
                                 /\ Ongoing(stack', h) = IF Busy(f, h) THEN {e} ELSE Ongoing(stack, h)
  BY <1>1, <1>2, <1>9, <1>10, <1>11, <1>13, OngoingNext DEF VType
<1>15. VType'
  <2>1. stack' \in Seq(VFrames)
    <3>1. PICK t : t = Tail(stack)
      OBVIOUS
    <3>2. t \in Seq(VFrames)
      BY <1>1, <3>1 DEF VType
    <3> QED
      BY <1>9, <1>10, <1>11, <3>1, <3>2, PushMember
  <2> QED
    BY <1>1, <1>12, <2>1 DEF VType
<1>16. ASSUME g \notin overlapped' PROVE GroupInv(g)'
  <2>1. GroupInv(g) /\ Busy(f, g)
    BY <1>2, <1>3, <1>4, <1>12, <1>16 DEF StatesInv, Busy
  <2>2. f \in Ongoing(stack, g)
    BY <1>1, <1>2, <2>1, OngoingPop DEF VType, GroupInv
  <2>3. OneOf(stack', g) /\ Ongoing(stack', g) = {e}
    BY <1>14, <2>1 DEF GroupInv
  <2>4. now = f.state /\ Bare(g, ToClear(f))
    BY <1>2, <1>3, <2>1, <2>2 DEF GroupInv, InPlace
  <2>5. ToClear(f) = ToClear(e)
    BY <1>2, <1>7, <1>9, <2>4 DEF ToClear, ToSet
  <2>6. Bare(g, ToClear(e))'
    BY <1>12, <2>4, <2>5 DEF Bare
  <2>7. InPlace(e)'
    BY <1>3, <1>5, <1>9, <1>12, <2>6 DEF InPlace
  <2>8. Forgets(g)'
    BY <1>12, <2>1 DEF GroupInv, Forgets
  <2> QED
    BY <2>3, <2>7, <2>8 DEF GroupInv
<1>17. \A h \in Groups : h # g =>
          (OneOf(stack, h) => OneOf(stack', h) /\ Ongoing(stack', h) = Ongoing(stack, h))
  BY <1>2, <1>3, <1>14 DEF Busy
<1> QED
  BY <1>3, <1>4, <1>12, <1>15, <1>16, <1>17, ByGroup

LEMMA LeftStep ==
  ASSUME StatesInv, Left
  PROVE  StatesInv'
<1>1. VType /\ stack # <<>> /\ Head(stack).kind = "stopping" /\ Head(stack).list = <<>>
  BY DEF StatesInv, Left, Doing
<1>2. PICK f : f = Head(stack) /\ f \in VFrames /\ f.kind = "stopping" /\ f \in Undoing /\ f.list = <<>>
  <2>1. Head(stack) \in VFrames
    BY <1>1 DEF VType
  <2> QED
    BY <1>1, <2>1, ChangeKinds
<1>3. PICK old, new, g : old = f.state /\ new = f.next /\ g = new.group
  OBVIOUS
<1>4. old \in States /\ new \in States /\ old.group = g /\ new.group = g /\ g \in Groups
  BY <1>2, <1>3, StateParts DEF Undoing
<1>5. PICK e : e = Entering(new, new.setters)
  OBVIOUS
<1>6. e \in VFrames /\ e.kind = "entering" /\ e.state = new /\ e.list = new.setters
  BY <1>4, <1>5, StateParts, ChangesMade
<1>7. PICK rest : rest = <<e>> \o Tail(stack)
  OBVIOUS
<1>8. /\ base' = [base EXCEPT ![old] = [c \in CellsOf(old) |-> Unset]]
      /\ current' = [current EXCEPT ![g] = new] /\ stack' = rest
      /\ UNCHANGED <<storeVars, overlapped>>
  BY <1>2, <1>3, <1>5, <1>7 DEF Left, Forgotten, Enter
<1>9. value' = value /\ up' = up /\ registered' = registered
  BY <1>8 DEF storeVars
<1>10. \A h : Busy(e, h) <=> Busy(f, h)
  BY <1>2, <1>3, <1>4, <1>6 DEF Busy
<1>11. \A h : OneOf(stack, h) => /\ OneOf(stack', h)
                                 /\ Ongoing(stack', h) = IF Busy(f, h) THEN {e} ELSE Ongoing(stack, h)
  BY <1>1, <1>2, <1>6, <1>7, <1>8, <1>10, OngoingNext DEF VType
<1>12. /\ DOMAIN base' = States /\ base'[old] = [c \in CellsOf(old) |-> Unset]
       /\ \A t \in States \ {old} : base'[t] = base[t]
  BY <1>1, <1>4, <1>8 DEF VType
<1>13. current'[g] = new /\ \A h \in Groups \ {g} : current'[h] = current[h]
  BY <1>1, <1>4, <1>8 DEF VType
<1>14. VType'
  <2>1. stack' \in Seq(VFrames)
    <3>1. PICK t : t = Tail(stack)
      OBVIOUS
    <3>2. t \in Seq(VFrames)
      BY <1>1, <3>1 DEF VType
    <3> QED
      BY <1>6, <1>7, <1>8, <3>1, <3>2, PushMember
  <2>2. current' \in [Groups -> States \cup {NoState}]
    BY <1>1, <1>4, <1>8 DEF VType
  <2>3. \A h \in Groups : current'[h] # NoState => current'[h].group = h
    BY <1>1, <1>4, <1>13 DEF VType
  <2>4. \A t \in States : base'[t] \in [CellsOf(t) -> MaybeValues]
    BY <1>1, <1>12 DEF VType, MaybeValues
  <2> QED
    BY <1>1, <1>8, <1>9, <1>12, <2>1, <2>2, <2>3, <2>4 DEF VType
<1>15. ASSUME g \notin overlapped' PROVE GroupInv(g)'
  <2>1. GroupInv(g) /\ Busy(f, g)
    BY <1>2, <1>3, <1>4, <1>8, <1>15 DEF StatesInv, Busy
  <2>2. f \in Ongoing(stack, g)
    BY <1>1, <1>2, <2>1, OngoingPop DEF VType, GroupInv
  <2>3. OneOf(stack', g) /\ Ongoing(stack', g) = {e}
    BY <1>11, <2>1 DEF GroupInv
  <2>4. current[g] = old /\ Bare(g, {})
    <3>1. ToClear(f) = {}
      BY <1>2 DEF ToSet, ToClear
    <3> QED
      BY <1>2, <1>3, <1>4, <2>1, <2>2, <3>1 DEF GroupInv, InPlace
  <2>5. Forgets(g)'
    BY <1>4, <1>12, <1>13, <2>1, <2>4 DEF GroupInv, Forgets
  <2>6. InPlace(e)'
    <3>1. Applies(new, new.setters \o new.timelines)'
      BY <1>4, <1>9, <2>4, StateBegins
    <3> QED
      BY <1>4, <1>6, <1>13, <3>1 DEF InPlace
  <2> QED
    BY <2>3, <2>5, <2>6 DEF GroupInv
<1>16. \A h \in Groups : h # g =>
          /\ current'[h] = current[h]
          /\ OneOf(stack, h) => OneOf(stack', h) /\ Ongoing(stack', h) = Ongoing(stack, h)
  BY <1>2, <1>3, <1>4, <1>11, <1>13 DEF Busy
<1>17. \A t \in States : t.group # new.group => base'[t] = base[t]
  BY <1>4, <1>12
<1> QED
  BY <1>4, <1>8, <1>9, <1>14, <1>15, <1>16, <1>17, ByGroup

LEMMA EnteredStep ==
  ASSUME StatesInv, Entered
  PROVE  StatesInv'
<1>1. VType /\ stack # <<>> /\ Head(stack).kind = "entering" /\ Head(stack).list = <<>>
  BY DEF StatesInv, Entered, Doing
<1>2. PICK f : f = Head(stack) /\ f \in VFrames /\ f.kind = "entering" /\ f \in Applying /\ f.list = <<>>
  <2>1. Head(stack) \in VFrames
    BY <1>1 DEF VType
  <2> QED
    BY <1>1, <2>1, ChangeKinds
<1>3. PICK s, g : s = f.state /\ g = s.group
  OBVIOUS
<1>4. s \in States /\ g \in Groups /\ s.timelines \in Seq(Writes)
  BY <1>2, <1>3, StateParts DEF Applying
<1>5. PICK e : e = Sampling(s, s.timelines, TRUE)
  OBVIOUS
<1>6. e \in VFrames /\ e.kind = "sampling" /\ e.state = s /\ e.list = s.timelines
  <2>1. Written(s.timelines) \subseteq CellsOf(s) /\ TRUE \in BOOLEAN
    BY <1>4, StateParts
  <2>2. \A done \in BOOLEAN :
           /\ Sampling(s, s.timelines, done) \in VFrames /\ Sampling(s, s.timelines, done).kind = "sampling"
           /\ Sampling(s, s.timelines, done).state = s /\ Sampling(s, s.timelines, done).list = s.timelines
    BY <1>4, <2>1, ChangesMade
  <2> QED
    BY <1>5, <2>1, <2>2, Zenon
<1>7. PICK rest : rest = <<e>> \o Tail(stack)
  OBVIOUS
<1>8. stack' = rest /\ UNCHANGED <<storeVars, visualVars>>
  BY <1>2, <1>3, <1>5, <1>7 DEF Entered
<1>9. value' = value /\ up' = up /\ registered' = registered /\ UNCHANGED <<current, base, overlapped>>
  BY <1>8 DEF storeVars, visualVars
<1>10. \A h : Busy(e, h) <=> Busy(f, h)
  BY <1>2, <1>3, <1>6 DEF Busy
<1>11. \A h : OneOf(stack, h) => /\ OneOf(stack', h)
                                 /\ Ongoing(stack', h) = IF Busy(f, h) THEN {e} ELSE Ongoing(stack, h)
  BY <1>1, <1>2, <1>6, <1>7, <1>8, <1>10, OngoingNext DEF VType
<1>12. VType'
  <2>1. stack' \in Seq(VFrames)
    <3>1. PICK t : t = Tail(stack)
      OBVIOUS
    <3>2. t \in Seq(VFrames)
      BY <1>1, <3>1 DEF VType
    <3> QED
      BY <1>6, <1>7, <1>8, <3>1, <3>2, PushMember
  <2> QED
    BY <1>1, <1>9, <2>1 DEF VType
<1>13. ASSUME g \notin overlapped' PROVE GroupInv(g)'
  <2>1. GroupInv(g) /\ Busy(f, g)
    BY <1>2, <1>3, <1>4, <1>9, <1>13 DEF StatesInv, Busy
  <2>2. f \in Ongoing(stack, g)
    BY <1>1, <1>2, <2>1, OngoingPop DEF VType, GroupInv
  <2>3. OneOf(stack', g) /\ Ongoing(stack', g) = {e}
    BY <1>11, <2>1 DEF GroupInv
  <2>4. current[g] = s /\ Applies(s, f.list \o s.timelines)
    BY <1>2, <1>3, <2>1, <2>2 DEF GroupInv, InPlace
  <2>5. f.list \o s.timelines = s.timelines
    <3>1. <<>> \o s.timelines = s.timelines
      BY <1>4
    <3> QED
      BY <1>2, <3>1
  <2>6. Applies(s, s.timelines)
    BY <2>4, <2>5
  <2>7. Applies(s, s.timelines)'
    BY <1>9, <2>6 DEF Applies, Bare
  <2>8. InPlace(e)'
    BY <1>3, <1>6, <1>9, <2>4, <2>7 DEF InPlace
  <2>9. Forgets(g)'
    BY <1>9, <2>1 DEF GroupInv, Forgets
  <2> QED
    BY <2>3, <2>8, <2>9 DEF GroupInv
<1>14. \A h \in Groups : h # g =>
          (OneOf(stack, h) => OneOf(stack', h) /\ Ongoing(stack', h) = Ongoing(stack, h))
  BY <1>2, <1>3, <1>11 DEF Busy
<1> QED
  BY <1>3, <1>4, <1>9, <1>12, <1>13, <1>14, ByGroup

LEMMA SampledStep ==
  ASSUME StatesInv, Sampled
  PROVE  StatesInv'
<1>1. VType /\ stack # <<>> /\ Head(stack).kind = "sampling" /\ Head(stack).list = <<>>
  BY DEF StatesInv, Sampled, Doing
<1>2. PICK f : f = Head(stack) /\ f \in VFrames /\ f.kind = "sampling" /\ f \in Animating /\ f.list = <<>>
  <2>1. Head(stack) \in VFrames
    BY <1>1 DEF VType
  <2> QED
    BY <1>1, <2>1, ChangeKinds
<1>3. PICK s, g : s = f.state /\ g = s.group
  OBVIOUS
<1>4. s \in States /\ g \in Groups /\ s # NoState
  BY <1>2, <1>3, StateParts DEF Animating
<1>5. PICK rest : rest = Tail(stack)
  OBVIOUS
<1>6. stack' = rest /\ UNCHANGED <<storeVars, visualVars>>
  BY <1>5 DEF Sampled
<1>7. value' = value /\ up' = up /\ registered' = registered /\ UNCHANGED <<current, base, overlapped>>
  BY <1>6 DEF storeVars, visualVars
<1>8. \A h : OneOf(stack, h) => /\ OneOf(stack', h)
                                /\ Ongoing(stack', h) = IF Busy(f, h) THEN {} ELSE Ongoing(stack, h)
  BY <1>1, <1>2, <1>5, <1>6, OngoingPop DEF VType
<1>9. VType'
  <2>1. rest \in Seq(VFrames)
    BY <1>1, <1>5 DEF VType
  <2> QED
    BY <1>1, <1>6, <1>7, <2>1 DEF VType
<1>10. ASSUME g \notin overlapped' PROVE GroupInv(g)'
  <2>1. GroupInv(g) /\ Busy(f, g)
    BY <1>2, <1>3, <1>4, <1>7, <1>10 DEF StatesInv, Busy
  <2>2. f \in Ongoing(stack, g)
    BY <1>1, <1>2, <2>1, OngoingPop DEF VType, GroupInv
  <2>3. OneOf(stack', g) /\ Ongoing(stack', g) = {}
    BY <1>8, <2>1 DEF GroupInv
  <2>4. current[g] = s /\ Applies(s, <<>>)
    BY <1>2, <1>3, <2>1, <2>2 DEF GroupInv, InPlace
  <2>5. Applies(s, <<>>)'
    BY <1>7, <2>4 DEF Applies, Bare
  <2>6. AtRest(g)'
    BY <1>4, <1>7, <2>4, <2>5 DEF AtRest
  <2>7. Forgets(g)'
    BY <1>7, <2>1 DEF GroupInv, Forgets
  <2> QED
    BY <2>3, <2>6, <2>7 DEF GroupInv
<1>11. \A h \in Groups : h # g =>
          (OneOf(stack, h) => OneOf(stack', h) /\ Ongoing(stack', h) = Ongoing(stack, h))
  BY <1>2, <1>3, <1>8 DEF Busy
<1> QED
  BY <1>3, <1>4, <1>7, <1>9, <1>10, <1>11, ByGroup

LEMMA Quietly ==
  ASSUME NEW g, OneOf(stack, g), ~Changing(g)
  PROVE  Ongoing(stack, g) = {}
BY DEF Changing, Ongoing, Busy, ToSet

(* A frame of the state goes on the stack, and overlaps what is there, or  *)
(* nothing of its group is.                                                *)
LEMMA Begins ==
  ASSUME StatesInv, NEW s \in States, NEW e \in VFrames,
         e.kind \in {"leaving", "stopping", "entering", "sampling"}, e.state.group = s.group,
         stack' = <<e>> \o stack, UNCHANGED <<storeVars, base>>,
         overlapped' = IF Changing(s.group) THEN overlapped \cup {s.group} ELSE overlapped,
         \/ current' = current
         \/ current' = [current EXCEPT ![s.group] = s] /\ current[s.group] = NoState,
         s.group \notin overlapped /\ AtRest(s.group) => InPlace(e)'
  PROVE  StatesInv'
<1>1. VType /\ s.group \in Groups /\ s # NoState
  BY StateParts DEF StatesInv
<1>2. PICK g : g = s.group /\ g \in Groups
  BY <1>1
<1>3. value' = value /\ up' = up /\ registered' = registered /\ base' = base
  BY DEF storeVars
<1>4. \A h : Busy(e, h) <=> h = g
  BY <1>2 DEF Busy
<1>5. \A h \in Groups : h # g =>
         (OneOf(stack, h) => OneOf(stack', h) /\ Ongoing(stack', h) = Ongoing(stack, h))
  BY <1>1, <1>4, OngoingPush DEF VType
<1>6. \A h \in Groups : h # g => current'[h] = current[h]
  BY <1>1, <1>2 DEF VType
<1>7. VType'
  <2>1. stack' \in Seq(VFrames)
    BY <1>1, PushMember DEF VType
  <2>2. current' \in [Groups -> States \cup {NoState}]
    BY <1>1, <1>2 DEF VType
  <2>3. \A h \in Groups : current'[h] # NoState => current'[h].group = h
    BY <1>1, <1>2, <1>6 DEF VType
  <2>4. overlapped' \in SUBSET Groups
    BY <1>1 DEF VType
  <2> QED
    BY <1>1, <1>3, <2>1, <2>2, <2>3, <2>4 DEF VType
<1>8. ASSUME g \notin overlapped' PROVE GroupInv(g)'
  <2>1. ~Changing(g) /\ g \notin overlapped /\ GroupInv(g)
    BY <1>2, <1>8 DEF StatesInv
  <2>2. Ongoing(stack, g) = {} /\ AtRest(g)
    BY <2>1, Quietly DEF GroupInv
  <2>3. OneOf(stack', g) /\ Ongoing(stack', g) = {e}
    BY <1>1, <1>4, <2>1, <2>2, OngoingPush DEF VType, GroupInv
  <2>4. InPlace(e)'
    BY <1>2, <2>1, <2>2
  <2>5. Forgets(g)'
    <3>1. CASE current' = current
      BY <1>3, <2>1, <3>1 DEF GroupInv, Forgets
    <3>2. CASE current' = [current EXCEPT ![s.group] = s] /\ current[s.group] = NoState
      <4>1. \A t \in States : t.group = g => base[t] = [c \in CellsOf(t) |-> Unset]
        BY <1>2, <2>1, <3>2, StateAssumption DEF GroupInv, Forgets
      <4> QED
        BY <1>3, <4>1 DEF Forgets
    <3> QED
      BY <3>1, <3>2
  <2> QED
    BY <2>3, <2>4, <2>5 DEF GroupInv
<1> QED
  BY <1>2, <1>3, <1>5, <1>6, <1>7, <1>8, ByGroup

LEMMA GoToStateStep ==
  ASSUME StatesInv, NEW s \in States, GoToState(s)
  PROVE  StatesInv'
<1>1. VType /\ s.group \in Groups /\ s # NoState
  BY StateParts DEF StatesInv
<1>2. PICK g, old : g = s.group /\ old = current[g]
  OBVIOUS
<1>3. CASE old # NoState
  <2>1. old \in States /\ old.group = g
    BY <1>1, <1>2, <1>3 DEF VType
  <2>2. PICK u : u = Undo(old)
    OBVIOUS
  <2>3. old.setters \in Seq(Writes) /\ Written(old.setters) \subseteq CellsOf(old)
    BY <2>1, StateParts
  <2>4. u \in Seq(Cells) /\ ToSet(u) = Written(old.setters)
    BY <2>2, <2>3, CellsListed DEF Undo
  <2>5. u \in Seq(Cells) /\ ToSet(u) \subseteq CellsOf(old)
    BY <2>3, <2>4
  <2>6. PICK e : e = Leaving(old, s, u)
    OBVIOUS
  <2>7. e \in VFrames /\ e.kind = "leaving" /\ e.state = old /\ e.list = u
    BY <1>2, <2>1, <2>5, <2>6, ChangesMade
  <2>8. /\ stack' = <<e>> \o stack /\ current' = current /\ UNCHANGED <<storeVars, base>>
        /\ overlapped' = IF Changing(s.group) THEN overlapped \cup {s.group} ELSE overlapped
    BY <1>2, <1>3, <2>2, <2>6 DEF GoToState
  <2>9. ASSUME AtRest(g) PROVE InPlace(e)'
    <3>1. Bare(g, CellsOf(old))
      BY <1>2, <1>3, <2>1, <2>9 DEF AtRest, Applies
    <3>2. ToClear(e) = CellsOf(old)
      BY <2>1, <2>4, <2>7, PartsCover DEF ToClear
    <3>3. Bare(g, ToClear(e))'
      BY <2>8, <3>1, <3>2 DEF Bare, storeVars
    <3> QED
      BY <1>2, <2>1, <2>7, <2>8, <3>3 DEF InPlace
  <2> QED
    BY <1>2, <2>1, <2>7, <2>8, <2>9, Begins
<1>4. CASE old = NoState
  <2>1. PICK e : e = Entering(s, s.setters)
    OBVIOUS
  <2>2. e \in VFrames /\ e.kind = "entering" /\ e.state = s /\ e.list = s.setters
    BY <2>1, StateParts, ChangesMade
  <2>3. /\ stack' = <<e>> \o stack /\ current' = [current EXCEPT ![g] = s] /\ UNCHANGED <<storeVars, base>>
        /\ overlapped' = IF Changing(s.group) THEN overlapped \cup {s.group} ELSE overlapped
    BY <1>2, <1>4, <2>1 DEF GoToState, Enter
  <2>4. ASSUME AtRest(g) PROVE InPlace(e)'
    <3>1. Bare(s.group, {}) /\ value' = value
      BY <1>2, <1>4, <2>3, <2>4 DEF AtRest, storeVars
    <3>2. Applies(s, s.setters \o s.timelines)'
      BY <3>1, StateBegins
    <3>3. current'[s.group] = s
      BY <1>1, <1>2, <2>3 DEF VType
    <3> QED
      BY <2>2, <3>2, <3>3 DEF InPlace
  <2> QED
    BY <1>2, <1>4, <2>2, <2>3, <2>4, Begins
<1> QED
  BY <1>3, <1>4

LEMMA SampleCurrentStep ==
  ASSUME StatesInv, NEW g \in Groups, NEW done \in BOOLEAN, SampleCurrent(g, done)
  PROVE  StatesInv'
<1>1. VType /\ current[g] # NoState
  BY DEF StatesInv, SampleCurrent
<1>2. PICK s : s = current[g] /\ s \in States /\ s.group = g
  BY <1>1 DEF VType
<1>3. PICK e : e = Sampling(s, s.timelines, done)
  OBVIOUS
<1>4. e \in VFrames /\ e.kind = "sampling" /\ e.state = s /\ e.list = s.timelines
  <2>1. s.timelines \in Seq(Writes) /\ Written(s.timelines) \subseteq CellsOf(s)
    BY <1>2, StateParts
  <2> QED
    BY <1>2, <1>3, <2>1, ChangesMade
<1>5. /\ stack' = <<e>> \o stack /\ current' = current /\ UNCHANGED <<storeVars, base>>
      /\ overlapped' = IF Changing(s.group) THEN overlapped \cup {s.group} ELSE overlapped
  BY <1>2, <1>3 DEF SampleCurrent
<1>6. ASSUME AtRest(s.group) PROVE InPlace(e)'
  <2>1. Applies(s, <<>>)
    BY <1>1, <1>2, <1>6 DEF AtRest
  <2>2. Written(<<>>) = {}
    BY DEF Written, ToSet
  <2>3. value' = value /\ base' = base
    BY <1>5 DEF storeVars
  <2>4. Bare(s.group, CellsOf(s))'
    BY <2>1, <2>3 DEF Applies, Bare
  <2>5. \A c \in CellsOf(s) : c \notin Written(s.timelines) => value'[c] \in {FinalValue(s, c), base'[s][c]} \ {Unset}
    BY <2>1, <2>2, <2>3 DEF Applies
  <2>6. Applies(s, s.timelines)'
    BY <1>2, <2>4, <2>5, TimelineEnds DEF Applies
  <2> QED
    BY <1>2, <1>4, <1>5, <2>6 DEF InPlace
<1> QED
  BY <1>2, <1>4, <1>5, <1>6, Begins

LEMMA QuietPush ==
  ASSUME NEW s \in Seq(VFrames), NEW m \in VFrames, m.kind \in {"moved", "telling"}
  PROVE  /\ <<m>> \o s \in Seq(VFrames)
         /\ \A g : OneOf(s, g) => OneOf(<<m>> \o s, g) /\ Ongoing(<<m>> \o s, g) = Ongoing(s, g)
BY OngoingPush, PushMember DEF Busy

LEMMA QuietPop ==
  ASSUME NEW s \in Seq(VFrames), s # <<>>, Head(s).kind \in {"moved", "telling"}
  PROVE  /\ Tail(s) \in Seq(VFrames)
         /\ \A g : OneOf(s, g) => OneOf(Tail(s), g) /\ Ongoing(Tail(s), g) = Ongoing(s, g)
BY OngoingPop, PopMember DEF Busy

LEMMA WriteLocalStep ==
  ASSUME StatesInv, WriteLocal
  PROVE  StatesInv'
<1>1. VType
  BY DEF StatesInv
<1>2. PICK c \in Cells, v \in Values : c[3] = "local" /\ SetSlot(c, v, stack) /\ UNCHANGED visualVars
  BY DEF WriteLocal, Set
<1>3. /\ value' = [value EXCEPT ![c] = v] /\ Slotted(value') /\ Tree(up') /\ registered' = <<>>
      /\ \E m \in VFrames : m.kind = "moved" /\ stack' = <<m>> \o stack
  BY <1>1, <1>2, SlotWritten
<1>4. PICK m \in VFrames : m.kind = "moved" /\ stack' = <<m>> \o stack
  BY <1>3
<1>5. /\ stack' \in Seq(VFrames)
      /\ \A g : OneOf(stack, g) => OneOf(stack', g) /\ Ongoing(stack', g) = Ongoing(stack, g)
  BY <1>1, <1>4, QuietPush DEF VType
<1>6. VType'
  BY <1>1, <1>2, <1>3, <1>5 DEF VType, visualVars
<1>7. \A s \in States : \A d \in CellsOf(s) : value'[d] = value[d]
  <2> SUFFICES ASSUME NEW s \in States, NEW d \in CellsOf(s) PROVE value'[d] = value[d]
    OBVIOUS
  <2>1. d \in Cells /\ d[3] = "animated"
    BY StateAssumption
  <2>2. d # c
    BY <1>2, <2>1
  <2> QED
    BY <1>1, <1>3, <2>1, <2>2 DEF VType, Slotted
<1> QED
  BY <1>2, <1>5, <1>6, <1>7, NoGroup

LEMMA AnnounceVisual ==
  ASSUME StatesInv, Announce, UNCHANGED visualVars
  PROVE  StatesInv'
<1>1. VType /\ stack # <<>>
  BY DEF StatesInv, Announce
<1>2. PICK f : f = Head(stack) /\ f \in VFrames /\ f.kind = "moved"
  BY <1>1 DEF VType, Announce
<1>3. PICK m \in Changes : f.list = <<m>>
  BY <1>2, ChangeKinds
<1>4. f.obj \in Objects /\ m.prop \in Props /\ m.before \in MaybeValues
  BY <1>2, <1>3, ChangeKinds DEF Changes
<1>5. PICK now, rest : now = Effective(f.obj, m.prop) /\ rest = Tail(stack)
  OBVIOUS
<1>6. now \in MaybeValues
  BY <1>1, <1>4, <1>5, ReadTyped DEF VType, Effective, MaybeValues
<1>7. PICK e : e = Telling(f.obj, m.prop, m.before, now, Metadata, Whole, {})
  OBVIOUS
<1>8. e \in VFrames /\ e.kind = "telling"
  BY <1>4, <1>6, <1>7, ChangesMade
<1>9. stack' = rest \/ stack' = <<e>> \o rest
  <2>1. Len(f.list) = 1 /\ Head(f.list) = m
    BY <1>3
  <2> QED
    BY <1>2, <1>5, <1>7, <2>1 DEF Announce, SameValue
<1>10. UNCHANGED <<value, up, registered>>
  BY DEF Announce
<1>11. /\ rest \in Seq(VFrames)
       /\ \A g : OneOf(stack, g) => OneOf(rest, g) /\ Ongoing(rest, g) = Ongoing(stack, g)
  BY <1>1, <1>2, <1>5, QuietPop DEF VType
<1>12. /\ stack' \in Seq(VFrames)
       /\ \A g : OneOf(stack, g) => OneOf(stack', g) /\ Ongoing(stack', g) = Ongoing(stack, g)
  <2>1. CASE stack' = rest
    BY <1>11, <2>1
  <2>2. CASE stack' = <<e>> \o rest
    BY <1>8, <1>11, <2>2, QuietPush
  <2> QED
    BY <1>9, <2>1, <2>2
<1>13. VType'
  BY <1>1, <1>10, <1>12 DEF VType, visualVars
<1> QED
  BY <1>10, <1>12, <1>13, NoGroup

(* No handler is registered: the metadata's callback is the only observer. *)
LEMMA ReturnVisual ==
  ASSUME StatesInv, Return, UNCHANGED visualVars
  PROVE  StatesInv'
<1>1. VType /\ stack # <<>>
  BY DEF StatesInv, Return
<1>2. PICK f : f = Head(stack) /\ f \in VFrames /\ f.kind = "telling"
  BY <1>1 DEF VType, Return
<1>3. f.rest = {} /\ f.who = Metadata /\ ToSet(registered) = {}
  BY <1>1, <1>2, ChangeKinds DEF VType, ToSet
<1>4. NextObserver(f).who = NoObserver
  BY <1>3 DEF NextObserver, OfKind, StillThere
<1>5. PICK rest : rest = Tail(stack)
  OBVIOUS
<1>6. stack' = rest /\ UNCHANGED <<value, up, registered>>
  BY <1>2, <1>4, <1>5 DEF Return
<1>7. /\ stack' \in Seq(VFrames)
      /\ \A g : OneOf(stack, g) => OneOf(stack', g) /\ Ongoing(stack', g) = Ongoing(stack, g)
  BY <1>1, <1>2, <1>5, <1>6, QuietPop DEF VType
<1>8. VType'
  BY <1>1, <1>6, <1>7 DEF VType, visualVars
<1> QED
  BY <1>6, <1>7, <1>8, NoGroup

-----------------------------------------------------------------------------
LEMMA StatesBegin == Init /\ VInit => StatesInv
<1> SUFFICES ASSUME Init, VInit PROVE StatesInv
  OBVIOUS
<1>1. stack = <<>> /\ DOMAIN stack = {} /\ ToSet(stack) = {}
  BY DEF Init, ToSet
<1>2. VType
  <2>1. Slotted(value) /\ registered = <<>> /\ stack \in Seq(VFrames)
    BY DEF Init, Slotted, MaybeValues
  <2>2. Tree(up)
    BY AloneIsTree DEF Init, Alone
  <2>3. /\ current \in [Groups -> States \cup {NoState}] /\ \A g \in Groups : current[g] = NoState
        /\ DOMAIN base = States /\ \A s \in States : base[s] \in [CellsOf(s) -> MaybeValues]
        /\ overlapped \in SUBSET Groups
    BY DEF VInit, MaybeValues
  <2> QED
    BY <2>1, <2>2, <2>3 DEF VType
<1>3. ASSUME NEW g \in Groups PROVE GroupInv(g)
  <2>1. OneOf(stack, g) /\ Ongoing(stack, g) = {}
    BY <1>1 DEF OneOf, Ongoing
  <2>2. Forgets(g)
    BY DEF VInit, Forgets
  <2>3. AtRest(g)
    <3>1. Bare(g, {})
      BY StateParts DEF Init, Bare
    <3> QED
      BY <3>1 DEF AtRest, VInit
  <2> QED
    BY <2>1, <2>2, <2>3 DEF GroupInv
<1> QED
  BY <1>2, <1>3 DEF StatesInv

LEMMA StatesKept ==
  ASSUME StatesInv, [VNext]_vvars
  PROVE  StatesInv'
<1>1. ASSUME NEW s \in States, GoToState(s) PROVE StatesInv'
  BY <1>1, GoToStateStep
<1>2. ASSUME NEW g \in Groups, NEW done \in BOOLEAN, SampleCurrent(g, done) PROVE StatesInv'
  BY <1>2, SampleCurrentStep
<1>3. CASE ClearNext
  BY <1>3, ClearNextStep
<1>4. CASE Left
  BY <1>4, LeftStep
<1>13. CASE StopStoryboard
  BY <1>13, StopStoryboardStep
<1>5. CASE ApplySetter
  BY <1>5, ApplySetterStep
<1>6. CASE Entered
  BY <1>6, EnteredStep
<1>7. CASE SampleNext
  BY <1>7, SampleNextStep
<1>8. CASE Sampled
  BY <1>8, SampledStep
<1>9. CASE WriteLocal
  BY <1>9, WriteLocalStep
<1>10. CASE Announce /\ UNCHANGED visualVars
  BY <1>10, AnnounceVisual
<1>11. CASE Return /\ UNCHANGED visualVars
  BY <1>11, ReturnVisual
<1>12. CASE UNCHANGED vvars
  <2>1. UNCHANGED <<value, up, registered, stack, visualVars>>
    BY <1>12 DEF vvars, vars
  <2>2. VType'
    BY <2>1 DEF StatesInv, VType, visualVars
  <2> QED
    BY <2>1, <2>2, NoGroup
<1> QED
  BY <1>1, <1>2, <1>3, <1>4, <1>5, <1>6, <1>7, <1>8, <1>9, <1>10, <1>11, <1>12, <1>13 DEF VNext

LEMMA StatesApplied == StatesInv => StateApplied
<1> SUFFICES ASSUME StatesInv PROVE StateApplied
  OBVIOUS
<1>1. VType
  BY DEF StatesInv
<1>2. VTypeOK
  BY <1>1 DEF VType, VTypeOK, Slotted, MaybeValues
<1>3. ASSUME stack = <<>>, NEW g \in Groups \ overlapped PROVE Forgets(g) /\ AtRest(g)
  <2>1. Ongoing(stack, g) = {}
    BY <1>3 DEF Ongoing, ToSet
  <2> QED
    BY <2>1 DEF StatesInv, GroupInv
<1>4. BaseOfCurrent
  BY <1>3, StateParts DEF BaseOfCurrent, Forgets
<1>5. AnimatedByCurrent
  <2> SUFFICES ASSUME stack = <<>>, NEW g \in Groups \ overlapped, NEW s \in States, NEW c \in Cells,
                      s.group = g, c \in CellsOf(s)
               PROVE  IF current[g] # NoState /\ c \in CellsOf(current[g])
                      THEN value[c] \in {FinalValue(current[g], c), base[current[g]][c]} \ {Unset}
                      ELSE value[c] = Unset
    BY DEF AnimatedByCurrent
  <2>1. AtRest(g)
    BY <1>3
  <2>2. CASE current[g] = NoState
    BY <2>1, <2>2 DEF AtRest, Bare
  <2>3. CASE current[g] # NoState
    <3>1. PICK t : t = current[g] /\ t \in States /\ t.group = g
      BY <1>1, <2>3 DEF VType
    <3>2. Applies(t, <<>>)
      BY <2>1, <2>3, <3>1 DEF AtRest
    <3>3. Written(<<>>) = {}
      BY DEF Written, ToSet
    <3>4. c \in CellsOf(t) => value[c] \in {FinalValue(t, c), base[t][c]} \ {Unset}
      BY <3>2, <3>3 DEF Applies
    <3>5. c \notin CellsOf(t) => value[c] = Unset
      BY <3>1, <3>2 DEF Applies, Bare
    <3> QED
      BY <2>3, <3>1, <3>4, <3>5
  <2> QED
    BY <2>2, <2>3
<1> QED
  BY <1>2, <1>4, <1>5 DEF StateApplied

(* Whatever the states, their lines and their groups, and however deep     *)
(* changes of state nest in the changes they announce: at rest the         *)
(* animated values, and the bases remembered, are those of the states the  *)
(* groups are in, but for groups that changed state inside a change.       *)
THEOREM StatesCorrect == VSpec => []StateApplied
<1>1. VSpec => []StatesInv
  BY StatesBegin, StatesKept, PTL DEF VSpec
<1> QED
  BY <1>1, StatesApplied, PTL
=============================================================================
