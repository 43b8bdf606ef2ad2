--------------------------- MODULE Controls_proofs ---------------------------
(***************************************************************************)
(* Four of the machines that MC_Controls runs, and the DirectComposition   *)
(* backend.  A DispatcherQueueTimer, for any number of users and ticks     *)
(* nested to any depth: its references add up and a running one will tick. *)
(* The value of a scroll bar stays in its range, and returns to what was   *)
(* asked for, for any numbers and handlers nested to any depth.  The       *)
(* journal of a frame implements the history of its pages, for any pages   *)
(* and factories nested to any depth.  The native menus, for any lists of  *)
(* items and for handlers nested to any depth: at rest x:Bind has read the *)
(* item that is selected, and the index is where that item is; a control's *)
(* IsOpen flag is true only while the control is being shown, and while    *)
(* its menu is up.  The backend, for any scenes, panels, threads and       *)
(* nesting: an update that has committed shows the scene it was given, and *)
(* what is shown or cached is backed by what it was made from.             *)
(***************************************************************************)
EXTENDS DispatcherQueueTimer, RangeBase, FrameJournal, PopupMenus, DcompScene,
        FiniteSetTheorems, SequenceTheorems, WellFoundedInduction, TLAPS

-----------------------------------------------------------------------------
(* The timer.                                                              *)
Held == IF running THEN 1 ELSE 0

(* What TimerProtocol rests on: only a running timer is armed or due, so   *)
(* the reference of Start is there to be given back.                       *)
Sound ==
    /\ refs = owned + Held + ticks + Cardinality(shots)
    /\ armed => running
    /\ due => running
    /\ running => armed \/ refused

TimerInv == TimerTypeOK /\ (~stale => Sound)

-----------------------------------------------------------------------------
LEMMA ShotsCounted ==
  ASSUME NEW n \in Nat, NEW s \in SUBSET (1..n)
  PROVE  /\ IsFiniteSet(s) /\ Cardinality(s) \in Nat
         /\ Cardinality(s \cup {n + 1}) = Cardinality(s) + 1
         /\ n \in s => Cardinality(s \ {n}) = Cardinality(s) - 1
         /\ n \notin s => s \ {n} = s
<1>1. IsFiniteSet(1..n)
  BY FS_Interval
<1>2. IsFiniteSet(s) /\ Cardinality(s) \in Nat
  BY <1>1, FS_Subset, FS_CardinalityType
<1>3. n + 1 \notin s
  OBVIOUS
<1>4. Cardinality(s \cup {n + 1}) = Cardinality(s) + 1
  BY <1>2, <1>3, FS_AddElement
<1>5. n \in s => Cardinality(s \ {n}) = Cardinality(s) - 1
  BY <1>2, FS_RemoveElement
<1> QED
  BY <1>2, <1>4, <1>5

(* The flags, one by one, and the counts.                                  *)
Flags == /\ running \in BOOLEAN /\ repeating \in BOOLEAN /\ armed \in BOOLEAN
         /\ due \in BOOLEAN /\ stale \in BOOLEAN /\ refused \in BOOLEAN
Counts == refs \in Int /\ owned \in 0..MaxOwned /\ ticks \in 0..MaxTicks /\ shots \subseteq 1..ticks

LEMMA TypeParts == TimerTypeOK <=> Flags /\ Counts
BY DEF TimerTypeOK, Flags, Counts

LEMMA FlagsStep == Flags /\ TimerNext => Flags'
<1> SUFFICES ASSUME Flags, TimerNext PROVE Flags'
  OBVIOUS
<1>1. CASE Start
  BY <1>1, Zenon DEF Flags, Start
<1>2. CASE Stop
  BY <1>2, Zenon DEF Flags, Stop
<1>3. CASE PutInterval
  BY <1>3, Zenon DEF Flags, PutInterval
<1>4. CASE PutIsRepeating
  BY <1>4, Zenon DEF Flags, PutIsRepeating
<1>5. CASE Own
  BY <1>5, Zenon DEF Flags, Own
<1>6. CASE Fire
  BY <1>6, Zenon DEF Flags, Fire
<1>7. CASE OnTick
  BY <1>7, Zenon DEF Flags, OnTick, StillRuns
<1>8. CASE TickEnds
  BY <1>8, Zenon DEF Flags, TickEnds
<1> QED
  BY <1>1, <1>2, <1>3, <1>4, <1>5, <1>6, <1>7, <1>8 DEF TimerNext

LEMMA CountsStep == Counts /\ TimerNext => Counts'
<1> SUFFICES ASSUME Counts, TimerNext PROVE Counts'
  OBVIOUS
<1> USE TimerAssumption
<1>1. CASE Start \/ Stop \/ PutInterval \/ PutIsRepeating \/ Fire
  <2>1. UNCHANGED <<owned, ticks, shots>>
    BY <1>1 DEF Start, Stop, PutInterval, PutIsRepeating, Fire
  <2>2. refs' \in {refs, refs + 1, refs - 1}
    BY <1>1, Zenon DEF Start, Stop, PutInterval, PutIsRepeating, Fire
  <2> QED
    BY <2>1, <2>2 DEF Counts
<1>2. CASE Own
  BY <1>2 DEF Counts, Own
<1>3. CASE OnTick
  <2>1. refs' \in Int /\ owned' \in 0..MaxOwned /\ ticks' \in 0..MaxTicks
    BY <1>3 DEF Counts, OnTick
  <2>2. shots' \subseteq shots \cup {ticks + 1} /\ ticks' = ticks + 1
    BY <1>3 DEF OnTick
  <2> QED
    BY <2>1, <2>2 DEF Counts
<1>4. CASE TickEnds
  <2>1. refs' \in Int /\ owned' \in 0..MaxOwned /\ ticks' \in 0..MaxTicks
    BY <1>4 DEF Counts, TickEnds, Returned
  <2>2. shots' = shots \ {ticks} /\ ticks' = ticks - 1
    BY <1>4 DEF TickEnds
  <2> QED
    BY <2>1, <2>2 DEF Counts
<1> QED
  BY <1>1, <1>2, <1>3, <1>4 DEF TimerNext

LEMMA ShotNumbers ==
  ASSUME TimerTypeOK
  PROVE  /\ ticks \in Nat /\ owned \in Nat /\ refs \in Int
         /\ shots \in SUBSET (1..ticks) /\ Cardinality(shots) \in Nat
<1>1. ticks \in Nat /\ owned \in Nat /\ refs \in Int /\ shots \in SUBSET (1..ticks)
  BY TimerAssumption, TypeParts DEF Counts
<1> QED
  BY <1>1, ShotsCounted

LEMMA SoundStep == TimerTypeOK /\ Sound /\ ~stale' /\ TimerNext => Sound'
<1> SUFFICES ASSUME TimerTypeOK, Sound, ~stale', TimerNext PROVE Sound'
  OBVIOUS
<1>1. /\ ticks \in Nat /\ owned \in Nat /\ refs \in Int
      /\ shots \in SUBSET (1..ticks) /\ Cardinality(shots) \in Nat
  BY ShotNumbers
<1>2. running \in BOOLEAN /\ armed \in BOOLEAN
  BY TypeParts DEF Flags
<1>3. CASE Start
  BY <1>1, <1>2, <1>3 DEF Sound, Held, Start
<1>4. CASE Stop
  <2>1. ~due /\ ~running' /\ ~armed' /\ due' = due
    BY <1>4, Zenon DEF Stop
  <2>2. refs' = owned' + Held' + ticks' + Cardinality(shots')
    BY <1>1, <1>4 DEF Sound, Held, Stop
  <2> QED
    BY <2>1, <2>2 DEF Sound
<1>5. CASE PutInterval
  BY <1>1, <1>2, <1>5 DEF Sound, Held, PutInterval
<1>6. CASE PutIsRepeating
  BY <1>1, <1>2, <1>6 DEF Sound, Held, PutIsRepeating
<1>7. CASE Own
  <2>1. refs' = owned' + Held + ticks + Cardinality(shots) /\ owned' >= 0
    BY <1>1, <1>7, TimerAssumption DEF Sound, Own, Held
  <2>2. running => refs' > 0
    BY <1>1, <1>7, <2>1 DEF Held, Own
  <2> QED
    BY <1>7, <2>1, <2>2 DEF Sound, Own, Held
<1>8. CASE Fire
  BY <1>1, <1>2, <1>8 DEF Sound, Held, Fire
<1>9. CASE OnTick
  <2>1. running
    BY <1>9 DEF Sound, OnTick
  <2>2. Cardinality(shots \cup {ticks + 1}) = Cardinality(shots) + 1
    BY <1>1, ShotsCounted
  <2>3. CASE repeating
    <3>1. running' /\ (armed' <=> armed) /\ ~due' /\ refused' = refused
      BY <1>9, <2>1, <2>3 DEF OnTick, StillRuns, OneShot
    <3>2. Cardinality(shots') = Cardinality(shots) /\ refs' = refs + 1 /\ ticks' = ticks + 1 /\ owned' = owned
      BY <1>9, <2>3 DEF OnTick, OneShot
    <3> QED
      BY <1>1, <2>1, <3>1, <3>2 DEF Sound, Held
  <2>4. CASE ~repeating
    <3>1. ~running' /\ ~armed' /\ ~due'
      BY <1>9, <2>1, <2>4 DEF OnTick, StillRuns, OneShot
    <3>2. Cardinality(shots') = Cardinality(shots) + 1 /\ refs' = refs + 1 /\ ticks' = ticks + 1 /\ owned' = owned
      BY <1>9, <2>2, <2>4 DEF OnTick, OneShot
    <3> QED
      BY <1>1, <2>1, <3>1, <3>2 DEF Sound, Held
  <2> QED
    BY <2>3, <2>4
<1>10. CASE TickEnds
  <2>1. refs' = owned + Held + ticks' + Cardinality(shots') /\ ticks' \in Nat /\ Cardinality(shots') \in Nat
    <3>1. ticks > 0 /\ ticks' = ticks - 1 /\ shots' = shots \ {ticks} /\ Cardinality(shots') \in Nat
      <4>1. IsFiniteSet(shots \ {ticks})
        BY <1>1, ShotsCounted, FS_Difference
      <4> QED
        BY <1>10, <4>1, FS_CardinalityType DEF TickEnds
    <3>2. CASE ticks \in shots
      <4>1. Cardinality(shots') = Cardinality(shots) - 1
        BY <1>1, <3>1, <3>2, ShotsCounted
      <4>2. refs' = refs - 2
        BY <1>10, <3>2 DEF TickEnds, Returned
      <4> QED
        BY <1>1, <3>1, <4>1, <4>2 DEF Sound, Held
    <3>3. CASE ticks \notin shots
      <4>1. shots' = shots
        BY <1>1, <3>1, <3>3, ShotsCounted, Zenon
      <4>2. refs' = refs - 1
        BY <1>10, <3>3 DEF TickEnds, Returned
      <4>3. Held \in Int /\ refs = owned + Held + ticks + Cardinality(shots)
        BY DEF Sound, Held
      <4>4. Cardinality(shots') = Cardinality(shots)
        BY <4>1
      <4> QED
        BY <1>1, <3>1, <4>2, <4>3, <4>4
    <3> QED
      BY <1>1, <3>1, <3>2, <3>3
  <2>2. running => refs' > 0
    BY <1>1, <1>10, <2>1 DEF Held, TickEnds
  <2> QED
    BY <1>10, <2>1, <2>2 DEF Sound, TickEnds, Held
<1> QED
  BY <1>3, <1>4, <1>5, <1>6, <1>7, <1>8, <1>9, <1>10 DEF TimerNext

(* A timer once stopped with its WM_TIMER in the queue remains so.         *)
LEMMA StaleRemains == TimerNext => (stale => stale')
BY DEF TimerNext, Start, Stop, PutInterval, PutIsRepeating, Own, Fire, OnTick, TickEnds

LEMMA InvGives == TimerInv => TimerProtocol
<1> SUFFICES ASSUME TimerInv, ~stale PROVE TimerProtocol
  BY DEF TimerProtocol
<1>1. TimerTypeOK /\ Sound
  BY DEF TimerInv
<1>2. ticks \in Nat /\ owned \in Nat /\ refs \in Int /\ Cardinality(shots) \in Nat
  BY <1>1, ShotNumbers
<1>3. running => refs > 0
  BY <1>1, <1>2 DEF Sound, Held
<1>4. Destroyed => ~due /\ ~armed
  BY <1>1, <1>3 DEF Sound, Destroyed, TimerTypeOK
<1>5. Balanced /\ (running => armed \/ refused)
  BY <1>1 DEF Sound, Balanced, Held
<1> QED
  BY <1>1, <1>4, <1>5 DEF TimerProtocol

-----------------------------------------------------------------------------
(* Every tick gives back what Start and OnTick took (factory.cpp:4188),    *)
(* however Start, Stop, IsRepeating and further ticks come in between.     *)
THEOREM TimerCorrect == TimerSpec => []TimerProtocol
<1>1. TimerInit => TimerInv
  <2> SUFFICES ASSUME TimerInit PROVE TimerInv
    OBVIOUS
  <2>1. TimerTypeOK
    <3>1. Flags
      BY Zenon DEF TimerInit, Flags
    <3>2. Counts
      BY TimerAssumption DEF TimerInit, Counts
    <3> QED
      BY <3>1, <3>2, TypeParts
  <2>2. Cardinality(shots) = 0
    BY FS_EmptySet DEF TimerInit
  <2>3. Sound
    BY <2>2 DEF TimerInit, Sound, Held
  <2> QED
    BY <2>1, <2>3 DEF TimerInv
<1>2. TimerInv /\ [TimerNext]_timerVars => TimerInv'
  <2>1. ASSUME TimerInv, TimerNext PROVE TimerInv'
    <3>1. TimerTypeOK /\ Flags /\ Counts
      BY <2>1, TypeParts DEF TimerInv
    <3>2. TimerTypeOK'
      BY <2>1, <3>1, FlagsStep, CountsStep DEF TimerTypeOK, Flags, Counts
    <3>3. ~stale' => Sound'
      BY <2>1, <3>1, SoundStep, StaleRemains DEF TimerInv
    <3> QED
      BY <3>2, <3>3 DEF TimerInv
  <2>2. ASSUME TimerInv, UNCHANGED timerVars PROVE TimerInv'
    <3>1. (TimerTypeOK <=> TimerTypeOK') /\ (Sound <=> Sound') /\ stale' = stale
      BY <2>2, Zenon DEF TimerTypeOK, Sound, Held, timerVars
    <3> QED
      BY <2>2, <3>1 DEF TimerInv
  <2> QED
    BY <2>1, <2>2
<1> QED
  BY <1>1, <1>2, InvGives, PTL DEF TimerSpec

-----------------------------------------------------------------------------
(* The scroll bar.                                                         *)
Puts == Contractions \cup {Nothing}
Waiting(st) == \E k \in DOMAIN st : st[k].commits # "nothing"

(* The innermost call, which alone may have a bound to commit, has moved   *)
(* the value to where that bound will require it.                          *)
MinimumWaits ==
    LET b == Last(puts).bound
    IN /\ Last(puts).commits = "minimum"
       /\ minimum <= b /\ b <= maximum /\ rangeValue = Coerced(uncoerced, b, maximum)
MaximumWaits ==
    LET b == Last(puts).bound
    IN /\ Last(puts).commits = "maximum"
       /\ minimum <= b /\ b <= maximum /\ rangeValue = Coerced(uncoerced, minimum, b)

RangeInv ==
    /\ RangeTypeOK
    /\ ~contested =>
         /\ minimum <= rangeValue /\ rangeValue <= maximum
         /\ Waiting(puts) => /\ puts # <<>> /\ ~Waiting(Front(puts))
                             /\ MinimumWaits \/ MaximumWaits
         /\ ~Waiting(puts) /\ ~failed => rangeValue = Coerced(uncoerced, minimum, maximum)

-----------------------------------------------------------------------------
LEMMA Pushed ==
  ASSUME NEW st \in Seq(Puts), NEW f \in Puts
  PROVE  /\ Append(st, f) \in Seq(Puts) /\ Append(st, f) # <<>>
         /\ Waiting(Append(st, f)) <=> Waiting(st) \/ f.commits # "nothing"
         /\ Last(Append(st, f)) = f
         /\ Waiting(Front(Append(st, f))) <=> Waiting(st)
<1> DEFINE new == Append(st, f)
           rest == Front(new)
<1>1. /\ new \in Seq(Puts) /\ DOMAIN new = DOMAIN st \cup {Len(st) + 1} /\ Len(new) = Len(st) + 1
      /\ new[Len(st) + 1] = f /\ \A k \in DOMAIN st : new[k] = st[k]
      /\ Len(st) \in Nat /\ DOMAIN st = 1..Len(st) /\ new # <<>>
  OBVIOUS
<1> HIDE DEF new
<1>2. Waiting(new) <=> Waiting(st) \/ f.commits # "nothing"
  BY <1>1 DEF Waiting
<1>3. Last(new) = f
  BY <1>1 DEF Last
<1>4. DOMAIN rest = DOMAIN st /\ \A k \in DOMAIN st : rest[k] = st[k]
  BY <1>1 DEF Front
<1> HIDE DEF rest
<1>5. Waiting(rest) <=> Waiting(st)
  BY <1>4 DEF Waiting
<1> QED
  BY <1>1, <1>2, <1>3, <1>5 DEF new, rest

LEMMA Popped ==
  ASSUME NEW st \in Seq(Puts), st # <<>>
  PROVE  /\ Front(st) \in Seq(Puts) /\ Last(st) \in Puts
         /\ Waiting(st) <=> Waiting(Front(st)) \/ Last(st).commits # "nothing"
<1> DEFINE rest == Front(st)
<1>1. Len(st) \in Nat /\ Len(st) >= 1 /\ DOMAIN st = 1..Len(st)
  OBVIOUS
<1>2. /\ rest \in Seq(Puts) /\ DOMAIN rest = 1..(Len(st) - 1)
      /\ \A k \in 1..(Len(st) - 1) : rest[k] = st[k]
  BY <1>1 DEF Front
<1>3. DOMAIN st = DOMAIN rest \cup {Len(st)} /\ \A k \in DOMAIN rest : rest[k] = st[k]
  BY <1>1, <1>2
<1>4. Last(st) = st[Len(st)] /\ st[Len(st)] \in Puts
  BY <1>1 DEF Last
<1> HIDE DEF rest
<1>5. Waiting(st) <=> Waiting(rest) \/ Last(st).commits # "nothing"
  BY <1>3, <1>4 DEF Waiting
<1> QED
  BY <1>2, <1>4, <1>5 DEF rest

LEMMA Kinds ==
  ASSUME NEW p \in Puts
  PROVE  /\ p.commits \in {"minimum", "maximum", "nothing"}
         /\ p.bound \in Numbers
BY RangeAssumption DEF Puts, Contractions, Nothing, Put

LEMMA Built ==
  ASSUME NEW w \in {"minimum", "maximum"}, NEW b \in Numbers
  PROVE  /\ Put(w, b) \in Puts /\ Put(w, b).commits = w /\ Put(w, b).bound = b
         /\ Nothing \in Puts /\ Nothing.commits = "nothing"
BY DEF Puts, Contractions, Nothing, Put

LEMMA CoercedInRange ==
  ASSUME NEW x \in Numbers, NEW low \in Numbers, NEW high \in Numbers
  PROVE  /\ Coerced(x, low, high) \in Numbers
         /\ Larger(low, high) \in Numbers
         /\ low <= high => low <= Coerced(x, low, high) /\ Coerced(x, low, high) <= high
BY RangeAssumption DEF Coerced, Larger, Smaller

-----------------------------------------------------------------------------
(* A call that coerces the value to a range low to high and then has f to  *)
(* commit: what it makes of the calls that wait.                           *)
LEMMA CoerceStep ==
  ASSUME RangeInv, NEW low \in Numbers, NEW high \in Numbers, NEW f \in Puts,
         uncoerced' \in Numbers, CoerceValue(low, high, f)
  PROVE  /\ rangeValue' = Coerced(uncoerced', low, high) /\ rangeValue' \in Numbers
         /\ puts' \in Seq(Puts)
         /\ \/ rangeValue' = rangeValue /\ puts' = puts
            \/ /\ rangeValue' # rangeValue /\ puts' # <<>> /\ Last(puts') = f
               /\ Waiting(puts') <=> Waiting(puts) \/ f.commits # "nothing"
               /\ Waiting(Front(puts')) <=> Waiting(puts)
<1>1. puts \in Seq(Puts)
  BY DEF RangeInv, RangeTypeOK, Puts
<1> QED
  BY <1>1, Pushed, CoercedInRange DEF CoerceValue

(* Unless contested, the bounds are in order.                              *)
LEMMA Ordered ==
  ASSUME RangeInv
  PROVE  /\ minimum \in Int /\ maximum \in Int /\ rangeValue \in Int /\ uncoerced \in Int
         /\ ~contested => minimum <= maximum
<1>1. minimum \in Int /\ maximum \in Int /\ rangeValue \in Int /\ uncoerced \in Int
  BY RangeAssumption DEF RangeInv, RangeTypeOK
<1>2. ~contested => minimum <= rangeValue /\ rangeValue <= maximum
  BY DEF RangeInv
<1> QED
  BY <1>1, <1>2

LEMMA MinimumStep ==
  ASSUME RangeInv, NEW v \in Numbers, PutMinimum(v)
  PROVE  RangeInv'
<1> USE RangeAssumption
<1>1. /\ {minimum, maximum, rangeValue, uncoerced} \subseteq Numbers /\ puts \in Seq(Puts)
      /\ {contested, failed} \subseteq BOOLEAN /\ uncoerced' = uncoerced
      /\ contested' \in BOOLEAN /\ failed' = FALSE
      /\ ~contested' => ~contested /\ ~Waiting(puts)
  BY DEF PutMinimum, Begins, Pending, Waiting, RangeInv, RangeTypeOK, Puts
<1>2. CASE v <= minimum /\ minimum' = v /\ maximum' = maximum /\ CoerceValue(v, maximum, Nothing)
  <2>1. /\ rangeValue' = Coerced(uncoerced, v, maximum) /\ rangeValue' \in Numbers
        /\ puts' \in Seq(Puts)
        /\ Waiting(puts') <=> Waiting(puts)
    BY <1>1, <1>2, CoerceStep, Built
  <2>2. RangeTypeOK'
    BY <1>1, <1>2, <2>1 DEF RangeTypeOK, Puts
  <2>3. ~contested' => v <= maximum
    BY <1>1, <1>2, Ordered
  <2>5. ~contested' => ~Waiting(puts')
    BY <1>1, <2>1, Zenon
  <2>4. ~contested' => v <= rangeValue' /\ rangeValue' <= maximum
    BY <1>1, <1>2, <2>1, <2>3, CoercedInRange
  <2>6. /\ minimum' = v /\ maximum' = maximum
        /\ rangeValue' = Coerced(uncoerced', minimum', maximum')
    BY <1>1, <1>2, <2>1
  <2> QED
    BY <2>2, <2>4, <2>5, <2>6, Zenon DEF RangeInv
<1>3. CASE /\ v > minimum /\ maximum' = Larger(v, maximum)
           /\ CoerceValue(v, maximum', Put("minimum", v))
           /\ minimum' = IF rangeValue' = rangeValue THEN v ELSE minimum
  <2>1. maximum' \in Numbers /\ minimum' \in Numbers /\ v <= maximum' /\ Put("minimum", v) \in Puts
    BY <1>1, <1>3, Built DEF Larger
  <2>2. /\ rangeValue' = Coerced(uncoerced, v, maximum') /\ rangeValue' \in Numbers
        /\ puts' \in Seq(Puts)
        /\ \/ rangeValue' = rangeValue /\ puts' = puts
           \/ /\ rangeValue' # rangeValue /\ puts' # <<>> /\ Last(puts') = Put("minimum", v)
              /\ Waiting(puts')
              /\ Waiting(Front(puts')) <=> Waiting(puts)
    BY <1>1, <1>3, <2>1, CoerceStep, Built
  <2>3. RangeTypeOK'
    BY <1>1, <2>1, <2>2 DEF RangeTypeOK, Puts
  <2>4. v <= rangeValue' /\ rangeValue' <= maximum'
    BY <1>1, <2>1, <2>2, CoercedInRange
  <2>5. CASE rangeValue' = rangeValue /\ puts' = puts
    BY <1>1, <1>3, <2>2, <2>3, <2>4, <2>5 DEF RangeInv
  <2>6. CASE /\ rangeValue' # rangeValue /\ puts' # <<>> /\ Last(puts') = Put("minimum", v)
             /\ Waiting(puts')
             /\ Waiting(Front(puts')) <=> Waiting(puts)
    <3>1. Last(puts').commits = "minimum" /\ Last(puts').bound = v /\ minimum' = minimum
      BY <1>3, <2>6, Built
    <3>2. MinimumWaits'
      BY <1>1, <1>3, <2>1, <2>2, <3>1 DEF MinimumWaits
    <3>3. minimum' <= rangeValue'
      BY <1>1, <1>3, <2>2, <2>4, <3>1
    <3> QED
      BY <1>1, <2>3, <2>4, <2>6, <3>2, <3>3 DEF RangeInv
  <2> QED
    BY <2>2, <2>5, <2>6
<1> QED
  BY <1>2, <1>3 DEF PutMinimum

LEMMA MaximumStep ==
  ASSUME RangeInv, NEW v \in Numbers, PutMaximum(v)
  PROVE  RangeInv'
<1> USE RangeAssumption
<1> DEFINE b == CoercedMaximum(v)
<1>1. /\ {minimum, maximum, rangeValue, uncoerced} \subseteq Numbers /\ puts \in Seq(Puts)
      /\ {contested, failed} \subseteq BOOLEAN /\ uncoerced' = uncoerced /\ minimum' = minimum
      /\ contested' \in BOOLEAN /\ failed' = FALSE
      /\ ~contested' => ~contested /\ ~Waiting(puts)
  BY DEF PutMaximum, Begins, Pending, Waiting, RangeInv, RangeTypeOK, Puts
<1>2. CASE v >= maximum /\ maximum' = v /\ CoerceValue(minimum, v, Nothing)
  <2>1. /\ rangeValue' = Coerced(uncoerced, minimum, v) /\ rangeValue' \in Numbers
        /\ puts' \in Seq(Puts)
        /\ Waiting(puts') <=> Waiting(puts)
    BY <1>1, <1>2, CoerceStep, Built
  <2>2. RangeTypeOK'
    BY <1>1, <1>2, <2>1 DEF RangeTypeOK, Puts
  <2>3. ~contested' => minimum <= v
    BY <1>1, <1>2, Ordered
  <2>5. ~contested' => ~Waiting(puts')
    BY <1>1, <2>1, Zenon
  <2>4. ~contested' => minimum <= rangeValue' /\ rangeValue' <= v
    BY <1>1, <1>2, <2>1, <2>3, CoercedInRange
  <2>6. /\ minimum' = minimum /\ maximum' = v
        /\ rangeValue' = Coerced(uncoerced', minimum', maximum')
    BY <1>1, <1>2, <2>1
  <2> QED
    BY <2>2, <2>4, <2>5, <2>6, Zenon DEF RangeInv
<1>3. CASE /\ v < maximum
           /\ CoerceValue(minimum, b, Put("maximum", b))
           /\ maximum' = IF rangeValue' = rangeValue THEN b ELSE maximum
  <2>1. b \in Numbers /\ maximum' \in Numbers /\ minimum <= b /\ Put("maximum", b) \in Puts
    <3>1. b \in Numbers /\ minimum <= b
      <4>1. minimum \in Numbers /\ minimum \in Int /\ v \in Int
        BY <1>1, RangeAssumption
      <4>2. b = IF v >= minimum THEN v ELSE minimum
        BY DEF Larger, CoercedMaximum
      <4> QED
        BY <4>1, <4>2
    <3> HIDE DEF b
    <3> QED
      BY <1>1, <1>3, <3>1, Built
  <2>2. ~contested' => b <= maximum
    BY <1>1, <1>3, Ordered DEF Larger, CoercedMaximum
  <2> HIDE DEF b
  <2>3. /\ rangeValue' = Coerced(uncoerced, minimum, b) /\ rangeValue' \in Numbers
        /\ puts' \in Seq(Puts)
        /\ \/ rangeValue' = rangeValue /\ puts' = puts
           \/ /\ rangeValue' # rangeValue /\ puts' # <<>> /\ Last(puts') = Put("maximum", b)
              /\ Waiting(puts')
              /\ Waiting(Front(puts')) <=> Waiting(puts)
    BY <1>1, <1>3, <2>1, CoerceStep, Built
  <2>4. RangeTypeOK'
    BY <1>1, <2>1, <2>3 DEF RangeTypeOK, Puts
  <2>5. minimum <= rangeValue' /\ rangeValue' <= b
    BY <1>1, <2>1, <2>3, CoercedInRange
  <2>6. CASE rangeValue' = rangeValue /\ puts' = puts
    BY <1>1, <1>3, <2>3, <2>4, <2>5, <2>6 DEF RangeInv
  <2>7. CASE /\ rangeValue' # rangeValue /\ puts' # <<>> /\ Last(puts') = Put("maximum", b)
             /\ Waiting(puts')
             /\ Waiting(Front(puts')) <=> Waiting(puts)
    <3>1. Last(puts').commits = "maximum" /\ Last(puts').bound = b /\ maximum' = maximum
      BY <1>3, <2>1, <2>7, Built
    <3>2. ~contested' => MaximumWaits'
      BY <1>1, <1>3, <2>1, <2>2, <2>3, <3>1 DEF MaximumWaits
    <3>3. ~contested' => rangeValue' <= maximum'
      BY <1>1, <2>1, <2>2, <2>3, <2>5, <3>1
    <3> QED
      BY <1>1, <2>4, <2>5, <2>7, <3>2, <3>3 DEF RangeInv
  <2> QED
    BY <2>3, <2>6, <2>7
<1> QED
  BY <1>2, <1>3 DEF PutMaximum

LEMMA ValueStep ==
  ASSUME RangeInv, NEW v \in Numbers, PutValue(v)
  PROVE  RangeInv'
<1> USE RangeAssumption
<1>1. /\ {minimum, maximum, rangeValue, uncoerced} \subseteq Numbers /\ puts \in Seq(Puts)
      /\ {contested, failed} \subseteq BOOLEAN /\ uncoerced' = v
      /\ minimum' = minimum /\ maximum' = maximum
      /\ contested' \in BOOLEAN /\ failed' = FALSE
      /\ ~contested' => ~contested /\ ~Waiting(puts)
  BY DEF PutValue, Begins, Pending, Waiting, RangeInv, RangeTypeOK, Puts
<1>2. /\ rangeValue' = Coerced(v, minimum, maximum) /\ rangeValue' \in Numbers
      /\ puts' \in Seq(Puts)
      /\ Waiting(puts') <=> Waiting(puts)
  <2>1. CoerceValue(minimum, maximum, Nothing)
    BY DEF PutValue
  <2> QED
    BY <1>1, <2>1, CoerceStep, Built
<1>3. RangeTypeOK'
  BY <1>1, <1>2 DEF RangeTypeOK, Puts
<1>4. ~contested' => minimum <= maximum
  BY <1>1, Ordered
<1>6. ~contested' => ~Waiting(puts')
  BY <1>1, <1>2, Zenon
<1>5. ~contested' => minimum <= rangeValue' /\ rangeValue' <= maximum
  BY <1>1, <1>2, <1>4, CoercedInRange
<1> QED
  BY <1>1, <1>2, <1>3, <1>5, <1>6 DEF RangeInv

(* The innermost call ends, with its bound committed or not.               *)
LEMMA EndStep ==
  ASSUME RangeInv, HandlersReturn \/ HandlerFails
  PROVE  RangeInv'
<1> USE RangeAssumption
<1>1. /\ {minimum, maximum, rangeValue, uncoerced} \subseteq Numbers /\ puts \in Seq(Puts)
      /\ {contested, failed} \subseteq BOOLEAN /\ puts # <<>> /\ puts' = Front(puts)
      /\ rangeValue' = rangeValue /\ uncoerced' = uncoerced /\ contested' = contested
  BY DEF HandlersReturn, HandlerFails, RangeInv, RangeTypeOK, Puts
<1>2. /\ puts' \in Seq(Puts)
      /\ Waiting(puts) <=> Waiting(puts') \/ Last(puts).commits # "nothing"
      /\ Last(puts).commits \in {"minimum", "maximum", "nothing"} /\ Last(puts).bound \in Numbers
  BY <1>1, Popped, Kinds
<1>3. RangeTypeOK'
  BY <1>1, <1>2 DEF RangeTypeOK, Puts, HandlersReturn, HandlerFails
<1>4. ~contested' => ~Waiting(puts')
  BY <1>1, <1>2 DEF RangeInv
<1>5. CASE HandlersReturn
  <2>1. CASE Last(puts).commits = "nothing"
    BY <1>1, <1>2, <1>3, <1>4, <1>5, <2>1 DEF RangeInv, HandlersReturn
  <2>2. CASE Last(puts).commits = "minimum"
    <3>1. minimum' = Last(puts).bound /\ maximum' = maximum
      BY <1>5, <2>2 DEF HandlersReturn
    <3>2. ~contested => MinimumWaits
      BY <1>2, <2>2 DEF RangeInv, MaximumWaits
    <3>3. ~contested => /\ rangeValue = Coerced(uncoerced, Last(puts).bound, maximum)
                        /\ Last(puts).bound <= rangeValue /\ rangeValue <= maximum
      <4>1. ~contested => /\ rangeValue = Coerced(uncoerced, Last(puts).bound, maximum)
                          /\ Last(puts).bound <= maximum
        BY <3>2 DEF MinimumWaits
      <4>2. uncoerced \in Numbers /\ maximum \in Numbers /\ Last(puts).bound \in Numbers
        BY <1>1, <1>2
      <4>3. Last(puts).bound <= maximum =>
              /\ Last(puts).bound <= Coerced(uncoerced, Last(puts).bound, maximum)
              /\ Coerced(uncoerced, Last(puts).bound, maximum) <= maximum
        BY <4>2, CoercedInRange
      <4> QED
        BY <4>1, <4>3, Zenon
    <3> QED
      BY <1>1, <1>3, <1>4, <3>1, <3>3 DEF RangeInv
  <2>3. CASE Last(puts).commits = "maximum"
    <3>1. maximum' = Last(puts).bound /\ minimum' = minimum
      BY <1>5, <2>3 DEF HandlersReturn
    <3>2. ~contested => MaximumWaits
      BY <1>2, <2>3 DEF RangeInv, MinimumWaits
    <3>3. ~contested => /\ rangeValue = Coerced(uncoerced, minimum, Last(puts).bound)
                        /\ minimum <= rangeValue /\ rangeValue <= Last(puts).bound
      <4>1. ~contested => /\ rangeValue = Coerced(uncoerced, minimum, Last(puts).bound)
                          /\ minimum <= Last(puts).bound
        BY <3>2 DEF MaximumWaits
      <4>2. uncoerced \in Numbers /\ minimum \in Numbers /\ Last(puts).bound \in Numbers
        BY <1>1, <1>2
      <4>3. minimum <= Last(puts).bound =>
              /\ minimum <= Coerced(uncoerced, minimum, Last(puts).bound)
              /\ Coerced(uncoerced, minimum, Last(puts).bound) <= Last(puts).bound
        BY <4>2, CoercedInRange
      <4> QED
        BY <4>1, <4>3, Zenon
    <3> QED
      BY <1>1, <1>3, <1>4, <3>1, <3>3 DEF RangeInv
  <2> QED
    BY <1>2, <2>1, <2>2, <2>3
<1>6. CASE HandlerFails
  <2>1. /\ minimum' = minimum /\ maximum' = maximum
        /\ failed' = (failed \/ Last(puts).commits # "nothing")
    BY <1>6 DEF HandlerFails
  <2>2. ~failed' => ~failed /\ (~contested => ~Waiting(puts))
    BY <1>1, <1>2, <1>4, <2>1
  <2> QED
    BY <1>1, <1>3, <1>4, <2>1, <2>2 DEF RangeInv
<1> QED
  BY <1>5, <1>6

(* The value is in the range at any time, and settled once the handlers    *)
(* have returned.                                                          *)
THEOREM RangeCorrect == RangeSpec => []RangeKept
<1>1. RangeInit => RangeInv
  <2> SUFFICES ASSUME RangeInit PROVE RangeInv
    OBVIOUS
  <2>1. puts = <<>> /\ puts \in Seq(Puts) /\ ~Waiting(puts)
    BY DEF RangeInit, Waiting
  <2>2. minimum = 0 /\ maximum = 1 /\ rangeValue = 0 /\ uncoerced = 0
    BY DEF RangeInit
  <2>3. RangeTypeOK
    BY <2>1, <2>2, RangeAssumption DEF RangeInit, RangeTypeOK, Puts
  <2>4. rangeValue = Coerced(uncoerced, minimum, maximum)
    BY <2>2 DEF Coerced, Larger, Smaller
  <2>5. minimum <= rangeValue /\ rangeValue <= maximum
    BY <2>2
  <2> QED
    BY <2>1, <2>3, <2>4, <2>5 DEF RangeInv
<1>2. RangeInv /\ [RangeNext]_rangeVars => RangeInv'
  <2> SUFFICES ASSUME RangeInv, [RangeNext]_rangeVars PROVE RangeInv'
    OBVIOUS
  <2>1. ASSUME NEW v \in Numbers, PutMinimum(v) \/ PutMaximum(v) \/ PutValue(v) PROVE RangeInv'
    BY <2>1, MinimumStep, MaximumStep, ValueStep
  <2>2. CASE HandlersReturn \/ HandlerFails
    BY <2>2, EndStep
  <2>3. CASE UNCHANGED rangeVars
    BY <2>3 DEF RangeInv, RangeTypeOK, rangeVars, Waiting, MinimumWaits, MaximumWaits
  <2> QED
    BY <2>1, <2>2, <2>3 DEF RangeNext
<1>3. RangeInv => RangeKept
  BY DEF RangeInv, RangeKept, Waiting
<1> QED
  BY <1>1, <1>2, <1>3, PTL DEF RangeSpec

-----------------------------------------------------------------------------
(* The frame.                                                              *)
Frames == [page : Pages, at : Nat, from : Nat]
(* A call goes to the next entry or the one before, or shows the first.    *)
Near(b) == b.at <= b.from + 1 /\ b.from <= b.at + 1
FactoryCalls == {b \in Frames : Near(b)}

JournalInv ==
    /\ journal \in Seq(Pages) /\ position \in Nat /\ content \in Pages \cup {Nowhere}
    /\ building \in Seq(Frames) /\ overtaken \in BOOLEAN
    /\ ~overtaken =>
         /\ building \in Seq(FactoryCalls)
         /\ content # Nowhere => position < Len(journal) /\ content = journal[position + 1]
         /\ content = Nowhere => position = 0

-----------------------------------------------------------------------------
(* What is before and what is after an entry.                              *)
LEMMA Before ==
  ASSUME NEW s \in Seq(Pages), NEW n \in Nat, n < Len(s)
  PROVE  /\ SubSeq(s, 1, n + 1) = Append(SubSeq(s, 1, n), s[n + 1])
         /\ Len(SubSeq(s, 1, n)) = n
         /\ n > 0 => /\ SubSeq(s, 1, n)[n] = s[n]
                     /\ SubSeq(SubSeq(s, 1, n), 1, n - 1) = SubSeq(s, 1, n - 1)
<1>1. Len(s) \in Nat /\ \A i \in 1 .. Len(s) : s[i] \in Pages
  BY LenProperties, ElementOfSeq
<1>2. /\ SubSeq(s, 1, n) \in Seq(Pages) /\ Len(SubSeq(s, 1, n)) = n
      /\ \A i \in 1 .. n : SubSeq(s, 1, n)[i] = s[i]
  <2>1. \A i \in 1 .. n : s[i] \in Pages
    BY <1>1
  <2> QED
    BY <2>1, SubSeqProperties
<1>3. SubSeq(s, 1, n + 1) = Append(SubSeq(s, 1, n), s[n + 1])
  <2>1. SubSeq(s, 1, n + 1) = SubSeq(s, 1, n + 1 - 1) \o <<s[n + 1]>>
    BY <1>1, SubSeqRecursiveSecond
  <2> QED
    BY <1>1, <1>2, <2>1, AppendIsConcat
<1>4. CASE n > 1
  BY <1>1, <1>2, <1>3, <1>4, SubSeqOfSubSeq
<1>5. CASE n = 1
  BY <1>1, <1>2, <1>3, <1>5, SubSeqEmpty
<1>6. CASE n = 0
  BY <1>2, <1>3, <1>6
<1>7. n > 1 \/ n = 1 \/ n = 0
  OBVIOUS
<1> QED
  BY <1>4, <1>5, <1>6, <1>7, Zenon

LEMMA LaterEntries ==
  ASSUME NEW s \in Seq(Pages), NEW n \in Nat, n < Len(s)
  PROVE  /\ SubSeq(s, n + 1, Len(s)) = <<s[n + 1]>> \o SubSeq(s, n + 2, Len(s))
         /\ n + 1 < Len(s) => /\ SubSeq(s, n + 2, Len(s)) # <<>>
                              /\ Head(SubSeq(s, n + 2, Len(s))) = s[n + 2]
                              /\ Tail(SubSeq(s, n + 2, Len(s))) = SubSeq(s, n + 3, Len(s))
<1>1. Len(s) \in Nat /\ \A i \in 1 .. Len(s) : s[i] \in Pages
  BY LenProperties, ElementOfSeq
<1>2. SubSeq(s, n + 1, Len(s)) = <<s[n + 1]>> \o SubSeq(s, n + 1 + 1, Len(s))
  BY <1>1, SubSeqRecursiveFirst
<1>3. ASSUME n + 1 < Len(s)
      PROVE  /\ SubSeq(s, n + 2, Len(s)) # <<>>
             /\ Head(SubSeq(s, n + 2, Len(s))) = s[n + 2]
             /\ Tail(SubSeq(s, n + 2, Len(s))) = SubSeq(s, n + 2 + 1, Len(s))
  <2>1. n + 2 \in 1 .. Len(s) /\ Len(s) \in n + 2 .. Len(s)
    BY <1>1, <1>3
  <2>2. Len(SubSeq(s, n + 2, Len(s))) > 0
    <3>1. \A i \in n + 2 .. Len(s) : s[i] \in Pages
      BY <1>1
    <3>2. Len(SubSeq(s, n + 2, Len(s))) = Len(s) - (n + 2) + 1
      BY <1>1, <1>3, <3>1, SubSeqProperties
    <3> QED
      BY <1>1, <1>3, <3>2
  <2>3. SubSeq(s, n + 2, Len(s)) # <<>>
    BY <2>2
  <2>4. /\ Head(SubSeq(s, n + 2, Len(s))) = s[n + 2]
        /\ Tail(SubSeq(s, n + 2, Len(s))) = SubSeq(s, n + 2 + 1, Len(s))
    BY <2>1, HeadTailOfSubSeq, Zenon
  <2> QED
    BY <2>3, <2>4
<1> QED
  BY <1>2, <1>3

(* What the entry of a page that is navigated to replaces.                 *)
LEMMA Replaced ==
  ASSUME NEW s \in Seq(Pages), NEW n \in Nat, n < Len(s), NEW p \in Pages
  PROVE  LET new == Append(SubSeq(s, 1, n + 1), p)
         IN /\ Len(new) = n + 2 /\ new[n + 1] = s[n + 1]
            /\ SubSeq(new, 1, n) = SubSeq(s, 1, n)
            /\ SubSeq(new, n + 2, Len(new)) = <<p>>
<1> DEFINE new == Append(SubSeq(s, 1, n + 1), p)
<1>1. Len(s) \in Nat /\ \A i \in 1 .. Len(s) : s[i] \in Pages
  BY LenProperties, ElementOfSeq
<1>2. /\ SubSeq(s, 1, n + 1) \in Seq(Pages) /\ Len(SubSeq(s, 1, n + 1)) = n + 1
      /\ \A i \in 1 .. n + 1 : SubSeq(s, 1, n + 1)[i] = s[i]
  <2>1. \A i \in 1 .. n + 1 : s[i] \in Pages
    BY <1>1
  <2> QED
    BY <2>1, SubSeqProperties
<1>3. /\ new \in Seq(Pages) /\ Len(new) = n + 2 /\ new[n + 2] = p
      /\ \A i \in 1 .. n + 1 : new[i] = s[i]
  BY <1>2, AppendProperties
<1> HIDE DEF new
<1>4. SubSeq(new, 1, n) = SubSeq(s, 1, n)
  <2>1. /\ SubSeq(s, 1, n) \in Seq(Pages) /\ Len(SubSeq(s, 1, n)) = n
        /\ \A i \in 1 .. n : SubSeq(s, 1, n)[i] = s[i]
    <3>1. \A i \in 1 .. n : s[i] \in Pages
      BY <1>1
    <3> QED
      BY <3>1, SubSeqProperties
  <2>2. /\ SubSeq(new, 1, n) \in Seq(Pages) /\ Len(SubSeq(new, 1, n)) = n
        /\ \A i \in 1 .. n : SubSeq(new, 1, n)[i] = new[i]
    <3>1. \A i \in 1 .. n : new[i] \in Pages
      BY <1>1, <1>3
    <3> QED
      BY <3>1, SubSeqProperties
  <2> QED
    BY <1>3, <2>1, <2>2, SeqEqual
<1>5. SubSeq(new, n + 2, n + 2) = <<p>>
  <2>1. SubSeq(new, n + 2, n + 2) = <<new[n + 2]>> \o SubSeq(new, n + 2 + 1, n + 2)
    <3>1. new \in Seq(Pages) /\ n + 2 \in 1 .. Len(new) /\ n + 2 \in n + 2 .. Len(new)
      BY <1>3
    <3> QED
      BY <3>1, SubSeqRecursiveFirst, Zenon
  <2>2. SubSeq(new, n + 2 + 1, n + 2) = <<>>
    BY SubSeqEmpty
  <2>3. <<p>> \in Seq(Pages)
    OBVIOUS
  <2>4. <<p>> \o <<>> = <<p>>
    BY <2>3, ConcatEmptySeq, Zenon
  <2> QED
    BY <1>3, <2>1, <2>2, <2>4, Zenon
<1> QED
  BY <1>3, <1>4, <1>5 DEF new

LEMMA PairOf ==
  ASSUME NEW a \in Pages, NEW p \in Pages
  PROVE  Append(<<a>>, p) = <<a, p>>
<1> DEFINE one == <<a>>
           two == Append(one, p)
           both == <<a, p>>
<1>1. one \in Seq(Pages) /\ Len(one) = 1 /\ one[1] = a
  OBVIOUS
<1>2. both \in Seq(Pages) /\ Len(both) = 2 /\ both[1] = a /\ both[2] = p
  OBVIOUS
<1> HIDE DEF one, both
<1>3. /\ two \in Seq(Pages) /\ Len(two) = Len(one) + 1 /\ two[Len(one) + 1] = p
      /\ \A i \in 1 .. Len(one) : two[i] = one[i]
  BY <1>1, AppendProperties, ZenonT(60)
<1> HIDE DEF two
<1>4. Len(two) = 2 /\ two[1] = a /\ two[2] = p
  <2>1. Len(one) + 1 = 2 /\ 1 \in 1 .. Len(one)
    BY <1>1
  <2>2. two[1] = one[1] /\ two[2] = p /\ Len(two) = 2
    BY <1>3, <2>1, Zenon
  <2> QED
    BY <1>1, <2>2, Zenon
<1>5. two = both
  BY <1>2, <1>3, <1>4, SeqEqual
<1> QED
  BY <1>5 DEF one, two, both

LEMMA Pair ==
  ASSUME NEW s \in Seq(Pages), NEW p \in Pages, Len(s) = 1
  PROVE  Append(s, p) = <<s[1], p>>
<1>1. s[1] \in Pages
  <2>1. 1 \in 1 .. Len(s)
    OBVIOUS
  <2> QED
    BY <2>1, ElementOfSeq
<1>2. s = <<s[1]>>
  <2> DEFINE one == <<s[1]>>
  <2>1. one \in Seq(Pages) /\ Len(one) = Len(s) /\ \A i \in 1 .. Len(s) : s[i] = one[i]
    BY <1>1
  <2> HIDE DEF one
  <2>2. s = one
    BY <2>1, SeqEqual
  <2> QED
    BY <2>2 DEF one
<1>3. Append(<<s[1]>>, p) = <<s[1], p>>
  BY <1>1, PairOf
<1> QED
  BY <1>2, <1>3, Zenon

LEMMA InnerCall ==
  ASSUME NEW S, NEW st \in Seq(S), st # <<>>
  PROVE  Front(st) \in Seq(S) /\ Last(st) \in S
<1>1. Len(st) \in Nat /\ Len(st) >= 1 /\ \A i \in 1 .. Len(st) : st[i] \in S
  OBVIOUS
<1> QED
  BY <1>1 DEF Front, Last

-----------------------------------------------------------------------------
(* A page is navigated to: what that makes of the journal.                 *)
LEMMA NavigateStep ==
  ASSUME JournalInv, NEW p \in Pages, Navigate(p)
  PROVE  /\ journal' \in Seq(Pages) /\ Len(journal') \in Nat \ {0}
         /\ UNCHANGED <<position, content, overtaken>>
         /\ building' = Append(building, [page |-> journal'[Len(journal')], at |-> Len(journal') - 1, from |-> position])
         /\ ~overtaken /\ Shown =>
              /\ Len(journal') = position + 2 /\ journal'[position + 1] = content
              /\ SubSeq(journal', 1, position) = SubSeq(journal, 1, position)
              /\ SubSeq(journal', position + 2, Len(journal')) = <<p>>
         /\ ~overtaken /\ ~Shown =>
              journal' = IF journal = <<>> THEN <<p>> ELSE <<Head(journal), p>>
<1>1. journal \in Seq(Pages) /\ position \in Nat /\ Len(journal) \in Nat
  BY LenProperties DEF JournalInv
<1>2. KeptEntries \in Seq(Pages)
  <2>1. CASE position + 1 < Len(journal)
    <3>1. \A i \in 1 .. position + 1 : journal[i] \in Pages
      BY <1>1, <2>1, ElementOfSeq
    <3> QED
      BY <1>1, <2>1, <3>1, SubSeqProperties DEF KeptEntries
  <2> QED
    BY <1>1, <2>1 DEF KeptEntries
<1>3. /\ journal' = Append(KeptEntries, p)
      /\ Realize(Len(journal') - 1)
  BY DEF Navigate
<1>4. journal' \in Seq(Pages) /\ Len(journal') \in Nat \ {0}
  BY <1>2, <1>3, AppendProperties, LenProperties
<1>5. /\ UNCHANGED <<position, content, overtaken>>
      /\ building' = Append(building, [page |-> journal'[Len(journal')], at |-> Len(journal') - 1, from |-> position])
  <2>1. Len(journal') - 1 + 1 = Len(journal')
    BY <1>4
  <2> QED
    BY <1>3, <2>1 DEF Realize
<1>6. ASSUME ~overtaken, Shown
      PROVE  /\ Len(journal') = position + 2 /\ journal'[position + 1] = content
             /\ SubSeq(journal', 1, position) = SubSeq(journal, 1, position)
             /\ SubSeq(journal', position + 2, Len(journal')) = <<p>>
  <2>1. position < Len(journal) /\ content = journal[position + 1]
    BY <1>6 DEF JournalInv, Shown
  <2>2. KeptEntries = SubSeq(journal, 1, position + 1)
    <3>1. CASE position + 1 < Len(journal)
      BY <3>1 DEF KeptEntries
    <3>2. CASE position + 1 = Len(journal)
      BY <1>1, <3>2, SubSeqFull DEF KeptEntries
    <3> QED
      BY <1>1, <2>1, <3>1, <3>2
  <2>3. journal' = Append(SubSeq(journal, 1, position + 1), p)
    BY <1>3, <2>2
  <2>4. /\ Len(journal') = position + 2 /\ journal'[position + 1] = journal[position + 1]
        /\ SubSeq(journal', 1, position) = SubSeq(journal, 1, position)
        /\ SubSeq(journal', position + 2, Len(journal')) = <<p>>
    <3> DEFINE new == Append(SubSeq(journal, 1, position + 1), p)
    <3>1. /\ Len(new) = position + 2 /\ new[position + 1] = journal[position + 1]
          /\ SubSeq(new, 1, position) = SubSeq(journal, 1, position)
          /\ SubSeq(new, position + 2, Len(new)) = <<p>>
      BY <1>1, <2>1, Replaced
    <3> HIDE DEF new
    <3>2. journal' = new
      BY <2>3 DEF new
    <3> QED
      BY <3>1, <3>2
  <2> QED
    BY <2>1, <2>4
<1>7. ASSUME ~overtaken, ~Shown
      PROVE  journal' = IF journal = <<>> THEN <<p>> ELSE <<Head(journal), p>>
  <2>1. position = 0
    BY <1>7 DEF JournalInv, Shown
  <2>2. CASE journal = <<>>
    BY <1>3, <2>1, <2>2 DEF KeptEntries
  <2>3. CASE journal # <<>>
    <3>1. Len(journal) >= 1 /\ Head(journal) = journal[1] /\ journal[1] \in Pages
      BY <1>1, <2>3
    <3>2. Len(KeptEntries) = 1 /\ KeptEntries[1] = journal[1]
      <4>1. CASE Len(journal) = 1
        BY <2>1, <4>1 DEF KeptEntries
      <4>2. CASE Len(journal) > 1
        <5>1. \A i \in 1 .. 1 : journal[i] \in Pages
          BY <3>1
        <5>2. Len(SubSeq(journal, 1, 1)) = 1 /\ SubSeq(journal, 1, 1)[1] = journal[1]
          BY <5>1, SubSeqProperties
        <5> QED
          BY <2>1, <4>2, <5>2 DEF KeptEntries
      <4>3. Len(journal) = 1 \/ Len(journal) > 1
        <5>1. \A n \in Nat : n >= 1 => n = 1 \/ n > 1
          OBVIOUS
        <5> QED
          BY <1>1, <3>1, <5>1, Zenon
      <4> QED
        BY <4>1, <4>2, <4>3, Zenon
    <3>3. journal' = <<KeptEntries[1], p>>
      BY <1>2, <1>3, <3>2, Pair, Zenon
    <3> QED
      BY <2>3, <3>1, <3>2, <3>3
  <2> QED
    BY <2>2, <2>3
<1> QED
  BY <1>4, <1>5, <1>6, <1>7

(* A factory is called: the call goes to a neighbour of the page shown.    *)
LEMMA Called ==
  ASSUME JournalInv, NEW q \in Pages, NEW at \in Nat,
         building' = Append(building, [page |-> q, at |-> at, from |-> position])
  PROVE  /\ building' \in Seq(Frames)
         /\ ~overtaken /\ at <= position + 1 /\ position <= at + 1 => building' \in Seq(FactoryCalls)
<1> DEFINE f == [page |-> q, at |-> at, from |-> position]
<1>1. building \in Seq(Frames) /\ position \in Nat /\ (~overtaken => building \in Seq(FactoryCalls))
  BY DEF JournalInv
<1>2. f \in Frames
  BY <1>1 DEF Frames
<1>3. f.at = at /\ f.from = position
  OBVIOUS
<1>4. at <= position + 1 /\ position <= at + 1 => f \in FactoryCalls
  BY <1>2, <1>3 DEF FactoryCalls, Near
<1> HIDE DEF f
<1>5. building' = Append(building, f)
  BY DEF f
<1> QED
  BY <1>1, <1>2, <1>4, <1>5, AppendProperties

LEMMA NavigateInv ==
  ASSUME JournalInv, NEW p \in Pages, Navigate(p)
  PROVE  JournalInv'
<1>1. /\ journal' \in Seq(Pages) /\ Len(journal') \in Nat \ {0}
      /\ UNCHANGED <<position, content, overtaken>>
      /\ building' = Append(building, [page |-> journal'[Len(journal')], at |-> Len(journal') - 1, from |-> position])
  BY NavigateStep
<1>2. journal'[Len(journal')] \in Pages /\ Len(journal') - 1 \in Nat /\ position \in Nat
  BY <1>1 DEF JournalInv
<1>3. ~overtaken /\ Shown => Len(journal') = position + 2 /\ journal'[position + 1] = content
  BY NavigateStep
<1>4. ~overtaken /\ ~Shown => position = 0 /\ Len(journal') \in {1, 2}
  BY NavigateStep DEF JournalInv, Shown
<1>5. /\ building' \in Seq(Frames)
      /\ ~overtaken => building' \in Seq(FactoryCalls)
  <2>1. ~overtaken => Len(journal') - 1 <= position + 1 /\ position <= Len(journal') - 1 + 1
    BY <1>1, <1>2, <1>3, <1>4
  <2> QED
    BY <1>1, <1>2, <2>1, Called
<1>6. ~overtaken /\ Shown => position < Len(journal')
  BY <1>2, <1>3
<1> QED
  BY <1>1, <1>3, <1>4, <1>5, <1>6 DEF JournalInv, Shown

LEMMA MoveInv ==
  ASSUME JournalInv, GoBack \/ GoForward
  PROVE  JournalInv' /\ UNCHANGED <<journal, position, content, overtaken>>
<1>1. journal \in Seq(Pages) /\ position \in Nat /\ Len(journal) \in Nat
  BY LenProperties DEF JournalInv
<1>2. PICK at \in {position - 1, position + 1} :
        /\ at \in Nat /\ UNCHANGED journal /\ Realize(at)
  BY <1>1 DEF GoBack, GoForward
<1>3. /\ at < Len(journal)
      /\ building' = Append(building, [page |-> journal[at + 1], at |-> at, from |-> position])
      /\ UNCHANGED <<journal, position, content, overtaken>>
  BY <1>2 DEF Realize
<1>4. journal[at + 1] \in Pages
  BY <1>1, <1>2, <1>3, ElementOfSeq
<1>5. at <= position + 1 /\ position <= at + 1
  BY <1>1, <1>2
<1>6. building' \in Seq(Frames) /\ (~overtaken => building' \in Seq(FactoryCalls))
  BY <1>2, <1>3, <1>4, <1>5, Called
<1> QED
  BY <1>3, <1>6 DEF JournalInv

LEMMA EndInv ==
  ASSUME JournalInv, PageMade \/ PageFails
  PROVE  JournalInv'
<1>1. /\ building \in Seq(Frames) /\ building # <<>> /\ building' = Front(building)
      /\ journal' = journal /\ overtaken \in BOOLEAN
      /\ ~overtaken' => ~overtaken /\ building \in Seq(FactoryCalls)
  BY DEF JournalInv, PageMade, PageFails
<1>2. /\ building' \in Seq(Frames) /\ Last(building) \in Frames
      /\ ~overtaken' => building' \in Seq(FactoryCalls)
  BY <1>1, InnerCall
<1>3. CASE PageMade
  <2> DEFINE b == Last(building)
  <2>1. /\ content' = b.page /\ position' = b.at /\ overtaken' = (overtaken \/ ~StillEntry(b))
        /\ b.page \in Pages /\ b.at \in Nat
    BY <1>2, <1>3 DEF PageMade, ArrivedAt, Frames
  <2>2. ~overtaken' => b.at < Len(journal) /\ journal[b.at + 1] = b.page
    BY <2>1 DEF StillEntry
  <2>3. content' # Nowhere
    BY <2>1, FrameAssumption
  <2> QED
    BY <1>1, <1>2, <2>1, <2>2, <2>3 DEF JournalInv
<1>4. CASE PageFails
  BY <1>1, <1>2, <1>4 DEF JournalInv, PageFails
<1> QED
  BY <1>3, <1>4

-----------------------------------------------------------------------------
(* What the actions of the history say of the journal.                     *)
LEMMA Views ==
  /\ History!Init <=> Behind = <<>> /\ content = Nowhere /\ Ahead = <<>> /\ overtaken = FALSE
  /\ \A p : History!Propose(p) <=>
       /\ Ahead' = IF content = Nowhere /\ Ahead # <<>> THEN <<Head(Ahead), p>> ELSE <<p>>
       /\ UNCHANGED <<Behind, content, overtaken>>
  /\ \A i : History!Start(i) <=>
       /\ content = Nowhere /\ Behind' = SubSeq(Ahead, 1, i - 1) /\ content' = Ahead[i]
       /\ Ahead' = SubSeq(Ahead, i + 1, Len(Ahead)) /\ UNCHANGED overtaken
  /\ History!Forward <=>
       /\ content # Nowhere /\ Ahead # <<>> /\ Behind' = Append(Behind, content)
       /\ content' = Head(Ahead) /\ Ahead' = Tail(Ahead) /\ UNCHANGED overtaken
  /\ History!Back <=>
       /\ content # Nowhere /\ Behind # <<>> /\ Behind' = SubSeq(Behind, 1, Len(Behind) - 1)
       /\ content' = Behind[Len(Behind)] /\ Ahead' = <<content>> \o Ahead /\ UNCHANGED overtaken
BY DEF History!Init, History!Propose, History!Start, History!Forward, History!Back, History!Show,
       Behind, Ahead

LEMMA NavigateProposes ==
  ASSUME JournalInv, ~overtaken, NEW p \in Pages, Navigate(p)
  PROVE  History!Propose(p)
<1>1. UNCHANGED <<position, content, overtaken>> /\ (Shown' <=> Shown)
  BY NavigateStep DEF Shown
<1>2. CASE Shown
  <2>1. /\ SubSeq(journal', 1, position) = SubSeq(journal, 1, position)
        /\ SubSeq(journal', position + 2, Len(journal')) = <<p>>
    BY <1>2, NavigateStep
  <2>2. Behind' = Behind /\ Ahead' = <<p>>
    BY <1>1, <1>2, <2>1 DEF Behind, Ahead
  <2> QED
    BY <1>1, <1>2, <2>2, Views DEF Shown
<1>3. CASE ~Shown
  <2>1. journal' = IF journal = <<>> THEN <<p>> ELSE <<Head(journal), p>>
    BY <1>3, NavigateStep
  <2>2. Behind' = Behind /\ Ahead' = journal' /\ Ahead = journal
    BY <1>1, <1>3 DEF Behind, Ahead
  <2> QED
    BY <1>1, <1>3, <2>1, <2>2, Views DEF Shown
<1> QED
  BY <1>2, <1>3

(* A page whose entry has not been replaced is shown: the first one, the   *)
(* next or the previous one, or the one that is shown already.             *)
LEMMA MadeShows ==
  ASSUME JournalInv, PageMade, ~overtaken'
  PROVE  \/ \E i \in DOMAIN Ahead : History!Start(i)
         \/ History!Forward \/ History!Back
         \/ UNCHANGED <<Behind, content, Ahead, overtaken>>
<1> DEFINE b == Last(building)
           n == position
<1>1. /\ ~overtaken /\ building # <<>> /\ building \in Seq(FactoryCalls)
      /\ content' = b.page /\ position' = b.at /\ journal' = journal /\ UNCHANGED overtaken
      /\ n = b.from /\ b.at < Len(journal) /\ journal[b.at + 1] = b.page
  BY DEF JournalInv, PageMade, ArrivedAt, StillEntry
<1>2. b.page \in Pages /\ b.at \in Nat /\ b.at <= n + 1 /\ n <= b.at + 1
  <2>1. b \in FactoryCalls
    BY <1>1, InnerCall
  <2> QED
    BY <1>1, <2>1 DEF FactoryCalls, Frames, Near
<1>3. journal \in Seq(Pages) /\ n \in Nat /\ Len(journal) \in Nat /\ DOMAIN journal = 1 .. Len(journal)
  BY LenProperties DEF JournalInv
<1> DEFINE at == b.at
<1>4. /\ at \in Nat /\ at < Len(journal) /\ at <= n + 1 /\ n <= at + 1
      /\ content' = journal[at + 1] /\ content' # Nowhere
  BY <1>1, <1>2, FrameAssumption
<1>5. /\ Behind' = SubSeq(journal, 1, at)
      /\ Ahead' = SubSeq(journal, at + 2, Len(journal))
  BY <1>1, <1>4 DEF Behind, Ahead, Shown
<1> HIDE DEF b, at
<1>6. CASE ~Shown
  <2>1. Ahead = journal /\ content = Nowhere
    BY <1>6 DEF Ahead, Shown
  <2>2. /\ at + 1 \in DOMAIN Ahead /\ at + 1 - 1 = at /\ at + 1 + 1 = at + 2
    BY <1>3, <1>4, <2>1
  <2>3. History!Start(at + 1)
    <3> DEFINE i == at + 1
    <3>3. i - 1 = at /\ i = at + 1 /\ i + 1 = at + 2
      BY <1>4
    <3> HIDE DEF i
    <3>1. /\ Behind' = SubSeq(Ahead, 1, i - 1) /\ content' = Ahead[i]
          /\ Ahead' = SubSeq(Ahead, i + 1, Len(Ahead)) /\ UNCHANGED overtaken
      BY <1>1, <1>4, <1>5, <2>1, <3>3
    <3>2. History!Start(i)
      BY <2>1, <3>1, Views, Zenon
    <3> QED
      BY <3>2 DEF i
  <2> QED
    BY <2>2, <2>3
<1>7. CASE Shown
  <2>1. /\ n < Len(journal) /\ content = journal[n + 1] /\ content # Nowhere
        /\ Behind = SubSeq(journal, 1, n) /\ Ahead = SubSeq(journal, n + 2, Len(journal))
    BY <1>1, <1>7 DEF JournalInv, Behind, Ahead, Shown
  <2>2. CASE at = n + 1
    <3>1. at + 2 = n + 3 /\ at + 1 = n + 2 /\ n + 1 < Len(journal)
      BY <1>3, <1>4, <2>2
    <3>2. Behind' = Append(Behind, content)
      BY <1>3, <1>5, <2>1, <2>2, Before
    <3>3. Ahead # <<>> /\ content' = Head(Ahead) /\ Ahead' = Tail(Ahead)
      BY <1>3, <1>4, <1>5, <2>1, <3>1, LaterEntries
    <3> QED
      BY <1>1, <2>1, <3>2, <3>3, Views
  <2>3. CASE at = n - 1
    <3>1. n > 0 /\ at + 2 = n + 1 /\ at + 1 = n
      BY <1>3, <1>4, <2>3
    <3>2. Len(Behind) = n /\ Behind[n] = journal[n] /\ SubSeq(Behind, 1, n - 1) = SubSeq(journal, 1, n - 1)
      BY <1>3, <2>1, <3>1, Before
    <3>3. Behind # <<>>
      BY <3>1, <3>2
    <3>4. Ahead' = <<content>> \o Ahead
      BY <1>3, <1>5, <2>1, <3>1, LaterEntries
    <3> QED
      BY <1>1, <1>4, <1>5, <2>1, <2>3, <3>1, <3>2, <3>3, <3>4, Views
  <2>4. CASE at = n
    BY <1>1, <1>4, <1>5, <2>1, <2>4
  <2> QED
    BY <1>3, <1>4, <2>2, <2>3, <2>4
<1> QED
  BY <1>6, <1>7

LEMMA StepKept ==
  ASSUME JournalInv, [FrameNext]_frameVars
  PROVE  /\ JournalInv'
         /\ [overtaken' \/ History!Step]_(<<Behind, content, Ahead, overtaken>>)
<1>1. CASE overtaken' /\ FrameNext
  <2>1. JournalInv'
    BY <1>1, NavigateInv, MoveInv, EndInv DEF FrameNext
  <2> QED
    BY <1>1, <2>1
<1>2. ASSUME ~overtaken', NEW p \in Pages, Navigate(p) PROVE JournalInv' /\ History!Step
  <2>1. ~overtaken
    BY <1>2, NavigateStep
  <2> QED
    BY <1>2, <2>1, NavigateInv, NavigateProposes DEF History!Step
<1>3. CASE GoBack \/ GoForward
  BY <1>3, MoveInv DEF Behind, Ahead, Shown
<1>4. CASE ~overtaken' /\ PageMade
  <2>1. JournalInv'
    BY <1>4, EndInv
  <2>2. History!Step \/ UNCHANGED <<Behind, content, Ahead, overtaken>>
    BY <1>4, MadeShows DEF History!Step, Ahead
  <2> QED
    BY <2>1, <2>2
<1>5. CASE PageFails
  <2>1. UNCHANGED <<journal, position, content, overtaken>>
    BY <1>5 DEF PageFails
  <2> QED
    BY <1>5, <2>1, EndInv DEF Behind, Ahead, Shown
<1>6. CASE UNCHANGED frameVars
  BY <1>6 DEF frameVars, JournalInv, Behind, Ahead, Shown
<1> QED
  BY <1>1, <1>2, <1>3, <1>4, <1>5, <1>6 DEF FrameNext

(* Whichever pages fail to be made, and whatever a page navigates to while *)
(* it is made, the frame shows what its history says, unless a page is     *)
(* shown whose entry has been replaced.                                    *)
THEOREM FrameCorrect == FrameSpec => KeepsHistory
<1>1. FrameInit => JournalInv
  <2> SUFFICES ASSUME FrameInit PROVE JournalInv
    OBVIOUS
  <2>1. building \in Seq(Frames) /\ building \in Seq(FactoryCalls) /\ journal \in Seq(Pages)
    BY DEF FrameInit
  <2> QED
    BY <2>1 DEF FrameInit, JournalInv
<1>2. FrameInit => History!Init
  BY Views DEF FrameInit, Behind, Ahead, Shown
<1>3. JournalInv /\ [FrameNext]_frameVars => JournalInv' /\ [overtaken' \/ History!Step]_(History!history)
  BY StepKept DEF History!history, Behind, Ahead
<1> QED
  BY <1>1, <1>2, <1>3, PTL DEF FrameSpec, KeepsHistory, History!Spec

-----------------------------------------------------------------------------
(* The native menus.                                                       *)
(* A selection whose index is being told has not told its item yet.        *)
IndexTelling(st) == \E k \in DOMAIN st : st[k].at = "index"
SelectionInv ==
    /\ shows \in Seq(Shows)
    /\ items \in ItemLists \cup {<<>>}
    /\ IndexTelling(shows) \/ told = selected
    /\ ~outdated => index = IndexOf(items, selected)

-----------------------------------------------------------------------------
LEMMA ShowPushed ==
  ASSUME NEW st \in Seq(Shows), NEW f \in Shows
  PROVE  /\ Append(st, f) \in Seq(Shows)
         /\ IndexTelling(Append(st, f)) <=> IndexTelling(st) \/ f.at = "index"
<1> DEFINE new == Append(st, f)
<1>1. /\ new \in Seq(Shows) /\ DOMAIN new = DOMAIN st \cup {Len(st) + 1}
      /\ new[Len(st) + 1] = f /\ \A k \in DOMAIN st : new[k] = st[k]
  OBVIOUS
<1> HIDE DEF new
<1>2. IndexTelling(new) <=> IndexTelling(st) \/ f.at = "index"
  BY <1>1 DEF IndexTelling
<1> QED
  BY <1>1, <1>2 DEF new

LEMMA ShowPopped ==
  ASSUME NEW st \in Seq(Shows), st # <<>>
  PROVE  /\ Front(st) \in Seq(Shows)
         /\ Last(st).at # "index" => (IndexTelling(Front(st)) <=> IndexTelling(st))
<1> DEFINE rest == Front(st)
<1>1. Len(st) \in Nat /\ Len(st) >= 1 /\ DOMAIN st = 1..Len(st)
  OBVIOUS
<1>2. /\ rest \in Seq(Shows) /\ Len(rest) = Len(st) - 1 /\ DOMAIN rest = 1..(Len(st) - 1)
      /\ \A k \in 1..(Len(st) - 1) : rest[k] = st[k]
  BY <1>1 DEF Front
<1>3. DOMAIN st = DOMAIN rest \cup {Len(st)} /\ \A k \in DOMAIN rest : rest[k] = st[k]
  BY <1>1, <1>2
<1>4. Last(st) = st[Len(st)]
  BY DEF Last
<1> HIDE DEF rest
<1>5. Last(st).at # "index" => (IndexTelling(rest) <=> IndexTelling(st))
  BY <1>3, <1>4 DEF IndexTelling
<1> QED
  BY <1>2, <1>5 DEF rest

LEMMA NonEmpty ==
  ASSUME NEW st \in Seq(Shows), st # <<>>
  PROVE  /\ Len(st) \in Nat /\ DOMAIN st = 1..Len(st) /\ Len(st) \in DOMAIN st
         /\ \A k \in DOMAIN st : st[k] \in Shows
         /\ st \in [1..Len(st) -> Shows] /\ Last(st) = st[Len(st)]
<1>1. Len(st) \in Nat /\ Len(st) >= 1 /\ DOMAIN st = 1..Len(st)
  OBVIOUS
<1>2. \A k \in 1..Len(st) : st[k] \in Shows
  OBVIOUS
<1>3. st \in [1..Len(st) -> Shows]
  OBVIOUS
<1> QED
  BY <1>1, <1>2, <1>3 DEF Last

LEMMA IsSequence ==
  ASSUME NEW n \in Nat, NEW f \in [1..n -> Shows]
  PROVE  f \in Seq(Shows)
OBVIOUS

LEMMA Turned ==
  ASSUME NEW st \in Seq(Shows), st # <<>>, NEW a,
         a \in {"opened", "menu", "closing", "closing to click", "click", "closed", "selecting", "item", "changed"}
  PROVE  /\ [st EXCEPT ![Len(st)].at = a] \in Seq(Shows)
         /\ Last(st).at # "index" => (IndexTelling([st EXCEPT ![Len(st)].at = a]) <=> IndexTelling(st))
<1> DEFINE n == Len(st)
           turned == [st[n] EXCEPT !.at = a]
           new == [st EXCEPT ![n].at = a]
<1>1. n \in Nat /\ n \in 1..n /\ st \in [1..n -> Shows] /\ Last(st) = st[n] /\ st[n] \in Shows
  BY NonEmpty
<1> HIDE DEF n
<1>2. turned \in Shows /\ turned.at = a
  BY <1>1 DEF Shows
<1>3. new = [st EXCEPT ![n] = turned]
  BY <1>1
<1> HIDE DEF turned, new
<1>4. new \in [1..n -> Shows] /\ new[n] = turned /\ \A k \in 1..n : k # n => new[k] = st[k]
  BY <1>1, <1>2, <1>3
<1>5. new \in Seq(Shows)
  BY <1>1, <1>4, IsSequence
<1>6. DOMAIN new = 1..n /\ DOMAIN st = 1..n
  BY <1>1, <1>4
<1>7. Last(st).at # "index" => (IndexTelling(new) <=> IndexTelling(st))
  BY <1>1, <1>2, <1>4, <1>6 DEF IndexTelling
<1> QED
  BY <1>5, <1>7 DEF new, n

(* Where an item is in a list that holds each of its items once.           *)
LEMMA IndexFound ==
  /\ \A l \in ItemLists \cup {<<>>} : IndexOf(l, NoItem) = -1
  /\ \A l \in ItemLists \cup {<<>>} : \A i \in DOMAIN l : IndexOf(l, l[i]) = i - 1
<1>1. ASSUME NEW l \in ItemLists \cup {<<>>} PROVE IndexOf(l, NoItem) = -1
  <2>1. NoItem \notin ToSet(l)
    <3>1. CASE l \in ItemLists
      BY <3>1, PopupAssumption
    <3>2. CASE l = <<>>
      BY <3>2 DEF ToSet
    <3> QED
      BY <1>1, <3>1, <3>2
  <2> QED
    BY <2>1 DEF IndexOf
<1>2. ASSUME NEW l \in ItemLists \cup {<<>>}, NEW i \in DOMAIN l PROVE IndexOf(l, l[i]) = i - 1
  <2>1. l \in ItemLists /\ \A j \in DOMAIN l : l[j] = l[i] => j = i
    BY <1>2, PopupAssumption
  <2>2. (CHOOSE j \in DOMAIN l : l[j] = l[i]) = i
    BY <1>2, <2>1
  <2>3. l[i] \in ToSet(l)
    BY <1>2 DEF ToSet
  <2> QED
    BY <2>2, <2>3 DEF IndexOf
<1> QED
  BY <1>1, <1>2

-----------------------------------------------------------------------------
(* Steps that only show, hide and go on.                                   *)
LEMMA SameSelection ==
  ASSUME SelectionInv, UNCHANGED selectionVars, shows' \in Seq(Shows),
         IndexTelling(shows) => IndexTelling(shows')
  PROVE  SelectionInv'
BY DEF SelectionInv, selectionVars

LEMMA Turning ==
  ASSUME SelectionInv, shows # <<>>, Last(shows).at # "index", NEW a, Turns(a),
         a \in {"opened", "menu", "closing", "closing to click", "click", "closed", "selecting", "item", "changed"}
  PROVE  shows' \in Seq(Shows) /\ (IndexTelling(shows) => IndexTelling(shows'))
<1>1. shows \in Seq(Shows)
  BY DEF SelectionInv
<1> QED
  BY <1>1, Turned DEF Turns

LEMMA Finishing ==
  ASSUME SelectionInv, shows # <<>>, Last(shows).at # "index", Finish
  PROVE  shows' \in Seq(Shows) /\ (IndexTelling(shows) => IndexTelling(shows'))
<1> DEFINE rest == Front(shows)
<1>1. rest \in Seq(Shows) /\ (IndexTelling(rest) <=> IndexTelling(shows))
  BY ShowPopped DEF SelectionInv
<1> HIDE DEF rest
<1>2. CASE rest # <<>> /\ Last(rest).at = "selecting"
  <2>1. shows' = [rest EXCEPT ![Len(rest)].at = "closed"]
    BY <1>2 DEF Finish, rest
  <2> QED
    BY <1>1, <1>2, <2>1, Turned
<1>3. CASE ~(rest # <<>> /\ Last(rest).at = "selecting")
  <2>1. shows' = rest
    BY <1>3 DEF Finish, rest
  <2> QED
    BY <1>1, <2>1
<1> QED
  BY <1>2, <1>3

(* Select sets item and index together, and tells the item, or the index   *)
(* first.                                                                  *)
LEMMA Selecting ==
  ASSUME SelectionInv, items' = items, NEW next, NEW i,
         NEW base \in Seq(Shows), NEW waiting \in Seq(Shows), IndexTelling(shows) => IndexTelling(waiting),
         Select(next, i, base, waiting), ~outdated' => i = IndexOf(items, next)
  PROVE  SelectionInv'
<1>1. items' \in ItemLists \cup {<<>>} /\ index' = i
  BY DEF SelectionInv, Select
<1>2. CASE next = selected
  <2>1. shows' = waiting /\ UNCHANGED <<selected, told>>
    BY <1>2 DEF Select
  <2> QED
    BY <1>1, <1>2, <2>1 DEF SelectionInv
<1>3. CASE next # selected
  <2>1. selected' = next /\ Published(next, i, base)
    BY <1>3 DEF Select
  <2>2. CASE i # published
    <3>1. Show("select", "index", <<>>) \in Shows /\ Show("select", "index", <<>>).at = "index"
      BY DEF Show, Shows
    <3>2. shows' = Append(base, Show("select", "index", <<>>))
      BY <2>1, <2>2 DEF Published
    <3>3. shows' \in Seq(Shows) /\ IndexTelling(shows')
      BY <3>1, <3>2, ShowPushed
    <3> QED
      BY <1>1, <2>1, <3>3 DEF SelectionInv
  <2>3. CASE i = published
    <3>1. Show("select", "item", <<>>) \in Shows
      BY DEF Show, Shows
    <3>2. shows' = Append(base, Show("select", "item", <<>>)) /\ told' = next
      BY <2>1, <2>3 DEF Published, Revised
    <3>3. shows' \in Seq(Shows)
      BY <3>1, <3>2, ShowPushed
    <3> QED
      BY <1>1, <2>1, <3>2, <3>3 DEF SelectionInv
  <2> QED
    BY <2>2, <2>3
<1> QED
  BY <1>2, <1>3

LEMMA ShowSteps ==
  ASSUME SelectionInv,
         \/ ShowAt \/ OpeningEnds \/ ShowDropDown \/ FlyoutChosen \/ ClosingEnds \/ ShowEnds \/ ItemTold
         \/ \E c \in Controls : Track(c) \/ Dismissed(c) \/ Hide(c)
  PROVE  SelectionInv'
<1>1. shows \in Seq(Shows) /\ items \in ItemLists \cup {<<>>}
  BY DEF SelectionInv
<1>2. CASE ShowAt
  <2>1. Show("flyout", "opening", <<>>) \in Shows
    BY DEF Show, Shows, Controls
  <2> QED
    BY <1>1, <1>2, <2>1, ShowPushed, SameSelection DEF ShowAt
<1>3. CASE OpeningEnds
  <2>1. shows # <<>> /\ Last(shows).at # "index" /\ (Turns("opened") \/ Turns("closed"))
    BY <1>3 DEF OpeningEnds, Innermost
  <2> QED
    BY <1>3, <2>1, Turning, SameSelection DEF OpeningEnds
<1>4. CASE ShowDropDown
  <2>1. Show("combo", "opened", items) \in Shows
    BY <1>1 DEF Show, Shows, Controls
  <2> QED
    BY <1>1, <1>4, <2>1, ShowPushed, SameSelection DEF ShowDropDown
<1>5. CASE FlyoutChosen
  <2>1. shows # <<>> /\ Last(shows).at # "index" /\ Turns("closing to click")
    BY <1>5 DEF FlyoutChosen, Innermost
  <2> QED
    BY <1>5, <2>1, Turning, SameSelection DEF FlyoutChosen
<1>6. CASE ClosingEnds
  <2>1. shows # <<>> /\ Last(shows).at # "index" /\ (Turns("closed") \/ Turns("click"))
    BY <1>6 DEF ClosingEnds, Innermost
  <2> QED
    BY <1>6, <2>1, Turning, SameSelection DEF ClosingEnds
<1>7. CASE ShowEnds
  <2>1. shows # <<>> /\ Last(shows).at # "index" /\ Finish
    BY <1>7 DEF ShowEnds, Innermost
  <2> QED
    BY <1>7, <2>1, Finishing, SameSelection DEF ShowEnds
<1>8. CASE ItemTold
  <2>1. shows # <<>> /\ Last(shows).at # "index" /\ Turns("changed")
    BY <1>8 DEF ItemTold, Innermost
  <2> QED
    BY <1>8, <2>1, Turning, SameSelection DEF ItemTold
<1>9. ASSUME NEW c \in Controls, Track(c) \/ Dismissed(c) PROVE SelectionInv'
  <2>1. /\ shows # <<>> /\ Last(shows).at # "index" /\ UNCHANGED selectionVars
        /\ Turns("menu") \/ Turns(After(c))
    BY <1>9 DEF Track, Dismissed, Innermost
  <2>2. After(c) \in {"closing", "closed"}
    BY DEF After
  <2> QED
    BY <2>1, <2>2, Turning, SameSelection
<1>10. ASSUME NEW c \in Controls, Hide(c) PROVE SelectionInv'
  BY <1>1, <1>10, SameSelection DEF Hide
<1> QED
  BY <1>2, <1>3, <1>4, <1>5, <1>6, <1>7, <1>8, <1>9, <1>10

LEMMA IndexToldStep == SelectionInv /\ IndexTold => SelectionInv'
<1> SUFFICES ASSUME SelectionInv, IndexTold PROVE SelectionInv'
  OBVIOUS
<1>1. shows \in Seq(Shows) /\ shows # <<>> /\ Turns("item")
  BY DEF SelectionInv, IndexTold, Innermost
<1>2. shows' \in Seq(Shows)
  BY <1>1, Turned DEF Turns
<1> QED
  BY <1>2 DEF SelectionInv, IndexTold

LEMMA PutSelectedItemStep ==
  ASSUME SelectionInv, NEW item, PutSelectedItem(item)
  PROVE  SelectionInv'
<1>1. shows \in Seq(Shows) /\ items' = items /\ Select(item, IndexOf(items, item), shows, shows)
  BY DEF SelectionInv, PutSelectedItem
<1> QED
  BY <1>1, Selecting

LEMMA PutSelectedIndexStep ==
  ASSUME SelectionInv, NEW i \in -1 .. Len(items) - 1, PutSelectedIndex(i)
  PROVE  SelectionInv'
<1> DEFINE item == IF i < 0 THEN NoItem ELSE items[i + 1]
<1>1. shows \in Seq(Shows) /\ items' = items /\ Select(item, i, shows, shows)
  BY DEF SelectionInv, PutSelectedIndex
<1>2. items \in ItemLists \cup {<<>>} /\ items \in Seq(ToSet(items))
  <2>1. items \in ItemLists \cup {<<>>}
    BY DEF SelectionInv
  <2>2. CASE items \in ItemLists
    BY <2>2, PopupAssumption
  <2>3. CASE items = <<>>
    BY <2>3
  <2> QED
    BY <2>1, <2>2, <2>3
<1>3. i = IndexOf(items, item)
  <2>1. CASE i < 0
    BY <1>2, <2>1, IndexFound
  <2>2. CASE i >= 0
    <3>1. i + 1 \in DOMAIN items /\ item = items[i + 1] /\ i \in Int
      BY <1>2, <2>2
    <3>2. PICK k \in DOMAIN items : k = i + 1
      BY <3>1
    <3>3. IndexOf(items, items[k]) = k - 1
      BY <1>2, IndexFound
    <3> QED
      BY <3>1, <3>2, <3>3
  <2> QED
    BY <2>1, <2>2
<1> HIDE DEF item
<1> QED
  BY <1>1, <1>3, Selecting

LEMMA PutItemsSourceStep ==
  ASSUME SelectionInv, NEW list \in ItemLists, PutItemsSource(list)
  PROVE  SelectionInv'
<1>1. /\ UNCHANGED <<shows, selected, told>> /\ items' = list /\ index' = MovedTo(list)
      /\ outdated' = (outdated /\ selected = NoItem)
  BY DEF PutItemsSource, menuVars
<1>2. ~outdated' => index' = IndexOf(list, selected)
  <2>1. CASE selected = NoItem
    <3>1. items \in ItemLists \cup {<<>>} /\ (~outdated => index = IndexOf(items, NoItem))
      BY <2>1 DEF SelectionInv
    <3>2. IndexOf(items, NoItem) = -1 /\ IndexOf(list, NoItem) = -1
      BY <3>1, IndexFound
    <3> QED
      BY <1>1, <2>1, <3>1, <3>2 DEF MovedTo
  <2>2. CASE selected # NoItem
    BY <1>1, <2>2 DEF MovedTo
  <2> QED
    BY <2>1, <2>2
<1> QED
  BY <1>1, <1>2 DEF SelectionInv

LEMMA ComboChosenStep == SelectionInv /\ ComboChosen => SelectionInv'
<1> SUFFICES ASSUME SelectionInv, ComboChosen PROVE SelectionInv'
  OBVIOUS
<1> DEFINE list == Last(shows).list
           going(at) == [shows EXCEPT ![Len(shows)].at = at]
<1>1. shows \in Seq(Shows) /\ shows # <<>> /\ Last(shows).at # "index" /\ items' = items
  BY DEF SelectionInv, ComboChosen, Innermost
<1>2. /\ going("selecting") \in Seq(Shows) /\ going("closed") \in Seq(Shows)
      /\ IndexTelling(shows) => IndexTelling(going("closed"))
  BY <1>1, Turned
<1>3. PICK i \in DOMAIN list : Select(list[i], i - 1, going("selecting"), going("closed"))
  BY DEF ComboChosen
<1>4. list \in ItemLists \cup {<<>>} /\ (~outdated' => list = items)
  <2>1. Last(shows) \in Shows
    BY <1>1, NonEmpty
  <2> QED
    BY <2>1 DEF Shows, ComboChosen
<1>5. ~outdated' => i - 1 = IndexOf(items, list[i])
  BY <1>4, IndexFound
<1> HIDE DEF list, going
<1> QED
  BY <1>1, <1>2, <1>3, <1>5, Selecting

-----------------------------------------------------------------------------
LEMMA InitSelection == PopupInit => SelectionInv
<1> SUFFICES ASSUME PopupInit PROVE SelectionInv
  OBVIOUS
<1>1. IndexOf(<<>>, NoItem) = -1
  BY IndexFound
<1> QED
  BY <1>1 DEF PopupInit, SelectionInv

LEMMA NextSelection == SelectionInv /\ [PopupNext]_popupVars => SelectionInv'
<1>1. ASSUME SelectionInv, PopupNext PROVE SelectionInv'
  BY <1>1, ShowSteps, IndexToldStep, PutSelectedItemStep, PutSelectedIndexStep,
     PutItemsSourceStep, ComboChosenStep DEF PopupNext
<1>2. ASSUME SelectionInv, UNCHANGED popupVars PROVE SelectionInv'
  BY <1>2 DEF SelectionInv, popupVars, menuVars, selectionVars
<1> QED
  BY <1>1, <1>2

(* However selections nest and menus come and go, x:Bind ends with the     *)
(* item that is selected, and the index with its place (elements.h:7269).  *)
THEOREM SelectionCorrect == PopupSpec => []SelectionSettled
<1>1. SelectionInv => SelectionSettled
  BY DEF SelectionInv, SelectionSettled, IndexTelling
<1> QED
  BY <1>1, InitSelection, NextSelection, PTL DEF PopupSpec

-----------------------------------------------------------------------------
(* The IsOpen flags.  A show holds its control open while its Opened       *)
(* handlers run and while its menu is up and has not been ended.           *)
OnScreen(s)   == s.at \in {"opened", "menu"}
Live(s, over) == s.at = "opened" \/ (s.at = "menu" /\ ~over)

FlagType ==
    /\ isOpen \in [Controls -> BOOLEAN] /\ ended \in BOOLEAN /\ muddled \subseteq Controls
    /\ {selected, told} \subseteq Items \cup {NoItem}

OpenIsShown ==
    \A c \in Controls : isOpen[c] => \E i \in DOMAIN shows : shows[i].of = c /\ OnScreen(shows[i])
LiveIsOpen ==
    \A c \in Controls \ muddled : \A i \in DOMAIN shows :
        shows[i].of = c /\ Live(shows[i], ended) => isOpen[c]
(* A control that is not muddled was shown again only over a show that no  *)
(* longer holds it open.                                                   *)
LiveIsLast ==
    \A c \in Controls \ muddled : \A i, j \in DOMAIN shows :
        i < j /\ shows[i].of = c /\ shows[j].of = c => ~Live(shows[i], ended)
OneMenu ==
    \A i, j \in DOMAIN shows : shows[i].at = "menu" /\ shows[j].at = "menu" => i = j

FlagInv == FlagType /\ OpenIsShown /\ LiveIsOpen /\ LiveIsLast /\ OneMenu

(* What new takes from old: no show of a control but an old one, turned at *)
(* most to a phase in which it does not hold the control open; and none of *)
(* the shows that do, but number k, is lost.                               *)
Follows(new, old) ==
    \A i \in DOMAIN new :
        \/ new[i].of \notin Controls /\ ~OnScreen(new[i])
        \/ /\ i \in DOMAIN old /\ new[i].of = old[i].of
           /\ new[i].at = old[i].at \/ ~OnScreen(new[i])
Retains(new, old, k) ==
    \A i \in DOMAIN old :
        i # k /\ OnScreen(old[i]) => /\ i \in DOMAIN new /\ new[i].of = old[i].of
                                  /\ new[i].at = old[i].at

LEMMA Places ==
  ASSUME NEW st \in Seq(Shows)
  PROVE  /\ Len(st) \in Nat /\ DOMAIN st \subseteq Nat
         /\ \A i \in DOMAIN st : i <= Len(st)
         /\ Len(st) + 1 \notin DOMAIN st
<1>1. Len(st) \in Nat /\ DOMAIN st = 1..Len(st)
  OBVIOUS
<1> QED
  BY <1>1

LEMMA PushPlaces ==
  ASSUME NEW st \in Seq(Shows), NEW f
  PROVE  /\ DOMAIN Append(st, f) = DOMAIN st \cup {Len(st) + 1}
         /\ Append(st, f)[Len(st) + 1] = f
         /\ \A k \in DOMAIN st : Append(st, f)[k] = st[k]
<1>1. Len(st) \in Nat /\ DOMAIN st = 1..Len(st)
  OBVIOUS
<1> QED
  BY <1>1

LEMMA TurnPlaces ==
  ASSUME NEW st \in Seq(Shows), st # <<>>, NEW a
  PROVE  LET new == [st EXCEPT ![Len(st)].at = a]
         IN  /\ DOMAIN new = DOMAIN st /\ Len(st) \in DOMAIN st
             /\ new[Len(st)].of = Last(st).of /\ new[Len(st)].at = a
             /\ \A k \in DOMAIN st : k # Len(st) => new[k] = st[k]
<1> DEFINE n == Len(st)
           turned == [st[n] EXCEPT !.at = a]
<1>1. n \in DOMAIN st /\ Last(st) = st[n] /\ st[n] \in Shows
  BY NonEmpty
<1> HIDE DEF n
<1>2. turned.of = st[n].of /\ turned.at = a
  BY <1>1 DEF Shows
<1>3. [st EXCEPT ![n].at = a] = [st EXCEPT ![n] = turned]
  OBVIOUS
<1> HIDE DEF turned
<1>4. /\ DOMAIN [st EXCEPT ![n] = turned] = DOMAIN st
      /\ [st EXCEPT ![n] = turned][n] = turned
      /\ \A k \in DOMAIN st : k # n => [st EXCEPT ![n] = turned][k] = st[k]
  BY <1>1
<1> QED
  BY <1>1, <1>2, <1>3, <1>4 DEF n

LEMMA FrontPlaces ==
  ASSUME NEW st \in Seq(Shows), st # <<>>
  PROVE  /\ Front(st) \in Seq(Shows)
         /\ DOMAIN st = DOMAIN Front(st) \cup {Len(st)}
         /\ \A k \in DOMAIN Front(st) : Front(st)[k] = st[k]
<1>1. Len(st) \in Nat /\ Len(st) >= 1 /\ DOMAIN st = 1..Len(st)
  OBVIOUS
<1>2. /\ Front(st) \in Seq(Shows) /\ DOMAIN Front(st) = 1..(Len(st) - 1)
      /\ \A k \in 1..(Len(st) - 1) : Front(st)[k] = st[k]
  BY <1>1 DEF Front
<1> QED
  BY <1>1, <1>2

-----------------------------------------------------------------------------
(* Steps that neither open nor close a control.                            *)
LEMMA Quietly ==
  ASSUME FlagInv, Follows(shows', shows), Retains(shows', shows, 0),
         shows \in Seq(Shows),
         UNCHANGED <<isOpen, ended>>, FlagType',
         muddled \subseteq muddled' \/ DOMAIN shows' = {}
  PROVE  FlagInv'
<1>1. \A i \in DOMAIN shows' :
         /\ OnScreen(shows'[i]) => /\ i \in DOMAIN shows /\ shows'[i].of = shows[i].of
                                /\ shows'[i].at = shows[i].at
         /\ shows'[i].of \in Controls => i \in DOMAIN shows /\ shows'[i].of = shows[i].of
         /\ Live(shows'[i], ended) => Live(shows[i], ended)
  BY DEF Follows, OnScreen, Live
<1>2. OpenIsShown'
  <2>1. \A i \in DOMAIN shows : OnScreen(shows[i]) =>
            /\ i \in DOMAIN shows' /\ shows'[i].of = shows[i].of /\ OnScreen(shows'[i])
    BY Places DEF Retains, OnScreen
  <2> QED
    BY <2>1 DEF FlagInv, OpenIsShown
<1>3. LiveIsOpen'
  <2>1. CASE DOMAIN shows' = {}
    BY <2>1 DEF LiveIsOpen
  <2>2. CASE muddled \subseteq muddled'
    BY <1>1, <2>2 DEF FlagInv, LiveIsOpen, OnScreen, Live
  <2> QED
    BY <2>1, <2>2
<1>4. LiveIsLast'
  <2>1. CASE DOMAIN shows' = {}
    BY <2>1 DEF LiveIsLast
  <2>2. CASE muddled \subseteq muddled'
    BY <1>1, <2>2 DEF FlagInv, LiveIsLast
  <2> QED
    BY <2>1, <2>2
<1>5. OneMenu'
  BY <1>1 DEF FlagInv, OneMenu, OnScreen
<1> QED
  BY <1>2, <1>3, <1>4, <1>5 DEF FlagInv

(* The innermost show closes its control.                                  *)
LEMMA Closes ==
  ASSUME FlagInv, shows \in Seq(Shows), shows # <<>>,
         NEW c \in Controls, Last(shows).of = c,
         isOpen' = [isOpen EXCEPT ![c] = FALSE], UNCHANGED muddled, FlagType',
         (ended' = ended) \/ Last(shows).at = "menu",
         Follows(shows', shows), Retains(shows', shows, Len(shows)),
         Len(shows) \in DOMAIN shows' => ~OnScreen(shows'[Len(shows)])
  PROVE  FlagInv'
<1> DEFINE n == Len(shows)
<1>1. /\ n \in DOMAIN shows /\ Last(shows) = shows[n] /\ DOMAIN shows \subseteq Nat
      /\ \A i \in DOMAIN shows : i <= n
      /\ n \in Nat
  BY Places, NonEmpty
<1>2. n \in DOMAIN shows' => ~OnScreen(shows'[n])
  OBVIOUS
<1>3. Retains(shows', shows, n)
  OBVIOUS
<1> HIDE DEF n
<1>4. \A i \in DOMAIN shows' :
         /\ OnScreen(shows'[i]) => /\ i \in DOMAIN shows /\ shows'[i].of = shows[i].of
                                /\ shows'[i].at = shows[i].at /\ i # n
         /\ shows'[i].of \in Controls => i \in DOMAIN shows /\ shows'[i].of = shows[i].of
  BY <1>2 DEF Follows
<1>5. \A i \in DOMAIN shows' :
         Live(shows'[i], ended') => OnScreen(shows'[i]) /\ Live(shows[i], ended) /\ i # n
  <2> SUFFICES ASSUME NEW i \in DOMAIN shows', Live(shows'[i], ended')
               PROVE  OnScreen(shows'[i]) /\ Live(shows[i], ended) /\ i # n
    OBVIOUS
  <2>1. OnScreen(shows'[i]) /\ i \in DOMAIN shows /\ shows'[i].at = shows[i].at /\ i # n
    BY <1>4 DEF Live, OnScreen
  <2>2. CASE ended' = ended
    BY <2>1, <2>2 DEF Live
  <2>3. CASE shows[n].at = "menu"
    <3>1. shows[i].at # "menu"
      BY <1>1, <2>1, <2>3 DEF FlagInv, OneMenu
    <3> QED
      BY <2>1, <3>1 DEF Live
  <2> QED
    BY <1>1, <2>2, <2>3
<1>6. isOpen \in [Controls -> BOOLEAN] /\ isOpen'[c] = FALSE
      /\ \A d \in Controls : d # c => isOpen'[d] = isOpen[d]
  BY DEF FlagInv, FlagType
<1>7. OpenIsShown'
  <2> SUFFICES ASSUME NEW d \in Controls, isOpen'[d]
               PROVE  \E i \in DOMAIN shows' : shows'[i].of = d /\ OnScreen(shows'[i])
    BY DEF OpenIsShown
  <2>1. d # c /\ isOpen[d]
    BY <1>6
  <2>2. PICK i \in DOMAIN shows : shows[i].of = d /\ OnScreen(shows[i])
    BY <2>1 DEF FlagInv, OpenIsShown
  <2>3. i # n
    BY <1>1, <2>1, <2>2
  <2> QED
    BY <1>3, <2>2, <2>3 DEF Retains, OnScreen
<1>8. LiveIsOpen'
  <2> SUFFICES ASSUME NEW d \in Controls \ muddled, NEW i \in DOMAIN shows',
                      shows'[i].of = d, Live(shows'[i], ended')
               PROVE  isOpen'[d]
    BY DEF LiveIsOpen
  <2>1. i \in DOMAIN shows /\ shows[i].of = d /\ Live(shows[i], ended) /\ i # n
    BY <1>4, <1>5
  <2>2. i < n
    BY <1>1, <2>1
  <2>3. d # c
    BY <1>1, <2>1, <2>2 DEF FlagInv, LiveIsLast
  <2> QED
    BY <1>6, <2>1, <2>3 DEF FlagInv, LiveIsOpen
<1>9. LiveIsLast'
  BY <1>4, <1>5 DEF FlagInv, LiveIsLast
<1>10. OneMenu'
  BY <1>4 DEF FlagInv, OneMenu, OnScreen
<1> QED
  BY <1>7, <1>8, <1>9, <1>10 DEF FlagInv

(* The innermost show turns to another phase in which it holds nothing.    *)
LEMMA TurnsQuiet ==
  ASSUME shows \in Seq(Shows), shows # <<>>, NEW a, ~(a \in {"opened", "menu"}), Turns(a)
  PROVE  /\ Follows(shows', shows) /\ Retains(shows', shows, Len(shows))
         /\ ~OnScreen(shows'[Len(shows)])
         /\ ~OnScreen(Last(shows)) => Retains(shows', shows, 0)
<1> DEFINE n == Len(shows)
<1>1. /\ DOMAIN shows' = DOMAIN shows /\ n \in DOMAIN shows
      /\ shows'[n].of = shows[n].of /\ shows'[n].at = a
      /\ \A k \in DOMAIN shows : k # n => shows'[k] = shows[k]
      /\ Last(shows) = shows[n]
  BY TurnPlaces, NonEmpty DEF Turns
<1> HIDE DEF n
<1>2. ~OnScreen(shows'[n])
  BY <1>1 DEF OnScreen
<1>3. Follows(shows', shows)
  BY <1>1, <1>2 DEF Follows
<1>4. Retains(shows', shows, n) /\ (~OnScreen(Last(shows)) => Retains(shows', shows, 0))
  BY <1>1 DEF Retains
<1> QED
  BY <1>2, <1>3, <1>4 DEF n

(* A show or a selection on top of the others.                             *)
LEMMA PushesQuiet ==
  ASSUME NEW st \in Seq(Shows), NEW old, Follows(st, old), NEW k, Retains(st, old, k),
         NEW f \in Shows, f.of = "select", ~OnScreen(f)
  PROVE  Follows(Append(st, f), old) /\ Retains(Append(st, f), old, k)
<1>1. "select" \notin Controls
  BY DEF Controls
<1>2. Follows(Append(st, f), old)
  BY <1>1, PushPlaces DEF Follows
<1>3. Retains(Append(st, f), old, k)
  BY PushPlaces DEF Retains
<1> QED
  BY <1>2, <1>3

LEMMA Unmoved == \A k : Follows(shows, shows) /\ Retains(shows, shows, k)
BY DEF Follows, Retains

(* The last show is over, and one that waited for it may go on.            *)
LEMMA FinishQuiet ==
  ASSUME shows \in Seq(Shows), shows # <<>>, ~OnScreen(Last(shows)), Finish
  PROVE  Follows(shows', shows) /\ Retains(shows', shows, 0)
<1> DEFINE rest == Front(shows)
<1>1. /\ rest \in Seq(Shows) /\ DOMAIN shows = DOMAIN rest \cup {Len(shows)}
      /\ \A k \in DOMAIN rest : rest[k] = shows[k]
      /\ Last(shows) = shows[Len(shows)]
  BY FrontPlaces, NonEmpty
<1> HIDE DEF rest
<1>2. Follows(rest, shows) /\ Retains(rest, shows, 0)
  BY <1>1 DEF Follows, Retains
<1>3. CASE rest # <<>> /\ Last(rest).at = "selecting"
  <2> DEFINE m == Len(rest)
  <2>1. shows' = [rest EXCEPT ![m].at = "closed"]
    BY <1>3 DEF Finish, rest
  <2>2. /\ DOMAIN shows' = DOMAIN rest /\ m \in DOMAIN rest
        /\ shows'[m].of = rest[m].of /\ shows'[m].at = "closed"
        /\ rest[m].at = "selecting"
        /\ \A k \in DOMAIN rest : k # m => shows'[k] = rest[k]
    BY <1>1, <1>3, <2>1, TurnPlaces, NonEmpty
  <2> HIDE DEF m
  <2>3. ~OnScreen(shows'[m]) /\ ~OnScreen(rest[m])
    BY <2>2 DEF OnScreen
  <2>4. Follows(shows', shows)
    BY <1>2, <2>2, <2>3 DEF Follows
  <2>5. Retains(shows', shows, 0)
    BY <1>1, <1>2, <2>2, <2>3 DEF Retains
  <2> QED
    BY <2>4, <2>5
<1>4. CASE ~(rest # <<>> /\ Last(rest).at = "selecting")
  <2>1. shows' = rest
    BY <1>4 DEF Finish, rest
  <2> QED
    BY <1>2, <2>1
<1> QED
  BY <1>3, <1>4

LEMMA SelectQuiet ==
  ASSUME NEW base \in Seq(Shows), NEW waiting, NEW k,
         Follows(base, shows), Retains(base, shows, k),
         Follows(waiting, shows), Retains(waiting, shows, k),
         {selected, told} \subseteq Items \cup {NoItem},
         NEW next \in Items \cup {NoItem}, NEW i, Select(next, i, base, waiting)
  PROVE  /\ Follows(shows', shows) /\ Retains(shows', shows, k)
         /\ {selected', told'} \subseteq Items \cup {NoItem}
<1>1. CASE next = selected
  BY <1>1 DEF Select
<1>2. CASE next # selected
  <2>1. selected' = next /\ Published(next, i, base)
    BY <1>2 DEF Select
  <2>2. told' \in {next, told}
    BY <2>1 DEF Published
  <2>3. PICK a \in {"index", "item"} : shows' = Append(base, Show("select", a, <<>>))
    BY <2>1 DEF Published
  <2>4. /\ Show("select", a, <<>>) \in Shows /\ Show("select", a, <<>>).of = "select"
        /\ ~OnScreen(Show("select", a, <<>>))
    BY DEF Show, Shows, OnScreen
  <2> QED
    BY <2>1, <2>2, <2>3, <2>4, PushesQuiet
<1> QED
  BY <1>1, <1>2

-----------------------------------------------------------------------------
LEMMA ShowAtFlags == FlagInv /\ shows \in Seq(Shows) /\ ShowAt => FlagInv'
<1> SUFFICES ASSUME FlagInv, shows \in Seq(Shows), ShowAt PROVE FlagInv'
  OBVIOUS
<1> DEFINE n == Len(shows) + 1
           f == Show("flyout", "opening", <<>>)
<1>1. f.of = "flyout" /\ f.at = "opening" /\ ~OnScreen(f) /\ "flyout" \in Controls
  BY DEF Show, OnScreen, Controls
<1>2. /\ DOMAIN shows' = DOMAIN shows \cup {n} /\ shows'[n] = f
      /\ \A k \in DOMAIN shows : shows'[k] = shows[k] /\ k < n /\ k \in Nat
      /\ n \notin DOMAIN shows /\ n \in Nat
  BY PushPlaces, Places DEF ShowAt
<1> HIDE DEF n, f
<1>3. /\ isOpen' = isOpen /\ ended' = ended /\ UNCHANGED <<selected, told>>
      /\ muddled \subseteq muddled' /\ muddled' \subseteq muddled \cup {"flyout"}
      /\ Showing("flyout", {"opened", "menu"}) => "flyout" \in muddled'
  BY DEF ShowAt, selectionVars
<1>4. FlagType'
  BY <1>1, <1>3 DEF FlagInv, FlagType
<1>5. OpenIsShown'
  BY <1>2, <1>3 DEF FlagInv, OpenIsShown
<1>6. LiveIsOpen'
  BY <1>1, <1>2, <1>3 DEF FlagInv, LiveIsOpen, Live
<1>7. LiveIsLast'
  <2> SUFFICES ASSUME NEW c \in Controls \ muddled', NEW i \in DOMAIN shows', NEW j \in DOMAIN shows',
                      i < j, shows'[i].of = c, shows'[j].of = c, Live(shows'[i], ended')
               PROVE  FALSE
    BY DEF LiveIsLast
  <2>1. i # n
    BY <1>2
  <2>2. i \in DOMAIN shows /\ shows[i].of = c /\ Live(shows[i], ended) /\ c \notin muddled
    BY <1>2, <1>3, <2>1
  <2>3. CASE j = n
    <3>1. c = "flyout"
      BY <1>1, <1>2, <2>3
    <3>2. Showing("flyout", {"opened", "menu"})
      BY <2>2, <3>1 DEF Showing, Live
    <3> QED
      BY <1>3, <3>1, <3>2
  <2>4. CASE j # n
    BY <1>2, <2>2, <2>4 DEF FlagInv, LiveIsLast
  <2> QED
    BY <2>3, <2>4
<1>8. OneMenu'
  BY <1>1, <1>2 DEF FlagInv, OneMenu
<1> QED
  BY <1>4, <1>5, <1>6, <1>7, <1>8 DEF FlagInv

LEMMA ShowDropDownFlags == FlagInv /\ SelectionInv /\ ShowDropDown => FlagInv'
<1> SUFFICES ASSUME FlagInv, SelectionInv, ShowDropDown PROVE FlagInv'
  OBVIOUS
<1>0. shows \in Seq(Shows)
  BY DEF SelectionInv
<1> DEFINE n == Len(shows) + 1
           f == Show("combo", "opened", items)
<1>1. f.of = "combo" /\ f.at = "opened" /\ OnScreen(f) /\ "combo" \in Controls
  BY DEF Show, OnScreen, Controls
<1>2. /\ DOMAIN shows' = DOMAIN shows \cup {n} /\ shows'[n] = f
      /\ \A k \in DOMAIN shows : shows'[k] = shows[k] /\ k < n /\ k \in Nat
      /\ n \notin DOMAIN shows /\ n \in Nat
  BY <1>0, PushPlaces, Places DEF ShowDropDown
<1> HIDE DEF n, f
<1>3. /\ isOpen' = [isOpen EXCEPT !["combo"] = TRUE] /\ ~isOpen["combo"]
      /\ UNCHANGED <<ended, muddled, selected, told>>
  BY DEF ShowDropDown, MayDrop, selectionVars
<1>4. FlagType'
  BY <1>3 DEF FlagInv, FlagType
<1>5. /\ isOpen'["combo"] = TRUE
      /\ \A d \in Controls : d # "combo" => isOpen'[d] = isOpen[d]
  BY <1>1, <1>3 DEF FlagInv, FlagType
<1>6. OpenIsShown'
  BY <1>1, <1>2, <1>5 DEF FlagInv, OpenIsShown
<1>7. LiveIsOpen'
  BY <1>1, <1>2, <1>3, <1>5 DEF FlagInv, LiveIsOpen
<1>8. LiveIsLast'
  <2> SUFFICES ASSUME NEW c \in Controls \ muddled, NEW i \in DOMAIN shows', NEW j \in DOMAIN shows',
                      i < j, shows'[i].of = c, shows'[j].of = c, Live(shows'[i], ended)
               PROVE  FALSE
    BY <1>3 DEF LiveIsLast
  <2>1. i # n
    BY <1>2
  <2>2. i \in DOMAIN shows /\ shows[i].of = c /\ Live(shows[i], ended)
    BY <1>2, <2>1
  <2>3. CASE j = n
    <3>1. c = "combo"
      BY <1>1, <1>2, <2>3
    <3> QED
      BY <1>3, <2>2, <3>1 DEF FlagInv, LiveIsOpen
  <2>4. CASE j # n
    BY <1>2, <2>2, <2>4 DEF FlagInv, LiveIsLast
  <2> QED
    BY <2>3, <2>4
<1>9. OneMenu'
  BY <1>1, <1>2 DEF FlagInv, OneMenu
<1> QED
  BY <1>4, <1>6, <1>7, <1>8, <1>9 DEF FlagInv

(* The innermost show goes on, holding its control open.                   *)
LEMMA GoesOnOpen ==
  ASSUME FlagInv, shows \in Seq(Shows), shows # <<>>, NEW c \in Controls, Last(shows).of = c,
         NEW a \in {"opened", "menu"}, Turns(a), a = "menu" => ~MenuIsUp,
         isOpen' \in [Controls -> BOOLEAN],
         \A d \in Controls : d # c => isOpen'[d] = isOpen[d],
         isOpen'[c] = TRUE \/ (isOpen'[c] = isOpen[c] /\ Last(shows).at = "opened"),
         UNCHANGED <<ended, muddled, selected, told>>
  PROVE  FlagInv'
<1> DEFINE n == Len(shows)
<1>1. /\ DOMAIN shows' = DOMAIN shows /\ n \in DOMAIN shows
      /\ shows'[n].of = c /\ shows'[n].at = a /\ Last(shows) = shows[n]
      /\ \A k \in DOMAIN shows : k # n => shows'[k] = shows[k]
  BY TurnPlaces, NonEmpty DEF Turns
<1>2. DOMAIN shows \subseteq Nat /\ n \in Nat /\ \A k \in DOMAIN shows : k <= n
  BY Places
<1> HIDE DEF n
<1>3. FlagType'
  BY DEF FlagInv, FlagType
<1>4. OpenIsShown'
  BY <1>1 DEF FlagInv, OpenIsShown, OnScreen
<1>5. LiveIsOpen'
  <2> SUFFICES ASSUME NEW d \in Controls \ muddled, NEW i \in DOMAIN shows',
                      shows'[i].of = d, Live(shows'[i], ended)
               PROVE  isOpen'[d]
    BY DEF LiveIsOpen
  <2>1. CASE i # n
    <3>1. i \in DOMAIN shows /\ shows[i].of = d /\ Live(shows[i], ended)
      BY <1>1, <2>1
    <3>2. isOpen[d]
      BY <3>1 DEF FlagInv, LiveIsOpen
    <3> QED
      BY <3>2
  <2>2. CASE i = n
    <3>1. d = c
      BY <1>1, <2>2
    <3>2. Last(shows).at = "opened" => isOpen[c]
      BY <1>1, <3>1 DEF FlagInv, LiveIsOpen, Live
    <3> QED
      BY <3>1, <3>2
  <2> QED
    BY <2>1, <2>2
<1>6. LiveIsLast'
  <2> SUFFICES ASSUME NEW d \in Controls \ muddled, NEW i \in DOMAIN shows', NEW j \in DOMAIN shows',
                      i < j, shows'[i].of = d, shows'[j].of = d, Live(shows'[i], ended)
               PROVE  FALSE
    BY DEF LiveIsLast
  <2>1. i # n
    BY <1>1, <1>2
  <2>2. i \in DOMAIN shows /\ shows[i].of = d /\ Live(shows[i], ended)
    BY <1>1, <2>1
  <2>3. j \in DOMAIN shows /\ shows[j].of = d
    BY <1>1
  <2> QED
    BY <2>2, <2>3 DEF FlagInv, LiveIsLast
<1>7. OneMenu'
  <2>1. CASE a = "menu"
    <3>1. \A i \in DOMAIN shows : shows[i].at # "menu"
      BY <2>1 DEF MenuIsUp
    <3> QED
      BY <1>1, <3>1 DEF OneMenu
  <2>2. CASE a = "opened"
    BY <1>1, <2>2 DEF FlagInv, OneMenu
  <2> QED
    BY <2>1, <2>2
<1> QED
  BY <1>3, <1>4, <1>5, <1>6, <1>7 DEF FlagInv

LEMMA OpeningEndsFlags == FlagInv /\ shows \in Seq(Shows) /\ OpeningEnds => FlagInv'
<1> SUFFICES ASSUME FlagInv, shows \in Seq(Shows), OpeningEnds PROVE FlagInv'
  OBVIOUS
<1>1. /\ shows # <<>> /\ Last(shows).of = "flyout" /\ Last(shows).at = "opening"
      /\ "flyout" \in Controls /\ UNCHANGED <<ended, muddled, selected, told>>
  BY DEF OpeningEnds, Innermost, selectionVars, Controls
<1>2. isOpen \in [Controls -> BOOLEAN] /\ ended \in BOOLEAN
  BY DEF FlagInv, FlagType
<1>3. CASE isOpen' = [isOpen EXCEPT !["flyout"] = TRUE] /\ Turns("opened")
  <2>1. /\ isOpen' \in [Controls -> BOOLEAN] /\ isOpen'["flyout"] = TRUE
        /\ \A d \in Controls : d # "flyout" => isOpen'[d] = isOpen[d]
    BY <1>1, <1>2, <1>3
  <2> QED
    BY <1>1, <1>3, <2>1, GoesOnOpen
<1>4. CASE isOpen' = [isOpen EXCEPT !["flyout"] = FALSE] /\ Turns("closed")
  <2>1. ended' = ended
    BY <1>1
  <2>2. FlagType'
    BY <1>1, <1>2, <1>4 DEF FlagInv, FlagType
  <2> QED
    BY <1>1, <1>4, <2>1, <2>2, TurnsQuiet, Closes
<1> QED
  BY <1>3, <1>4 DEF OpeningEnds, BuildFails

LEMMA AfterQuiet == \A c \in Controls : ~(After(c) \in {"opened", "menu"})
BY DEF After

LEMMA TrackFlags ==
  ASSUME FlagInv, shows \in Seq(Shows), NEW c \in Controls, Track(c)
  PROVE  FlagInv'
<1>1. /\ shows # <<>> /\ Last(shows).of = c /\ Last(shows).at = "opened"
      /\ UNCHANGED <<ended, muddled, selected, told>>
  BY DEF Track, Innermost, selectionVars
<1>2. isOpen \in [Controls -> BOOLEAN] /\ ended \in BOOLEAN
  BY DEF FlagInv, FlagType
<1>3. CASE ~MenuIsUp /\ Turns("menu") /\ UNCHANGED isOpen
  BY <1>1, <1>2, <1>3, GoesOnOpen
<1>4. CASE Turns(After(c)) /\ isOpen' = [isOpen EXCEPT ![c] = FALSE]
  <2>1. ended' = ended
    BY <1>1
  <2>2. FlagType'
    BY <1>1, <1>2, <1>4 DEF FlagInv, FlagType
  <2> QED
    BY <1>1, <1>4, <2>1, <2>2, AfterQuiet, TurnsQuiet, Closes
<1> QED
  BY <1>3, <1>4 DEF Track

LEMMA DismissedFlags ==
  ASSUME FlagInv, shows \in Seq(Shows), NEW c \in Controls, Dismissed(c)
  PROVE  FlagInv'
<1>1. /\ shows # <<>> /\ Last(shows).of = c /\ Last(shows).at = "menu"
      /\ isOpen' = [isOpen EXCEPT ![c] = FALSE] /\ Turns(After(c)) /\ ended' = FALSE
      /\ UNCHANGED <<muddled, selected, told>>
  BY DEF Dismissed, Innermost, selectionVars
<1>2. FlagType'
  BY <1>1 DEF FlagInv, FlagType
<1> QED
  BY <1>1, <1>2, AfterQuiet, TurnsQuiet, Closes

LEMMA FlyoutChosenFlags == FlagInv /\ shows \in Seq(Shows) /\ FlyoutChosen => FlagInv'
<1> SUFFICES ASSUME FlagInv, shows \in Seq(Shows), FlyoutChosen PROVE FlagInv'
  OBVIOUS
<1>1. /\ shows # <<>> /\ Last(shows).of = "flyout" /\ "flyout" \in Controls
      /\ isOpen' = [isOpen EXCEPT !["flyout"] = FALSE] /\ Turns("closing to click")
      /\ UNCHANGED <<ended, muddled, selected, told>>
  BY DEF FlyoutChosen, Innermost, selectionVars, Controls
<1>2. FlagType'
  BY <1>1 DEF FlagInv, FlagType
<1> QED
  BY <1>1, <1>2, TurnsQuiet, Closes

LEMMA ComboChosenFlags == FlagInv /\ SelectionInv /\ ComboChosen => FlagInv'
<1> SUFFICES ASSUME FlagInv, SelectionInv, ComboChosen PROVE FlagInv'
  OBVIOUS
<1> DEFINE n == Len(shows)
           list == Last(shows).list
           going(at) == [shows EXCEPT ![Len(shows)].at = at]
<1>1. /\ shows \in Seq(Shows) /\ shows # <<>>
      /\ Last(shows).of = "combo" /\ Last(shows).at = "menu" /\ "combo" \in Controls
      /\ isOpen' = [isOpen EXCEPT !["combo"] = FALSE] /\ UNCHANGED <<ended, muddled>>
  BY DEF SelectionInv, ComboChosen, Innermost, Controls
<1>2. PICK i \in DOMAIN list : Select(list[i], i - 1, going("selecting"), going("closed"))
  BY DEF ComboChosen
<1>3. list[i] \in Items \cup {NoItem}
  <2>1. list \in ItemLists \cup {<<>>}
    BY <1>1, NonEmpty DEF Shows
  <2>2. list \in ItemLists
    BY <2>1, <1>2
  <2>3. list[i] \in ToSet(list)
    BY <1>2 DEF ToSet
  <2> QED
    BY <2>2, <2>3 DEF Items
<1>4. ASSUME NEW a \in {"selecting", "closed"}
      PROVE  /\ going(a) \in Seq(Shows) /\ Follows(going(a), shows)
             /\ Retains(going(a), shows, n)
             /\ n \in DOMAIN going(a) /\ ~OnScreen(going(a)[n])
  <2>1. going(a) \in Seq(Shows)
    BY <1>1, Turned
  <2>2. /\ DOMAIN going(a) = DOMAIN shows /\ n \in DOMAIN shows
        /\ going(a)[n].of = shows[n].of /\ going(a)[n].at = a
        /\ \A k \in DOMAIN shows : k # n => going(a)[k] = shows[k]
    BY <1>1, TurnPlaces, NonEmpty
  <2> HIDE DEF going, n
  <2>3. ~OnScreen(going(a)[n])
    BY <2>2 DEF OnScreen
  <2>4. Follows(going(a), shows)
    BY <2>2, <2>3 DEF Follows
  <2>5. Retains(going(a), shows, n)
    BY <2>2 DEF Retains
  <2> QED
    BY <2>1, <2>2, <2>3, <2>4, <2>5
<1>5. /\ Follows(shows', shows) /\ Retains(shows', shows, n)
      /\ {selected', told'} \subseteq Items \cup {NoItem}
  <2>1. {selected, told} \subseteq Items \cup {NoItem}
    BY DEF FlagInv, FlagType
  <2> HIDE DEF going, list, n
  <2> QED
    BY <1>2, <1>3, <1>4, <2>1, SelectQuiet
<1>6. n \in DOMAIN shows' => ~OnScreen(shows'[n])
  <2>1. \/ shows' = going("closed")
        \/ \E f : shows' = Append(going("selecting"), f)
    BY <1>2 DEF Select, Published
  <2>2. \A f : Append(going("selecting"), f)[n] = going("selecting")[n]
    BY <1>4, PushPlaces
  <2> HIDE DEF going, n
  <2> QED
    BY <1>4, <2>1, <2>2
<1>7. FlagType'
  BY <1>1, <1>5 DEF FlagInv, FlagType
<1> QED
  BY <1>1, <1>5, <1>6, <1>7, Closes

LEMMA HideFlags ==
  ASSUME FlagInv, shows \in Seq(Shows), NEW c \in Controls, Hide(c)
  PROVE  FlagInv'
<1>1. /\ isOpen' = [isOpen EXCEPT ![c] = FALSE] /\ ended' = (ended \/ MenuIsUp)
      /\ muddled' = muddled \cup {d \in {c} : Showing(d, {"opened"})}
      /\ UNCHANGED <<shows, selected, told>>
  BY DEF Hide, EndMenu, selectionVars
<1>2. isOpen \in [Controls -> BOOLEAN] /\ ended \in BOOLEAN /\ MenuIsUp \in BOOLEAN
  BY DEF FlagInv, FlagType, MenuIsUp
<1>3. /\ muddled \subseteq muddled' /\ muddled' \subseteq muddled \cup {c}
      /\ Showing(c, {"opened"}) => c \in muddled'
      /\ MenuIsUp \/ ended => ended'
  BY <1>1
<1>4. /\ isOpen'[c] = FALSE /\ \A d \in Controls : d # c => isOpen'[d] = isOpen[d]
  BY <1>1, <1>2
<1>5. FlagType'
  BY <1>1, <1>2, <1>3 DEF FlagInv, FlagType
<1>6. OpenIsShown'
  BY <1>1, <1>4 DEF FlagInv, OpenIsShown
<1>7. \A i \in DOMAIN shows : Live(shows[i], ended') => shows[i].at = "opened" /\ Live(shows[i], ended)
  BY <1>3 DEF Live, MenuIsUp
<1>8. LiveIsOpen'
  <2> SUFFICES ASSUME NEW d \in Controls \ muddled', NEW i \in DOMAIN shows,
                      shows[i].of = d, Live(shows[i], ended')
               PROVE  isOpen'[d]
    BY <1>1 DEF LiveIsOpen
  <2>1. shows[i].at = "opened" /\ Live(shows[i], ended) /\ d \notin muddled
    BY <1>3, <1>7
  <2>2. d # c
    BY <1>3, <2>1 DEF Showing
  <2> QED
    BY <1>4, <2>1, <2>2 DEF FlagInv, LiveIsOpen
<1>9. LiveIsLast'
  BY <1>1, <1>3, <1>7 DEF FlagInv, LiveIsLast
<1>10. OneMenu'
  BY <1>1 DEF FlagInv, OneMenu
<1> QED
  BY <1>5, <1>6, <1>8, <1>9, <1>10 DEF FlagInv

LEMMA QuietSteps ==
  ASSUME FlagInv, SelectionInv, ClosingEnds \/ ShowEnds \/ IndexTold \/ ItemTold
  PROVE  FlagInv'
<1>1. /\ shows \in Seq(Shows) /\ shows # <<>> /\ ~OnScreen(Last(shows))
  BY DEF SelectionInv, ClosingEnds, ShowEnds, IndexTold, ItemTold, Innermost, OnScreen
<1>2. UNCHANGED <<isOpen, ended>> /\ {selected', told'} \subseteq Items \cup {NoItem}
  BY DEF ClosingEnds, ShowEnds, IndexTold, ItemTold, selectionVars, FlagInv, FlagType
<1>3. \/ shows' = <<>> /\ muddled' = {}
      \/ muddled' = muddled
  BY DEF ClosingEnds, ShowEnds, IndexTold, ItemTold
<1>4. FlagType'
  BY <1>2, <1>3 DEF FlagInv, FlagType
<1>5. Follows(shows', shows) /\ Retains(shows', shows, 0)
  <2>1. CASE ShowEnds
    BY <1>1, <2>1, FinishQuiet DEF ShowEnds
  <2>2. CASE ClosingEnds \/ IndexTold \/ ItemTold
    <3>1. PICK a \in {"closed", "click", "item", "changed"} : Turns(a)
      BY <2>2 DEF ClosingEnds, IndexTold, ItemTold
    <3> QED
      BY <1>1, <3>1, TurnsQuiet
  <2> QED
    BY <2>1, <2>2
<1>6. shows' = <<>> => DOMAIN shows' = {}
  OBVIOUS
<1> QED
  BY <1>1, <1>2, <1>3, <1>4, <1>5, <1>6, Quietly

LEMMA PutSteps ==
  ASSUME FlagInv, SelectionInv,
         \/ \E item \in Items \cup {NoItem} : PutSelectedItem(item)
         \/ \E i \in -1 .. Len(items) - 1 : PutSelectedIndex(i)
         \/ \E list \in ItemLists : PutItemsSource(list)
  PROVE  FlagInv'
<1>1. shows \in Seq(Shows) /\ items \in ItemLists \cup {<<>>}
  BY DEF SelectionInv
<1>2. {selected, told} \subseteq Items \cup {NoItem}
  BY DEF FlagInv, FlagType
<1>3. ASSUME NEW next \in Items \cup {NoItem}, NEW i, Select(next, i, shows, shows),
             UNCHANGED <<isOpen, ended, muddled>>
      PROVE  FlagInv'
  <2>1. /\ Follows(shows', shows) /\ Retains(shows', shows, 0)
        /\ {selected', told'} \subseteq Items \cup {NoItem}
    BY <1>1, <1>2, <1>3, Unmoved, SelectQuiet
  <2>2. FlagType'
    BY <1>3, <2>1 DEF FlagInv, FlagType
  <2> QED
    BY <1>1, <1>3, <2>1, <2>2, Quietly
<1>4. ASSUME NEW item \in Items \cup {NoItem}, PutSelectedItem(item) PROVE FlagInv'
  BY <1>3, <1>4 DEF PutSelectedItem
<1>5. ASSUME NEW i \in -1 .. Len(items) - 1, PutSelectedIndex(i) PROVE FlagInv'
  <2>1. CASE i < 0
    BY <1>3, <1>5, <2>1 DEF PutSelectedIndex
  <2>2. CASE i >= 0
    <3>1. Len(items) \in Nat /\ DOMAIN items = 1..Len(items)
      <4>1. items \in Seq(ToSet(items))
        <5>1. CASE items \in ItemLists
          BY <5>1, PopupAssumption
        <5>2. CASE items = <<>>
          BY <5>2
        <5> QED
          BY <1>1, <5>1, <5>2
      <4> QED
        BY <4>1
    <3>2. PICK k \in DOMAIN items : k = i + 1
      BY <2>2, <3>1
    <3>3. items[k] \in ToSet(items) /\ items \in ItemLists
      BY <1>1, <3>2 DEF ToSet
    <3>4. items[i + 1] \in Items
      BY <3>2, <3>3 DEF Items
    <3>5. ~(i < 0)
      BY <2>2
    <3>6. Select(items[i + 1], i, shows, shows) /\ UNCHANGED <<isOpen, ended, muddled>>
      BY <1>5, <3>5 DEF PutSelectedIndex
    <3> QED
      BY <1>3, <3>4, <3>6
  <2> QED
    BY <2>1, <2>2
<1>6. ASSUME NEW list \in ItemLists, PutItemsSource(list) PROVE FlagInv'
  <2>1. UNCHANGED <<isOpen, shows, ended, muddled, selected, told>>
    BY <1>6 DEF PutItemsSource, menuVars
  <2>2. FlagType'
    BY <2>1 DEF FlagInv, FlagType
  <2> QED
    BY <1>1, <2>1, <2>2, Unmoved, Quietly
<1> QED
  BY <1>4, <1>5, <1>6

LEMMA InitFlags == PopupInit => FlagInv
<1> SUFFICES ASSUME PopupInit PROVE FlagInv
  OBVIOUS
<1>1. shows = <<>> /\ DOMAIN shows = {} /\ \A c \in Controls : ~isOpen[c]
  BY DEF PopupInit
<1>2. FlagType
  BY DEF PopupInit, FlagType
<1>3. OpenIsShown /\ LiveIsOpen /\ LiveIsLast /\ OneMenu
  BY <1>1 DEF OpenIsShown, LiveIsOpen, LiveIsLast, OneMenu
<1> QED
  BY <1>2, <1>3 DEF FlagInv

LEMMA NextFlags == FlagInv /\ SelectionInv /\ [PopupNext]_popupVars => FlagInv'
<1> SUFFICES ASSUME FlagInv, SelectionInv, [PopupNext]_popupVars PROVE FlagInv'
  OBVIOUS
<1>1. shows \in Seq(Shows)
  BY DEF SelectionInv
<1>2. CASE UNCHANGED popupVars
  <2>1. UNCHANGED <<isOpen, shows, ended, muddled, selected, told>>
    BY <1>2 DEF popupVars, menuVars, selectionVars
  <2>2. FlagType'
    BY <2>1 DEF FlagInv, FlagType
  <2> QED
    BY <1>1, <2>1, <2>2, Unmoved, Quietly
<1> QED
  BY <1>1, <1>2, ShowAtFlags, OpeningEndsFlags, ShowDropDownFlags, FlyoutChosenFlags,
     ComboChosenFlags, TrackFlags, DismissedFlags, HideFlags, QuietSteps, PutSteps
  DEF PopupNext

(* IsOpen is true only while the control is being shown, and while its     *)
(* menu is up unless handlers hid it or showed it again as it was being    *)
(* shown (MenuFlyoutObject::ShowAt and ComboBoxObject::ShowDropDown).      *)
THEOREM FlagsCorrect == PopupSpec => []PopupFlags
<1>1. PopupSpec => []SelectionInv
  BY InitSelection, NextSelection, PTL DEF PopupSpec
<1>2. PopupSpec => []FlagInv
  BY <1>1, InitFlags, NextFlags, PTL DEF PopupSpec
<1>3. SelectionInv /\ FlagInv => PopupFlags
  <2> SUFFICES ASSUME SelectionInv, FlagInv PROVE PopupFlags
    OBVIOUS
  <2>1. PopupTypeOK
    BY DEF SelectionInv, FlagInv, FlagType, PopupTypeOK
  <2>2. \A c \in Controls : isOpen[c] => Showing(c, {"opened", "menu"})
    BY DEF FlagInv, OpenIsShown, Showing, OnScreen
  <2>3. \A c \in Controls \ muddled : Showing(c, {"menu"}) /\ ~ended => isOpen[c]
    BY DEF FlagInv, LiveIsOpen, Showing, Live
  <2> QED
    BY <2>1, <2>2, <2>3 DEF PopupFlags
<1> QED
  BY <1>1, <1>2, <1>3, PTL

-----------------------------------------------------------------------------
(* The DirectComposition backend.  First, what holds of trees.             *)

(* Of some natural numbers one is least.                                   *)
LEMMA First ==
  ASSUME NEW S, S \subseteq Nat, S # {}
  PROVE  \E x \in S : \A y \in S : x <= y
<1>1. PICK x \in S : \A y \in S : ~(<<y, x>> \in OpToRel(<, Nat))
  BY NatLessThanWellFounded, WFMin
<1>2. \A y \in S : ~(y < x)
  BY <1>1 DEF OpToRel
<1> QED
  BY <1>2

(* Of the nodes of a set one is lowest.                                     *)
LEMMA Lowest ==
  ASSUME NEW N, NEW height \in [N -> Nat], NEW S, S \subseteq N, S # {}
  PROVE  \E n \in S : \A m \in S : height[n] <= height[m]
<1> DEFINE Heights == {height[n] : n \in S}
<1>1. Heights \subseteq Nat /\ Heights # {}
  OBVIOUS
<1>2. PICK x \in Heights : \A y \in Heights : x <= y
  <2> HIDE DEF Heights
  <2> QED
    BY <1>1, First
<1> QED
  BY <1>2

(* What is defined of a node by what it is of the node's children is       *)
(* defined of all nodes of a tree.                                         *)
Founded(N, V, bound, height, below, step) ==
    /\ bound \in Nat /\ height \in [N -> 0 .. bound]
    /\ \A n \in N : \A c \in below[n] : c \in N /\ height[c] < height[n]
    /\ step \in [N -> [[N -> V] -> V]] /\ [N -> V] # {}
    /\ \A n \in N : \A f, g \in [N -> V] :
          (\A c \in below[n] : f[c] = g[c]) => step[n][f] = step[n][g]

(* There is a function on a tree that satisfies its equation.              *)
LEMMA OnTree ==
  ASSUME NEW N, NEW V, NEW bound, NEW height, NEW below, NEW step,
         Founded(N, V, bound, height, below, step)
  PROVE  \E f \in [N -> V] : \A n \in N : f[n] = step[n][f]
<1> USE DEF Founded
<1> DEFINE Good == {k \in Nat : \E f \in [N -> V] : \A n \in N : height[n] < k => f[n] = step[n][f]}
<1>1. 0 \in Good
  OBVIOUS
<1>2. ASSUME NEW k \in Good
      PROVE  k + 1 \in Good
  <2>1. PICK f \in [N -> V] : \A n \in N : height[n] < k => f[n] = step[n][f]
    OBVIOUS
  <2> DEFINE g == [n \in N |-> step[n][f]]
  <2>2. g \in [N -> V]
    OBVIOUS
  <2>3. ASSUME NEW n \in N, height[n] < k + 1
        PROVE  g[n] = step[n][g]
    <3>1. \A c \in below[n] : g[c] = f[c]
      <4> SUFFICES ASSUME NEW c \in below[n]
                   PROVE  g[c] = f[c]
        OBVIOUS
      <4>1. c \in N /\ height[c] < k
        BY <2>3
      <4> QED
        BY <4>1, <2>1
    <3> HIDE DEF g
    <3>2. step[n][g] = step[n][f]
      BY <3>1, <2>2
    <3> QED
      BY <3>2 DEF g
  <2> HIDE DEF g
  <2> QED
    BY <2>2, <2>3
<1> HIDE DEF Good
<1>3. bound + 1 \in Good
  <2> DEFINE Fails == Nat \ Good
  <2> SUFFICES ASSUME Fails # {}
               PROVE  FALSE
    OBVIOUS
  <2>1. PICK k \in Fails : \A j \in Fails : k <= j
    <3>1. Fails \subseteq Nat
      OBVIOUS
    <3> HIDE DEF Fails
    <3> QED
      BY <3>1, First
  <2>2. k \in Nat \ {0}
    BY <1>1
  <2>3. k - 1 \in Good
    <3>1. k - 1 \in Nat /\ ~(k <= k - 1)
      BY <2>2
    <3> QED
      BY <3>1, <2>1
  <2>4. (k - 1) + 1 \in Good
    BY <1>2, <2>3
  <2> QED
    BY <2>1, <2>2, <2>4
<1>4. PICK f \in [N -> V] : \A n \in N : height[n] < bound + 1 => f[n] = step[n][f]
  BY <1>3 DEF Good
<1>5. \A n \in N : height[n] < bound + 1
  OBVIOUS
<1> QED
  BY <1>4, <1>5

(* Sequences of sequences, and sets in sequence.                           *)
LEMMA Flattened ==
  ASSUME NEW S, NEW ss \in Seq(Seq(S))
  PROVE  FlattenSeq(ss) \in Seq(S)
<1>1. CASE Len(ss) = 0
  BY <1>1 DEF FlattenSeq
<1>2. CASE Len(ss) # 0
  <2> DEFINE N == 1 .. Len(ss)
             V == Seq(S)
             bound == Len(ss)
             flatten == CHOOSE f : f = [i \in N |-> IF i = 1 THEN ss[i] ELSE f[i - 1] \o ss[i]]
             height == [i \in N |-> i]
             below == [i \in N |-> IF i = 1 THEN {} ELSE {i - 1}]
             step == [i \in N |-> [f \in [N -> V] |-> IF i = 1 THEN ss[i] ELSE f[i - 1] \o ss[i]]]
  <2>0. \A s, t \in Seq(S) : s \o t \in Seq(S)
    OBVIOUS
  <2>1. bound \in Nat /\ N \subseteq Nat
    OBVIOUS
  <2>2. step \in [N -> [[N -> V] -> V]]
    <3> SUFFICES ASSUME NEW i \in N, NEW f \in [N -> V]
                 PROVE  (IF i = 1 THEN ss[i] ELSE f[i - 1] \o ss[i]) \in Seq(S)
      OBVIOUS
    <3>1. ss[i] \in Seq(S) /\ (i # 1 => i - 1 \in N)
      OBVIOUS
    <3>2. i # 1 => f[i - 1] \in Seq(S)
      BY <3>1
    <3> QED
      BY <3>1, <3>2, <2>0
  <2>3. PICK f \in [N -> V] : \A i \in N : f[i] = step[i][f]
    <3>1. height \in [N -> 0 .. bound]
      BY <2>1
    <3>2. \A i \in N : \A c \in below[i] : c \in N /\ height[c] < height[i]
      BY <2>1
    <3>3. \A i \in N : \A f, g \in [N -> V] :
             (\A c \in below[i] : f[c] = g[c]) => step[i][f] = step[i][g]
      OBVIOUS
    <3>4. [N -> V] # {}
      <4>1. [i \in N |-> <<>>] \in [N -> V]
        OBVIOUS
      <4> QED
        BY <4>1
    <3> HIDE DEF N, V, bound, height, below, step
    <3>5. Founded(N, V, bound, height, below, step)
      BY <2>1, <2>2, <3>1, <3>2, <3>3, <3>4 DEF Founded
    <3> QED
      BY <3>5, OnTree
  <2>4. f = [i \in N |-> IF i = 1 THEN ss[i] ELSE f[i - 1] \o ss[i]]
    BY <2>3
  <2>5. flatten = [i \in N |-> IF i = 1 THEN ss[i] ELSE flatten[i - 1] \o ss[i]]
    BY <2>4
  <2>6. \A i \in N : flatten[i] \in Seq(S)
    <3> DEFINE Bad == {i \in N : flatten[i] \notin Seq(S)}
    <3> SUFFICES ASSUME Bad # {}
                 PROVE  FALSE
      OBVIOUS
    <3>1. PICK i \in Bad : \A j \in Bad : i <= j
      <4>1. Bad \subseteq Nat
        BY <2>1
      <4> HIDE DEF Bad
      <4> QED
        BY <4>1, First
    <3> HIDE DEF flatten
    <3>2. ss[i] \in Seq(S) /\ flatten[i] \notin Seq(S) /\ i \in N
      BY <3>1
    <3>3. i # 1
      BY <2>5, <3>2
    <3>4. i - 1 \in N /\ flatten[i - 1] \in Seq(S)
      BY <3>1, <3>2, <3>3
    <3>5. flatten[i - 1] \o ss[i] \in Seq(S)
      BY <2>0, <3>2, <3>4
    <3> QED
      BY <2>5, <3>2, <3>3, <3>5
  <2>7. FlattenSeq(ss) = flatten[Len(ss)]
    BY <1>2 DEF FlattenSeq
  <2> HIDE DEF flatten
  <2> QED
    BY <1>2, <2>1, <2>6, <2>7
<1> QED
  BY <1>1, <1>2

LEMMA Sequenced ==
  ASSUME NEW S, IsFiniteSet(S)
  PROVE  SetToSeq(S) \in Seq(S)
<1>1. Cardinality(S) \in Nat /\ ExistsBijection(1 .. Cardinality(S), S)
  BY FS_CardinalityType
<1>2. PICK f \in [1 .. Cardinality(S) -> S] : IsInjective(f)
  BY <1>1 DEF ExistsBijection, Bijection, Injection, IsInjective
<1>3. SetToSeq(S) \in [1 .. Cardinality(S) -> S]
  BY <1>2 DEF SetToSeq
<1> QED
  BY <1>1, <1>3

-----------------------------------------------------------------------------
(* The state of the backend.                                               *)
Sources == [panel : Panels, generation : Nat, lifetime : Resources]
SceneNodes == [version : Nat, visible : BOOLEAN, children : Seq(Nodes), list : Addresses \cup {None}]

SceneTypes ==
    /\ scene \in [Nodes -> SceneNodes] /\ Acyclic(scene)
    /\ lists \in [Addresses -> [made : Nat, commands : Seq({Draw} \cup Sources)]]
    /\ changes \in Nat /\ ready \in BOOLEAN
    /\ \A n \in Nodes : scene[n].version <= changes
    /\ \A n \in DOMAIN nodes : nodes[n].version \in 0 .. changes

LEMMA SceneHeights ==
  SceneTypes =>
    /\ Cardinality(Nodes) \in Nat /\ Root \in Nodes
    /\ \A n \in Nodes : scene[n] \in SceneNodes /\ ToSet(scene[n].children) \subseteq Nodes
    /\ \E height \in [Nodes -> Nat] :
          /\ height \in [Nodes -> 0 .. Cardinality(Nodes)]
          /\ \A n \in Nodes : \A c \in ToSet(scene[n].children) : height[c] < height[n]
<1> SUFFICES ASSUME SceneTypes
             PROVE  /\ Cardinality(Nodes) \in Nat /\ Root \in Nodes
                    /\ \A n \in Nodes : scene[n] \in SceneNodes /\ ToSet(scene[n].children) \subseteq Nodes
                    /\ \E height \in [Nodes -> Nat] :
                          /\ height \in [Nodes -> 0 .. Cardinality(Nodes)]
                          /\ \A n \in Nodes : \A c \in ToSet(scene[n].children) : height[c] < height[n]
  OBVIOUS
<1>1. Cardinality(Nodes) \in Nat /\ Root \in Nodes
  BY SceneAssumption, FS_CardinalityType
<1>2. ASSUME NEW n \in Nodes
      PROVE  scene[n] \in SceneNodes /\ ToSet(scene[n].children) \subseteq Nodes
  <2>1. scene[n] \in SceneNodes
    BY DEF SceneTypes
  <2>2. scene[n].children \in Seq(Nodes)
    BY <2>1 DEF SceneNodes
  <2> QED
    BY <2>1, <2>2 DEF ToSet
<1>3. PICK height \in [Nodes -> 0 .. Cardinality(Nodes)] :
         \A n \in Nodes : \A c \in ToSet(scene[n].children) : height[c] < height[n]
  BY DEF SceneTypes, Acyclic
<1>4. height \in [Nodes -> Nat]
  BY <1>1, <1>3
<1> QED
  BY <1>1, <1>2, <1>3, <1>4

(* The nodes that are reached from a node by what is next of each.         *)
Nested(N, bound, height, next) ==
    /\ bound \in Nat /\ height \in [N -> 0 .. bound] /\ next \in [N -> SUBSET N]
    /\ \A n \in N : \A c \in next[n] : height[c] < height[n]

Gathers(N, next, f) ==
    /\ f \in [N -> SUBSET N]
    /\ \A n \in N : f[n] = {n} \cup UNION {f[c] : c \in next[n]}
    /\ \A n \in N : \A m \in f[n] : next[m] \subseteq f[n]
    /\ \A g : (\A n \in N : g[n] = {n} \cup UNION {g[c] : c \in next[n]}) => \A n \in N : g[n] = f[n]

LEMMA Gathered ==
  ASSUME NEW N, NEW bound, NEW height, NEW next, Nested(N, bound, height, next)
  PROVE  \E f : Gathers(N, next, f)
<1> USE DEF Nested
<1> DEFINE V == SUBSET N
           step == [n \in N |-> [f \in [N -> V] |-> {n} \cup UNION {f[c] : c \in next[n]}]]
<1>0. height \in [N -> Nat] /\ \A n \in N : \A c \in next[n] : c \in N
  OBVIOUS
<1>1. PICK f \in [N -> V] : \A n \in N : f[n] = step[n][f]
  <2>1. step \in [N -> [[N -> V] -> V]]
    <3> SUFFICES ASSUME NEW n \in N, NEW f \in [N -> V], NEW c \in next[n]
                 PROVE  f[c] \subseteq N
      OBVIOUS
    <3> QED
      BY <1>0
  <2>2. [N -> V] # {}
    <3>1. [n \in N |-> N] \in [N -> V]
      OBVIOUS
    <3> QED
      BY <3>1
  <2>3. \A n \in N : \A f, g \in [N -> V] :
           (\A c \in next[n] : f[c] = g[c]) => step[n][f] = step[n][g]
    <3> SUFFICES ASSUME NEW n \in N, NEW f \in [N -> V], NEW g \in [N -> V],
                        \A c \in next[n] : f[c] = g[c]
                 PROVE  step[n][f] = step[n][g]
      BY Zenon
    <3>1. {f[c] : c \in next[n]} = {g[c] : c \in next[n]}
      OBVIOUS
    <3> QED
      BY <3>1
  <2> HIDE DEF V, step
  <2>4. Founded(N, V, bound, height, next, step)
    BY <1>0, <2>1, <2>2, <2>3 DEF Founded
  <2> QED
    BY <2>4, OnTree
<1>2. \A n \in N : f[n] = {n} \cup UNION {f[c] : c \in next[n]}
  BY <1>1
<1>3. ASSUME NEW n \in N
      PROVE  \A m \in f[n] : next[m] \subseteq f[n]
  <2> DEFINE Bad == {n_1 \in N : \E m \in f[n_1] : ~(next[m] \subseteq f[n_1])}
  <2> SUFFICES ASSUME Bad # {}
               PROVE  FALSE
    OBVIOUS
  <2>1. PICK b \in Bad : \A m \in Bad : height[b] <= height[m]
    <3>1. Bad \subseteq N
      OBVIOUS
    <3> HIDE DEF Bad
    <3> QED
      BY <1>0, <3>1, Lowest
  <2>2. PICK m \in f[b] : ~(next[m] \subseteq f[b])
    BY <2>1
  <2>3. \A c \in next[b] : f[c] \subseteq f[b]
    BY <1>2, <2>1
  <2>4. \A c \in next[b] : c \in f[b]
    BY <1>0, <1>2, <2>1, <2>3
  <2>5. PICK c \in next[b] : m \in f[c]
    BY <1>2, <2>1, <2>2, <2>4
  <2>6. c \notin Bad
    <3>1. height[c] < height[b] /\ height[c] \in Nat /\ height[b] \in Nat
      BY <1>0, <2>1, <2>5
    <3> QED
      BY <2>1, <3>1
  <2> QED
    BY <1>0, <2>1, <2>2, <2>3, <2>5, <2>6
<1>4. ASSUME NEW g, \A n \in N : g[n] = {n} \cup UNION {g[c] : c \in next[n]}
      PROVE  \A n \in N : g[n] = f[n]
  <2> DEFINE Bad == {n \in N : g[n] # f[n]}
  <2> SUFFICES ASSUME Bad # {}
               PROVE  FALSE
    OBVIOUS
  <2>1. PICK b \in Bad : \A m \in Bad : height[b] <= height[m]
    <3>1. Bad \subseteq N
      OBVIOUS
    <3> HIDE DEF Bad
    <3> QED
      BY <1>0, <3>1, Lowest
  <2>2. \A c \in next[b] : g[c] = f[c]
    <3> SUFFICES ASSUME NEW c \in next[b], g[c] # f[c]
                 PROVE  FALSE
      OBVIOUS
    <3>1. c \in Bad /\ height[c] < height[b] /\ height[c] \in Nat /\ height[b] \in Nat
      BY <1>0, <2>1
    <3> QED
      BY <2>1, <3>1
  <2>3. {g[c] : c \in next[b]} = {f[c] : c \in next[b]}
    BY <2>2
  <2> QED
    BY <1>2, <1>4, <2>1, <2>3
<1> QED
  BY <1>2, <1>3, <1>4 DEF Gathers

Children(n) == ToSet(scene[n].children)
Descended(n) == IF scene[n].visible THEN Children(n) ELSE {}

(* Reached, and after it InScene, obeys its equation and is closed         *)
(* downwards.                                                              *)
LEMMA ReachedIs ==
  SceneTypes =>
    \E f \in [Nodes -> SUBSET Nodes] :
      /\ \A n \in Nodes : f[n] = {n} \cup UNION {f[c] : c \in Descended(n)}
      /\ \A n \in Nodes : \A m \in f[n] : Descended(m) \subseteq f[n]
      /\ Reached = f[Root]
<1> SUFFICES ASSUME SceneTypes
             PROVE  \E f \in [Nodes -> SUBSET Nodes] :
                      /\ \A n \in Nodes : f[n] = {n} \cup UNION {f[c] : c \in Descended(n)}
                      /\ \A n \in Nodes : \A m \in f[n] : Descended(m) \subseteq f[n]
                      /\ Reached = f[Root]
  OBVIOUS
<1> DEFINE next == [n \in Nodes |-> Descended(n)]
           under == CHOOSE f : f = [n \in Nodes |->
                      {n} \cup IF scene[n].visible THEN UNION {f[c] : c \in ToSet(scene[n].children)} ELSE {}]
<1>1. PICK height \in [Nodes -> 0 .. Cardinality(Nodes)] :
         \A n \in Nodes : \A c \in ToSet(scene[n].children) : height[c] < height[n]
  BY SceneHeights
<1>2. PICK f : Gathers(Nodes, next, f)
  <2>1. Cardinality(Nodes) \in Nat /\ next \in [Nodes -> SUBSET Nodes]
    BY SceneHeights DEF Descended, Children
  <2>2. \A n \in Nodes : \A c \in next[n] : height[c] < height[n]
    BY <1>1 DEF Descended, Children
  <2>3. Nested(Nodes, Cardinality(Nodes), height, next)
    BY <1>1, <2>1, <2>2 DEF Nested
  <2> HIDE DEF next
  <2> QED
    BY <2>3, Gathered
<1>3. /\ f \in [Nodes -> SUBSET Nodes]
      /\ \A n \in Nodes : f[n] = {n} \cup UNION {f[c] : c \in next[n]}
      /\ \A n \in Nodes : \A m \in f[n] : next[m] \subseteq f[n]
      /\ \A g : (\A n \in Nodes : g[n] = {n} \cup UNION {g[c] : c \in next[n]}) => \A n \in Nodes : g[n] = f[n]
  BY <1>2 DEF Gathers
<1>4. f = [n \in Nodes |-> {n} \cup IF scene[n].visible
                                    THEN UNION {f[c] : c \in ToSet(scene[n].children)} ELSE {}]
  <2>1. \A n \in Nodes : f[n] = {n} \cup IF scene[n].visible
                                    THEN UNION {f[c] : c \in ToSet(scene[n].children)} ELSE {}
    BY <1>3 DEF Descended, Children
  <2> QED
    BY <1>3, <2>1
<1>5. under = [n \in Nodes |-> {n} \cup IF scene[n].visible
                                       THEN UNION {under[c] : c \in ToSet(scene[n].children)} ELSE {}]
  BY <1>4
<1>6. Reached = under[Root]
  BY DEF Reached
<1> HIDE DEF under
<1>7. \A n \in Nodes : under[n] = {n} \cup UNION {under[c] : c \in next[n]}
  BY <1>5 DEF Descended, Children
<1>8. under[Root] = f[Root]
  BY <1>3, <1>7, SceneAssumption
<1> QED
  BY <1>3, <1>6, <1>8

LEMMA InSceneIs ==
  SceneTypes =>
    \E f \in [Nodes -> SUBSET Nodes] :
      /\ \A n \in Nodes : f[n] = {n} \cup UNION {f[c] : c \in Children(n)}
      /\ InScene = f[Root]
<1> SUFFICES ASSUME SceneTypes
             PROVE  \E f \in [Nodes -> SUBSET Nodes] :
                      /\ \A n \in Nodes : f[n] = {n} \cup UNION {f[c] : c \in Children(n)}
                      /\ InScene = f[Root]
  OBVIOUS
<1> DEFINE next == [n \in Nodes |-> Children(n)]
           below == CHOOSE f : f = [n \in Nodes |-> {n} \cup UNION {f[c] : c \in ToSet(scene[n].children)}]
<1>1. PICK height \in [Nodes -> 0 .. Cardinality(Nodes)] :
         \A n \in Nodes : \A c \in ToSet(scene[n].children) : height[c] < height[n]
  BY SceneHeights
<1>2. PICK f : Gathers(Nodes, next, f)
  <2>1. Cardinality(Nodes) \in Nat /\ next \in [Nodes -> SUBSET Nodes]
    BY SceneHeights DEF Children
  <2>2. \A n \in Nodes : \A c \in next[n] : height[c] < height[n]
    BY <1>1 DEF Children
  <2>3. Nested(Nodes, Cardinality(Nodes), height, next)
    BY <1>1, <2>1, <2>2 DEF Nested
  <2> HIDE DEF next
  <2> QED
    BY <2>3, Gathered
<1>3. /\ f \in [Nodes -> SUBSET Nodes]
      /\ \A n \in Nodes : f[n] = {n} \cup UNION {f[c] : c \in next[n]}
      /\ \A g : (\A n \in Nodes : g[n] = {n} \cup UNION {g[c] : c \in next[n]}) => \A n \in Nodes : g[n] = f[n]
  BY <1>2 DEF Gathers
<1>4. f = [n \in Nodes |-> {n} \cup UNION {f[c] : c \in ToSet(scene[n].children)}]
  <2>1. \A n \in Nodes : f[n] = {n} \cup UNION {f[c] : c \in ToSet(scene[n].children)}
    BY <1>3 DEF Children
  <2> QED
    BY <1>3, <2>1
<1>5. below = [n \in Nodes |-> {n} \cup UNION {below[c] : c \in ToSet(scene[n].children)}]
  BY <1>4
<1>6. InScene = below[Root]
  BY DEF InScene
<1> HIDE DEF below
<1>7. \A n \in Nodes : below[n] = {n} \cup UNION {below[c] : c \in next[n]}
  BY <1>5 DEF Children
<1>8. below[Root] = f[Root]
  BY <1>3, <1>7, SceneAssumption
<1> QED
  BY <1>3, <1>6, <1>8

-----------------------------------------------------------------------------
(* What a node draws, by its commands.                                     *)
Ends(c, i) == {e \in 2 .. (Len(c) + 1) : IsRun(c, i, e)}
Piece(c, i, made) ==
    IF c[i] # Draw THEN <<c[i]>>
    ELSE SetToSeq({[made |-> made, begin |-> i, end |-> e] : e \in Ends(c, i)})
Drawn(c, made) == FlattenSeq([i \in DOMAIN c |-> Piece(c, i, made)])

Pictures == [made : Nat, begin : Nat, end : Nat]

LEMMA DrawnType ==
  ASSUME NEW S, NEW c \in Seq({Draw} \cup S), NEW made \in Nat
  PROVE  Drawn(c, made) \in Seq(S \cup Pictures)
<1> DEFINE T == S \cup Pictures
<1>1. ASSUME NEW i \in 1 .. Len(c)
      PROVE  Piece(c, i, made) \in Seq(T)
  <2>1. c[i] \in {Draw} \cup S /\ i \in Nat /\ Len(c) \in Nat
    OBVIOUS
  <2>2. CASE c[i] # Draw
    BY <2>1, <2>2 DEF Piece
  <2>3. CASE c[i] = Draw
    <3> DEFINE f == [e \in Ends(c, i) |-> [made |-> made, begin |-> i, end |-> e]]
               R == {[made |-> made, begin |-> i, end |-> e] : e \in Ends(c, i)}
    <3>1. IsFiniteSet(Ends(c, i))
      <4>1. IsFiniteSet(2 .. (Len(c) + 1))
        BY <2>1, FS_Interval
      <4>2. Ends(c, i) \in SUBSET (2 .. (Len(c) + 1))
        BY DEF Ends
      <4> QED
        BY <4>1, <4>2, FS_Subset
    <3>2. IsFiniteSet(R)
      <4>1. f \in Surjection(Ends(c, i), R)
        BY DEF Surjection
      <4> QED
        BY <3>1, <4>1, FS_Surjection
    <3>3. R \subseteq T
      BY <2>1 DEF Ends, Pictures
    <3>4. SetToSeq(R) \in Seq(R)
      BY <3>2, Sequenced
    <3>5. SetToSeq(R) \in Seq(T)
      BY <3>3, <3>4
    <3> QED
      BY <2>3, <3>5 DEF Piece
  <2> QED
    BY <2>2, <2>3
<1>2. [i \in DOMAIN c |-> Piece(c, i, made)] \in Seq(Seq(T))
  BY <1>1
<1> QED
  BY <1>2, Flattened DEF Drawn

WantedOwn == [p \in Painting |-> Drawn(Commands(p), lists[scene[p].list].made)]

(* What the scene looks like, over what its nodes draw.                    *)
LEMMA WantedTree == Wanted = Tree(WantedOwn)
BY DEF Wanted, WantedOwn, PaintOrder, Drawn, Piece, Ends

(* The invariant of the caches.                                            *)
UploadsOf(s) ==
    \A k \in DOMAIN s :
        /\ k.list \in Addresses /\ s[k].lifetime = k.list
        /\ s[k].content = [made |-> lists[k.list].made, begin |-> k.begin, end |-> k.end]
ImportsOf(x) ==
    \A k \in DOMAIN x :
        /\ x[k].content \in Sources /\ x[k].content = k.source
        /\ x[k].lifetime = k.source.lifetime
Uploads == UploadsOf(surfaces)
Imports == ImportsOf(externals)

LEMMA CommandsType ==
  SceneTypes => \A n \in Nodes :
    /\ Commands(n) \in Seq({Draw} \cup Sources)
    /\ Commands(n) # <<>> => scene[n].list \in Addresses /\ Commands(n) = lists[scene[n].list].commands
<1> SUFFICES ASSUME SceneTypes, NEW n \in Nodes
             PROVE  /\ Commands(n) \in Seq({Draw} \cup Sources)
                    /\ Commands(n) # <<>> => scene[n].list \in Addresses /\ Commands(n) = lists[scene[n].list].commands
  OBVIOUS
<1>1. scene[n].list \in Addresses \cup {None}
  BY DEF SceneTypes, SceneNodes
<1>2. CASE scene[n].list = None
  BY <1>2 DEF Commands
<1>3. CASE scene[n].list # None
  BY <1>1, <1>3 DEF Commands, SceneTypes
<1> QED
  BY <1>2, <1>3

LEMMA ReachedNodes ==
  SceneTypes => /\ Reached \subseteq Nodes /\ Root \in Reached /\ Painting \subseteq Reached
                /\ \A n \in Painting : Children(n) \subseteq Reached
<1> SUFFICES ASSUME SceneTypes
             PROVE  /\ Reached \subseteq Nodes /\ Root \in Reached /\ Painting \subseteq Reached
                    /\ \A n \in Painting : Children(n) \subseteq Reached
  OBVIOUS
<1>1. PICK f \in [Nodes -> SUBSET Nodes] :
        /\ \A n \in Nodes : f[n] = {n} \cup UNION {f[c] : c \in Descended(n)}
        /\ \A n \in Nodes : \A m \in f[n] : Descended(m) \subseteq f[n]
        /\ Reached = f[Root]
  BY ReachedIs
<1>2. Reached \subseteq Nodes /\ Root \in Reached
  BY <1>1, SceneAssumption
<1>3. \A n \in Painting : n \in Reached /\ scene[n].visible
  BY DEF Painting
<1>4. \A n \in Painting : Children(n) \subseteq Reached
  BY <1>1, <1>3, SceneAssumption DEF Descended
<1> QED
  BY <1>2, <1>3, <1>4

NeededRuns ==
    {x \in UNION {{<<n, b, e>> : b \in 1..Len(Commands(n)), e \in 2..(Len(Commands(n)) + 1)} : n \in Painting} :
        IsRun(Commands(x[1]), x[2], x[3])}

(* An update keeps what is cached and adds what the scene needs: what is   *)
(* cached for a run shows that run.                                        *)
LEMMA SurfacesStaged ==
  SceneTypes /\ Uploads =>
    /\ UploadsOf(StagedSurfaces)
    /\ \A k \in DOMAIN StagedSurfaces :
          \/ k \in DOMAIN surfaces /\ StagedSurfaces[k] = surfaces[k]
          \/ \E n \in Painting : StagedSurfaces[k].lifetime = scene[n].list
    /\ \A n \in Painting : \A b \in DOMAIN Commands(n) : \A e \in Ends(Commands(n), b) :
          StagedSurfaces[SurfaceKey(n, b, e)].content =
             [made |-> lists[scene[n].list].made, begin |-> b, end |-> e]
<1> SUFFICES ASSUME SceneTypes, Uploads
             PROVE  /\ UploadsOf(StagedSurfaces)
                    /\ \A k \in DOMAIN StagedSurfaces :
                          \/ k \in DOMAIN surfaces /\ StagedSurfaces[k] = surfaces[k]
                          \/ \E n \in Painting : StagedSurfaces[k].lifetime = scene[n].list
                    /\ \A n \in Painting : \A b \in DOMAIN Commands(n) : \A e \in Ends(Commands(n), b) :
                          StagedSurfaces[SurfaceKey(n, b, e)].content =
                             [made |-> lists[scene[n].list].made, begin |-> b, end |-> e]
  OBVIOUS
<1> DEFINE Key(x) == SurfaceKey(x[1], x[2], x[3])
           D == DOMAIN surfaces \cup {Key(x) : x \in NeededRuns}
           new(k) == CHOOSE x \in NeededRuns : Key(x) = k
<1>1. StagedSurfaces = [k \in D |-> IF k \in DOMAIN surfaces THEN surfaces[k]
                                     ELSE SurfaceEntry(new(k)[1], new(k)[2], new(k)[3])]
  BY DEF StagedSurfaces, NeededRuns
<1>2. ASSUME NEW x \in NeededRuns
      PROVE  /\ x[1] \in Painting /\ x[1] \in Nodes /\ scene[x[1]].list \in Addresses
             /\ Key(x).list = scene[x[1]].list /\ Key(x).begin = x[2] /\ Key(x).end = x[3]
  <2>0. PICK n \in Painting : \E b \in 1..Len(Commands(n)), e \in 2..(Len(Commands(n)) + 1) : x = <<n, b, e>>
    BY DEF NeededRuns
  <2>1. PICK b \in 1..Len(Commands(n)), e \in 2..(Len(Commands(n)) + 1) : x = <<n, b, e>>
    BY <2>0
  <2>2. n \in Nodes /\ Commands(n) \in Seq({Draw} \cup Sources)
    BY ReachedNodes, CommandsType
  <2>3. Commands(n) # <<>>
    BY <2>1, <2>2
  <2>4. scene[n].list \in Addresses
    BY <2>2, <2>3, CommandsType
  <2> QED
    BY <2>1, <2>2, <2>4 DEF SurfaceKey
<1>3. ASSUME NEW k \in D
      PROVE  /\ k.list \in Addresses /\ StagedSurfaces[k].lifetime = k.list
             /\ StagedSurfaces[k].content = [made |-> lists[k.list].made, begin |-> k.begin, end |-> k.end]
             /\ \/ k \in DOMAIN surfaces /\ StagedSurfaces[k] = surfaces[k]
                \/ \E n \in Painting : StagedSurfaces[k].lifetime = scene[n].list
  <2>1. CASE k \in DOMAIN surfaces
    BY <1>1, <2>1 DEF Uploads, UploadsOf
  <2>2. CASE k \notin DOMAIN surfaces
    <3>1. \E x \in NeededRuns : Key(x) = k
      BY <2>2
    <3>2. new(k) \in NeededRuns /\ Key(new(k)) = k
      <4> HIDE DEF Key
      <4> QED
        BY <3>1
    <3>3. StagedSurfaces[k] = SurfaceEntry(new(k)[1], new(k)[2], new(k)[3])
      BY <1>1, <2>2
    <3> HIDE DEF new
    <3>4. /\ new(k)[1] \in Painting /\ scene[new(k)[1]].list \in Addresses
          /\ k.list = scene[new(k)[1]].list /\ k.begin = new(k)[2] /\ k.end = new(k)[3]
      <4> HIDE DEF Key
      <4> QED
        BY <1>2, <3>2
    <3> QED
      BY <3>3, <3>4 DEF SurfaceEntry
  <2> QED
    BY <2>1, <2>2
<1>4. DOMAIN StagedSurfaces = D
  BY <1>1
<1>5. ASSUME NEW n \in Painting, NEW b \in DOMAIN Commands(n), NEW e \in Ends(Commands(n), b)
      PROVE  StagedSurfaces[SurfaceKey(n, b, e)].content =
                [made |-> lists[scene[n].list].made, begin |-> b, end |-> e]
  <2>1. Commands(n) \in Seq({Draw} \cup Sources)
    BY ReachedNodes, CommandsType
  <2>2. <<n, b, e>> \in NeededRuns
    BY <2>1 DEF NeededRuns, Ends
  <2>3. SurfaceKey(n, b, e) \in D
    BY <2>2
  <2>4. /\ SurfaceKey(n, b, e).list = scene[n].list
        /\ SurfaceKey(n, b, e).begin = b /\ SurfaceKey(n, b, e).end = e
    BY DEF SurfaceKey
  <2> HIDE DEF D
  <2> QED
    BY <1>3, <2>3, <2>4
<1> HIDE DEF D
<1> QED
  BY <1>3, <1>4, <1>5 DEF UploadsOf

NeededUses ==
    {x \in UNION {{<<n, i>> : i \in DOMAIN Commands(n)} : n \in Painting} : Commands(x[1])[x[2]] # Draw}

(* And likewise of the sources.                                            *)
LEMMA ExternalsStaged ==
  SceneTypes /\ Imports =>
    /\ ImportsOf(StagedExternals)
    /\ \A k \in DOMAIN StagedExternals :
          \/ k \in DOMAIN externals /\ StagedExternals[k] = externals[k]
          \/ \E n \in Painting : \E i \in DOMAIN Commands(n) :
                Commands(n)[i] # Draw /\ StagedExternals[k].content = Commands(n)[i]
    /\ \A n \in Painting : \A i \in DOMAIN Commands(n) :
          Commands(n)[i] # Draw =>
            /\ ExternalKey(n, i, Commands(n)[i]) \in DOMAIN StagedExternals
            /\ StagedExternals[ExternalKey(n, i, Commands(n)[i])].content = Commands(n)[i]
<1> SUFFICES ASSUME SceneTypes, Imports
             PROVE  /\ ImportsOf(StagedExternals)
                    /\ \A k \in DOMAIN StagedExternals :
                          \/ k \in DOMAIN externals /\ StagedExternals[k] = externals[k]
                          \/ \E n \in Painting : \E i \in DOMAIN Commands(n) :
                                Commands(n)[i] # Draw /\ StagedExternals[k].content = Commands(n)[i]
                    /\ \A n \in Painting : \A i \in DOMAIN Commands(n) :
                          Commands(n)[i] # Draw =>
                            /\ ExternalKey(n, i, Commands(n)[i]) \in DOMAIN StagedExternals
                            /\ StagedExternals[ExternalKey(n, i, Commands(n)[i])].content = Commands(n)[i]
  OBVIOUS
<1> DEFINE Source(x) == Commands(x[1])[x[2]]
           Key(x) == ExternalKey(x[1], x[2], Source(x))
           D == DOMAIN externals \cup {Key(x) : x \in NeededUses}
           new(k) == CHOOSE x \in NeededUses : Key(x) = k
<1>1. StagedExternals = [k \in D |-> IF k \in DOMAIN externals THEN externals[k]
                                      ELSE ExternalEntry(Source(new(k)))]
  BY DEF StagedExternals, NeededUses
<1>2. ASSUME NEW x \in NeededUses
      PROVE  /\ x[1] \in Painting /\ x[2] \in DOMAIN Commands(x[1]) /\ Source(x) # Draw
             /\ Source(x) \in Sources /\ Key(x).source = Source(x)
  <2>0. PICK n \in Painting : \E i \in DOMAIN Commands(n) : x = <<n, i>>
    BY DEF NeededUses
  <2>1. PICK i \in DOMAIN Commands(n) : x = <<n, i>>
    BY <2>0
  <2>2. Commands(n) \in Seq({Draw} \cup Sources)
    BY ReachedNodes, CommandsType
  <2>3. Source(x) = Commands(n)[i] /\ Source(x) # Draw
    BY <2>1 DEF NeededUses
  <2>4. Source(x) \in Sources
    BY <2>2, <2>3
  <2> QED
    BY <2>1, <2>3, <2>4 DEF ExternalKey
<1>3. ASSUME NEW k \in D
      PROVE  /\ StagedExternals[k].content \in Sources /\ StagedExternals[k].content = k.source
             /\ StagedExternals[k].lifetime = k.source.lifetime
             /\ \/ k \in DOMAIN externals /\ StagedExternals[k] = externals[k]
                \/ \E n \in Painting : \E i \in DOMAIN Commands(n) :
                      Commands(n)[i] # Draw /\ StagedExternals[k].content = Commands(n)[i]
  <2>1. CASE k \in DOMAIN externals
    BY <1>1, <2>1 DEF Imports, ImportsOf
  <2>2. CASE k \notin DOMAIN externals
    <3>1. \E x \in NeededUses : Key(x) = k
      BY <2>2
    <3>2. new(k) \in NeededUses /\ Key(new(k)) = k
      <4> HIDE DEF Key
      <4> QED
        BY <3>1
    <3>3. StagedExternals[k] = ExternalEntry(Source(new(k)))
      BY <1>1, <2>2
    <3> HIDE DEF new
    <3>4. /\ new(k)[1] \in Painting /\ new(k)[2] \in DOMAIN Commands(new(k)[1])
          /\ Source(new(k)) # Draw /\ Source(new(k)) \in Sources /\ k.source = Source(new(k))
      <4> HIDE DEF Key, Source
      <4> QED
        BY <1>2, <3>2
    <3>5. StagedExternals[k].content = Source(new(k)) /\ StagedExternals[k].lifetime = Source(new(k)).lifetime
      BY <3>3 DEF ExternalEntry
    <3> QED
      BY <3>4, <3>5
  <2> QED
    BY <2>1, <2>2
<1>4. DOMAIN StagedExternals = D
  BY <1>1
<1>5. ASSUME NEW n \in Painting, NEW i \in DOMAIN Commands(n), Commands(n)[i] # Draw
      PROVE  /\ ExternalKey(n, i, Commands(n)[i]) \in D
             /\ StagedExternals[ExternalKey(n, i, Commands(n)[i])].content = Commands(n)[i]
  <2>1. <<n, i>> \in NeededUses
    BY <1>5 DEF NeededUses
  <2>2. ExternalKey(n, i, Commands(n)[i]) \in D
    BY <2>1
  <2>3. ExternalKey(n, i, Commands(n)[i]).source = Commands(n)[i]
    BY DEF ExternalKey
  <2> HIDE DEF D
  <2> QED
    BY <1>3, <2>2, <2>3
<1> HIDE DEF D
<1> QED
  BY <1>3, <1>4, <1>5 DEF ImportsOf

-----------------------------------------------------------------------------
(* The visual tree.                                                        *)
Headers == [node : Nodes, version : Nat]

(* The equation of a node's part of the tree.                              *)
VisualOf(n, node, drawn, f) ==
    <<[node |-> n, version |-> node.version]>> \o
    IF node.visible THEN drawn \o FlattenSeq([i \in DOMAIN node.children |-> f[node.children[i]]]) ELSE <<>>

LEMMA VisualType ==
  ASSUME SceneTypes, NEW T, Headers \subseteq T, NEW own \in [Painting -> Seq(T)], NEW n \in Reached, NEW f,
         \A c \in Descended(n) : f[c] \in Seq(T)
  PROVE  VisualOf(n, scene[n], own[n], f) \in Seq(T)
<1>1. n \in Nodes /\ scene[n] \in SceneNodes
  BY ReachedNodes, SceneHeights
<1>2. <<[node |-> n, version |-> scene[n].version]>> \in Seq(T)
  BY <1>1 DEF SceneNodes, Headers
<1>3. \A s, t \in Seq(T) : s \o t \in Seq(T)
  OBVIOUS
<1>4. CASE scene[n].visible
  <2> DEFINE parts == [i \in DOMAIN scene[n].children |-> f[scene[n].children[i]]]
  <2>1. scene[n].children \in Seq(Nodes)
    BY <1>1 DEF SceneNodes
  <2>2. \A i \in DOMAIN scene[n].children : f[scene[n].children[i]] \in Seq(T)
    BY <1>4, <2>1 DEF Descended, Children, ToSet
  <2>3. parts \in Seq(Seq(T))
    <3> DEFINE V == Seq(T)
               kids == scene[n].children
    <3>1. \A i \in DOMAIN kids : f[kids[i]] \in V
      BY <2>2
    <3>2. kids \in Seq(Nodes)
      BY <2>1
    <3> HIDE DEF V, kids
    <3>3. [i \in DOMAIN kids |-> f[kids[i]]] \in Seq(V)
      BY <3>1, <3>2
    <3> QED
      BY <3>3 DEF V, kids
  <2>4. FlattenSeq(parts) \in Seq(T)
    BY <2>3, Flattened
  <2>5. own[n] \in Seq(T)
    BY <1>4 DEF Painting
  <2>6. own[n] \o FlattenSeq(parts) \in Seq(T)
    <3> HIDE DEF parts
    <3> QED
      BY <1>3, <2>4, <2>5
  <2>7. VisualOf(n, scene[n], own[n], f) = <<[node |-> n, version |-> scene[n].version]>> \o (own[n] \o FlattenSeq(parts))
    BY <1>4 DEF VisualOf
  <2> HIDE DEF parts
  <2> QED
    BY <1>2, <1>3, <2>6, <2>7
<1>5. CASE ~scene[n].visible
  <2>1. <<>> \in Seq(T)
    OBVIOUS
  <2> QED
    BY <1>2, <1>3, <1>5, <2>1 DEF VisualOf
<1> QED
  BY <1>4, <1>5

LEMMA VisualSame ==
  ASSUME SceneTypes, NEW n \in Reached, NEW drawn, NEW f, NEW g,
         \A c \in Descended(n) : f[c] = g[c]
  PROVE  VisualOf(n, scene[n], drawn, f) = VisualOf(n, scene[n], drawn, g)
<1>1. n \in Nodes /\ scene[n] \in SceneNodes
  BY ReachedNodes, SceneHeights
<1>2. CASE scene[n].visible
  <2>1. \A i \in DOMAIN scene[n].children : f[scene[n].children[i]] = g[scene[n].children[i]]
    BY <1>1, <1>2 DEF Descended, Children, ToSet, SceneNodes
  <2>2. [i \in DOMAIN scene[n].children |-> f[scene[n].children[i]]]
          = [i \in DOMAIN scene[n].children |-> g[scene[n].children[i]]]
    BY <2>1
  <2> QED
    BY <2>2 DEF VisualOf
<1>3. CASE ~scene[n].visible
  BY <1>3 DEF VisualOf
<1> QED
  BY <1>2, <1>3

LEMMA DescendedLower ==
  SceneTypes =>
    \E height \in [Reached -> 0 .. Cardinality(Nodes)] :
        \A n \in Reached : \A c \in Descended(n) : c \in Reached /\ height[c] < height[n]
<1> SUFFICES ASSUME SceneTypes
             PROVE  \E height \in [Reached -> 0 .. Cardinality(Nodes)] :
                       \A n \in Reached : \A c \in Descended(n) : c \in Reached /\ height[c] < height[n]
  OBVIOUS
<1>1. PICK height \in [Nodes -> 0 .. Cardinality(Nodes)] :
         \A n \in Nodes : \A c \in ToSet(scene[n].children) : height[c] < height[n]
  BY SceneHeights
<1> DEFINE h == [n \in Reached |-> height[n]]
<1>2. h \in [Reached -> 0 .. Cardinality(Nodes)]
  BY ReachedNodes
<1>3. ASSUME NEW n \in Reached, NEW c \in Descended(n)
      PROVE  c \in Reached /\ h[c] < h[n]
  <2>1. n \in Painting /\ c \in Children(n)
    BY DEF Descended, Painting
  <2>2. n \in Nodes /\ c \in Reached
    BY <2>1, ReachedNodes
  <2> QED
    BY <1>1, <2>1, <2>2 DEF Children
<1> HIDE DEF h
<1> QED
  BY <1>2, <1>3

Builds(own, f) == \A n \in Reached : f[n] = VisualOf(n, scene[n], own[n], f)

(* Only one function satisfies it.                                         *)
LEMMA VisualOnce ==
  ASSUME SceneTypes, NEW own, NEW f, NEW g, Builds(own, f), Builds(own, g)
  PROVE  \A n \in Reached : f[n] = g[n]
<1> DEFINE Bad == {n \in Reached : f[n] # g[n]}
<1> SUFFICES ASSUME Bad # {}
             PROVE  FALSE
  OBVIOUS
<1>1. PICK height \in [Reached -> 0 .. Cardinality(Nodes)] :
         \A n \in Reached : \A c \in Descended(n) : c \in Reached /\ height[c] < height[n]
  BY DescendedLower
<1>2. height \in [Reached -> Nat]
  BY <1>1, SceneHeights
<1>3. PICK n \in Bad : \A m \in Bad : height[n] <= height[m]
  <2>1. Bad \subseteq Reached
    OBVIOUS
  <2> HIDE DEF Bad
  <2> QED
    BY <1>2, <2>1, Lowest
<1>4. \A c \in Descended(n) : f[c] = g[c]
  <2> SUFFICES ASSUME NEW c \in Descended(n), f[c] # g[c]
               PROVE  FALSE
    OBVIOUS
  <2>1. c \in Bad /\ height[c] < height[n] /\ height[c] \in Nat /\ height[n] \in Nat
    BY <1>1, <1>2, <1>3
  <2> QED
    BY <1>3, <2>1
<1>5. VisualOf(n, scene[n], own[n], f) = VisualOf(n, scene[n], own[n], g)
  BY <1>3, <1>4, VisualSame
<1> QED
  BY <1>3, <1>5 DEF Builds

LEMMA TreeIs ==
  ASSUME SceneTypes, NEW T, Headers \subseteq T, NEW own \in [Painting -> Seq(T)]
  PROVE  \E f \in [Reached -> Seq(T)] :
            Builds(own, f) /\ Tree(own) = f[Root]
<1> DEFINE V == Seq(T)
           bound == Cardinality(Nodes)
           below == [n \in Reached |-> Descended(n)]
           step == [n \in Reached |-> [f \in [Reached -> V] |-> VisualOf(n, scene[n], own[n], f)]]
           tree == CHOOSE f : f = [n \in Reached |->
                      <<[node |-> n, version |-> scene[n].version]>> \o
                      IF scene[n].visible
                      THEN own[n] \o FlattenSeq([i \in DOMAIN scene[n].children |-> f[scene[n].children[i]]])
                      ELSE <<>>]
<1>1. PICK height \in [Reached -> 0 .. bound] :
         \A n \in Reached : \A c \in Descended(n) : c \in Reached /\ height[c] < height[n]
  BY DescendedLower
<1>2. PICK f \in [Reached -> V] : \A n \in Reached : f[n] = step[n][f]
  <2>1. bound \in Nat
    BY SceneHeights
  <2>2. step \in [Reached -> [[Reached -> V] -> V]]
    <3> SUFFICES ASSUME NEW n \in Reached, NEW f \in [Reached -> V]
                 PROVE  VisualOf(n, scene[n], own[n], f) \in V
      OBVIOUS
    <3>1. \A c \in Descended(n) : f[c] \in Seq(T)
      BY <1>1
    <3> QED
      BY <3>1, VisualType
  <2>3. [Reached -> V] # {}
    <3>1. [n \in Reached |-> <<>>] \in [Reached -> V]
      OBVIOUS
    <3> QED
      BY <3>1
  <2>4. \A n \in Reached : \A f, g \in [Reached -> V] :
           (\A c \in below[n] : f[c] = g[c]) => step[n][f] = step[n][g]
    <3> SUFFICES ASSUME NEW n \in Reached, NEW f \in [Reached -> V], NEW g \in [Reached -> V],
                        \A c \in below[n] : f[c] = g[c]
                 PROVE  step[n][f] = step[n][g]
      BY Zenon
    <3>1. VisualOf(n, scene[n], own[n], f) = VisualOf(n, scene[n], own[n], g)
      BY VisualSame
    <3> QED
      BY <3>1
  <2>5. \A n \in Reached : \A c \in below[n] : c \in Reached /\ height[c] < height[n]
    BY <1>1
  <2> HIDE DEF V, bound, below, step
  <2>6. Founded(Reached, V, bound, height, below, step)
    BY <1>1, <2>1, <2>2, <2>3, <2>4, <2>5 DEF Founded
  <2> QED
    BY <2>6, OnTree
<1>3. Builds(own, f)
  BY <1>2 DEF Builds
<1>4. f = [n \in Reached |->
              <<[node |-> n, version |-> scene[n].version]>> \o
              IF scene[n].visible
              THEN own[n] \o FlattenSeq([i \in DOMAIN scene[n].children |-> f[scene[n].children[i]]])
              ELSE <<>>]
  <2>1. f = [n \in Reached |-> VisualOf(n, scene[n], own[n], f)]
    BY <1>2, <1>3 DEF Builds
  <2> QED
    BY <2>1 DEF VisualOf
<1>5. tree = [n \in Reached |->
              <<[node |-> n, version |-> scene[n].version]>> \o
              IF scene[n].visible
              THEN own[n] \o FlattenSeq([i \in DOMAIN scene[n].children |-> tree[scene[n].children[i]]])
              ELSE <<>>]
  BY <1>4
<1>6. Tree(own) = tree[Root]
  BY DEF Tree
<1> HIDE DEF tree
<1>7. Builds(own, tree)
  BY <1>5 DEF VisualOf, Builds
<1>8. \A n \in Reached : tree[n] = f[n]
  BY <1>3, <1>7, VisualOnce
<1>9. Tree(own) = f[Root]
  BY <1>6, <1>8, ReachedNodes
<1> QED
  BY <1>2, <1>3, <1>9

LEMMA WantedOwnType ==
  SceneTypes => WantedOwn \in [Painting -> Seq(Sources \cup Pictures)]
<1> SUFFICES ASSUME SceneTypes, NEW p \in Painting
             PROVE  Drawn(Commands(p), lists[scene[p].list].made) \in Seq(Sources \cup Pictures)
  BY DEF WantedOwn
<1>1. p \in Nodes /\ Commands(p) \in Seq({Draw} \cup Sources)
  BY ReachedNodes, CommandsType
<1>2. CASE Commands(p) = <<>>
  <2>1. Drawn(Commands(p), lists[scene[p].list].made) = <<>>
    BY <1>2 DEF Drawn, FlattenSeq
  <2>2. <<>> \in Seq(Sources \cup Pictures)
    OBVIOUS
  <2> QED
    BY <2>1, <2>2
<1>3. CASE Commands(p) # <<>>
  <2>1. scene[p].list \in Addresses
    BY <1>1, <1>3, CommandsType
  <2>2. lists[scene[p].list].made \in Nat
    BY <2>1 DEF SceneTypes
  <2> QED
    BY <1>1, <2>2, DrawnType
<1> QED
  BY <1>2, <1>3

WantedBuilt == \E f : Builds(WantedOwn, f) /\ Wanted = f[Root]

(* Wanted is the tree that the equations of its nodes define.              *)
LEMMA WantedIs == SceneTypes => WantedBuilt
<1> SUFFICES ASSUME SceneTypes
             PROVE  \E f : Builds(WantedOwn, f) /\ Wanted = f[Root]
  BY DEF WantedBuilt
<1> DEFINE T == Headers \cup (Sources \cup Pictures)
<1>1. WantedOwn \in [Painting -> Seq(T)]
  <2>1. \A s \in Seq(Sources \cup Pictures) : s \in Seq(T)
    OBVIOUS
  <2> QED
    BY <2>1, WantedOwnType
<1>2. Headers \subseteq T
  OBVIOUS
<1> HIDE DEF T
<1>3. \E f \in [Reached -> Seq(T)] : Builds(WantedOwn, f) /\ Tree(WantedOwn) = f[Root]
  BY <1>1, <1>2, TreeIs
<1> QED
  BY <1>3, WantedTree

(* What Update stages is what the scene looks like.                        *)
LEMMA StagedIs ==
  SceneTypes /\ Uploads /\ Imports => StagedTree = Wanted
<1> SUFFICES ASSUME SceneTypes, Uploads, Imports
             PROVE  StagedTree = Wanted
  OBVIOUS
<1> DEFINE StagedPiece(n, i) ==
             IF Commands(n)[i] # Draw
             THEN <<StagedExternals[ExternalKey(n, i, Commands(n)[i])].content>>
             ELSE SetToSeq({StagedSurfaces[SurfaceKey(n, i, e)].content : e \in Ends(Commands(n), i)})
           StagedOwn == [p \in Painting |-> FlattenSeq([i \in DOMAIN Commands(p) |-> StagedPiece(p, i)])]
<1>1. StagedTree = Tree(StagedOwn)
  BY DEF StagedTree, PaintOrder, Ends
<1>2. ASSUME NEW n \in Painting, NEW i \in DOMAIN Commands(n)
      PROVE  StagedPiece(n, i) = Piece(Commands(n), i, lists[scene[n].list].made)
  <2>1. CASE Commands(n)[i] # Draw
    BY <2>1, ExternalsStaged DEF Piece
  <2>2. CASE Commands(n)[i] = Draw
    <3>1. {StagedSurfaces[SurfaceKey(n, i, e)].content : e \in Ends(Commands(n), i)}
            = {[made |-> lists[scene[n].list].made, begin |-> i, end |-> e] : e \in Ends(Commands(n), i)}
      <4>1. \A e \in Ends(Commands(n), i) : StagedSurfaces[SurfaceKey(n, i, e)].content
                                               = [made |-> lists[scene[n].list].made, begin |-> i, end |-> e]
        BY SurfacesStaged
      <4> QED
        BY <4>1, Zenon
    <3> QED
      BY <2>2, <3>1 DEF Piece
  <2> QED
    BY <2>1, <2>2
<1>3. ASSUME NEW p \in Painting
      PROVE  FlattenSeq([i \in DOMAIN Commands(p) |-> StagedPiece(p, i)])
               = Drawn(Commands(p), lists[scene[p].list].made)
  <2>1. [i \in DOMAIN Commands(p) |-> StagedPiece(p, i)]
          = [i \in DOMAIN Commands(p) |-> Piece(Commands(p), i, lists[scene[p].list].made)]
    <3> HIDE DEF StagedPiece
    <3> QED
      BY <1>2
  <2> QED
    BY <2>1 DEF Drawn
<1>4. StagedOwn = WantedOwn
  <2> HIDE DEF StagedPiece
  <2> QED
    BY <1>3 DEF WantedOwn
<1> HIDE DEF StagedOwn
<1> QED
  BY <1>1, <1>4, WantedTree

LEMMA StagedShown ==
  SceneTypes /\ Uploads /\ Imports =>
    \A i \in DOMAIN StagedTree :
        "lifetime" \in DOMAIN StagedTree[i] =>
            \E k \in DOMAIN StagedExternals : StagedExternals[k].content = StagedTree[i]
<1> SUFFICES ASSUME SceneTypes, Uploads, Imports
             PROVE  \A i \in DOMAIN StagedTree :
                       "lifetime" \in DOMAIN StagedTree[i] =>
                          \E k \in DOMAIN StagedExternals : StagedExternals[k].content = StagedTree[i]
  OBVIOUS
<1> DEFINE S == {StagedExternals[k].content : k \in DOMAIN StagedExternals}
           T == Headers \cup (S \cup Pictures)
<1>1. ASSUME NEW p \in Painting
      PROVE  WantedOwn[p] \in Seq(T)
  <2>0. WantedOwn[p] = Drawn(Commands(p), lists[scene[p].list].made)
    BY DEF WantedOwn
  <2>1. p \in Nodes /\ Commands(p) \in Seq({Draw} \cup Sources)
    BY ReachedNodes, CommandsType
  <2>2. CASE Commands(p) = <<>>
    <3>1. WantedOwn[p] = <<>>
      BY <2>0, <2>2 DEF Drawn, FlattenSeq
    <3>2. <<>> \in Seq(T)
      OBVIOUS
    <3> QED
      BY <3>1, <3>2
  <2>3. CASE Commands(p) # <<>>
    <3>1. scene[p].list \in Addresses
      BY <2>1, <2>3, CommandsType
    <3>2. lists[scene[p].list].made \in Nat
      BY <3>1 DEF SceneTypes
    <3>3. \A i \in DOMAIN Commands(p) : Commands(p)[i] \in {Draw} \cup S
      BY ExternalsStaged
    <3>4. Commands(p) \in Seq({Draw} \cup S)
      <4> HIDE DEF S
      <4> QED
        BY <2>1, <3>3
    <3>5. WantedOwn[p] \in Seq(S \cup Pictures)
      <4> HIDE DEF S
      <4> QED
        BY <2>0, <3>2, <3>4, DrawnType
    <3> QED
      <4> HIDE DEF S
      <4> QED
        BY <3>5
  <2> QED
    BY <2>2, <2>3
<1>2. WantedOwn \in [Painting -> Seq(T)]
  <2> HIDE DEF T
  <2> QED
    BY <1>1 DEF WantedOwn
<1>3. Headers \subseteq T
  OBVIOUS
<1>4. StagedTree \in Seq(T)
  <2> HIDE DEF T
  <2>1. PICK f \in [Reached -> Seq(T)] : Builds(WantedOwn, f) /\ Tree(WantedOwn) = f[Root]
    BY <1>2, <1>3, TreeIs
  <2> QED
    BY <2>1, StagedIs, WantedTree, ReachedNodes
<1>5. ASSUME NEW x \in T, "lifetime" \in DOMAIN x
      PROVE  x \in S
  <2>1. x \notin Headers
    BY <1>5 DEF Headers
  <2>2. x \notin Pictures
    BY <1>5 DEF Pictures
  <2> QED
    BY <2>1, <2>2
<1>6. \A i \in DOMAIN StagedTree : StagedTree[i] \in T
  <2> HIDE DEF T
  <2> QED
    BY <1>4
<1> QED
  BY <1>5, <1>6

-----------------------------------------------------------------------------
(* A change of nodes that the scene does not have leaves it as it looks.   *)
LEMMA SameScene ==
  ASSUME SceneTypes, SceneTypes', NEW changed, changed \cap InScene' = {},
         \A n \in Nodes \ changed :
            /\ scene'[n] = scene[n] /\ Commands(n)' = Commands(n)
            /\ Commands(n) # <<>> => lists'[scene[n].list].made = lists[scene[n].list].made
  PROVE  InScene' = InScene /\ Wanted' = Wanted
<1>1. PICK b : /\ \A n \in Nodes : b[n] = {n} \cup UNION {b[c] : c \in Children(n)}
               /\ InScene = b[Root]
  BY InSceneIs
<1>2. PICK b1 : /\ \A n \in Nodes : b1[n] = {n} \cup UNION {b1[c] : c \in Children(n)'}
                /\ InScene' = b1[Root]
  <2>1. SceneTypes' => (\E f \in [Nodes -> SUBSET Nodes] :
                           /\ \A n \in Nodes : f[n] = {n} \cup UNION {f[c] : c \in Children(n)}
                           /\ InScene = f[Root])'
    BY InSceneIs, PTL
  <2> QED
    BY <2>1
<1>3. PICK r : /\ \A n \in Nodes : r[n] = {n} \cup UNION {r[c] : c \in Descended(n)}
               /\ Reached = r[Root]
  BY ReachedIs
<1>4. PICK r1 : /\ \A n \in Nodes : r1[n] = {n} \cup UNION {r1[c] : c \in Descended(n)'}
                /\ Reached' = r1[Root]
  <2>1. SceneTypes' => (\E f \in [Nodes -> SUBSET Nodes] :
                           /\ \A n \in Nodes : f[n] = {n} \cup UNION {f[c] : c \in Descended(n)}
                           /\ \A n \in Nodes : \A m \in f[n] : Descended(m) \subseteq f[n]
                           /\ Reached = f[Root])'
    BY ReachedIs, PTL
  <2> QED
    BY <2>1
<1>5. ASSUME NEW n \in Nodes \ changed
      PROVE  /\ Children(n)' = Children(n) /\ Descended(n)' = Descended(n)
             /\ Children(n) \subseteq Nodes /\ Descended(n) \subseteq Children(n)
  BY <1>5, SceneHeights DEF Children, Descended
<1>6. \A n \in Nodes : b1[n] \cap changed = {} => b[n] = b1[n] /\ r[n] = r1[n] /\ r[n] \subseteq b[n]
  <2> DEFINE Bad == {n \in Nodes : b1[n] \cap changed = {} /\ ~(b[n] = b1[n] /\ r[n] = r1[n] /\ r[n] \subseteq b[n])}
  <2> SUFFICES ASSUME Bad # {}
               PROVE  FALSE
    OBVIOUS
  <2>1. PICK height \in [Nodes -> Nat] : \A n \in Nodes : \A c \in Children(n) : height[c] < height[n]
    BY SceneHeights DEF Children
  <2>2. PICK n \in Bad : \A m \in Bad : height[n] <= height[m]
    <3>1. Bad \subseteq Nodes
      OBVIOUS
    <3> HIDE DEF Bad
    <3> QED
      BY <2>1, <3>1, Lowest
  <2>3. n \in Nodes \ changed
    BY <1>2, <2>2
  <2>4. ASSUME NEW c \in Children(n)
        PROVE  b[c] = b1[c] /\ r[c] = r1[c] /\ r[c] \subseteq b[c]
    <3>1. c \in Nodes /\ b1[c] \cap changed = {}
      BY <1>2, <1>5, <2>2, <2>3
    <3>2. height[c] < height[n] /\ height[c] \in Nat /\ height[n] \in Nat
      BY <2>1, <2>3, <3>1
    <3>3. c \notin Bad
      BY <2>2, <3>2
    <3> QED
      BY <3>1, <3>3
  <2>5. {b[c] : c \in Children(n)} = {b1[c] : c \in Children(n)}
    BY <2>4
  <2>6. {r[c] : c \in Descended(n)} = {r1[c] : c \in Descended(n)}
    BY <1>5, <2>3, <2>4
  <2>7. b[n] = b1[n]
    BY <1>1, <1>2, <1>5, <2>3, <2>5
  <2>8. r[n] = r1[n]
    BY <1>3, <1>4, <1>5, <2>3, <2>6
  <2>9. r[n] \subseteq b[n]
    BY <1>1, <1>3, <1>5, <2>3, <2>4
  <2> QED
    BY <2>2, <2>7, <2>8, <2>9
<1>7. InScene' = InScene /\ Reached' = Reached /\ Reached \cap changed = {} /\ Reached \subseteq Nodes
  BY <1>1, <1>2, <1>3, <1>4, <1>6, SceneAssumption, ReachedNodes
<1>8. \A n \in Reached : scene'[n] = scene[n]
  BY <1>7
<1>9. Painting' = Painting
  BY <1>7, <1>8 DEF Painting
<1>10. ASSUME NEW p \in Painting
       PROVE  WantedOwn'[p] = WantedOwn[p]
  <2>1. p \in Nodes \ changed
    BY <1>7 DEF Painting
  <2>2. WantedOwn[p] = Drawn(Commands(p), lists[scene[p].list].made)
    BY DEF WantedOwn
  <2>3. WantedOwn'[p] = Drawn(Commands(p), lists'[scene[p].list].made)
    BY <1>9, <2>1 DEF WantedOwn
  <2>4. CASE Commands(p) = <<>>
    BY <2>2, <2>3, <2>4 DEF Drawn, FlattenSeq
  <2>5. CASE Commands(p) # <<>>
    BY <2>1, <2>2, <2>3, <2>5
  <2> QED
    BY <2>4, <2>5
<1>11. PICK w : Builds(WantedOwn, w) /\ Wanted = w[Root]
  BY WantedIs DEF WantedBuilt
<1>12. PICK g : (\A n \in Reached' : g[n] = VisualOf(n, scene'[n], WantedOwn'[n], g)) /\ Wanted' = g[Root]
  <2>1. SceneTypes' => WantedBuilt'
    BY WantedIs, PTL
  <2> QED
    BY <2>1 DEF WantedBuilt, Builds
<1>13. Builds(WantedOwn, g)
  <2> SUFFICES ASSUME NEW n \in Reached
               PROVE  g[n] = VisualOf(n, scene[n], WantedOwn[n], g)
    BY DEF Builds
  <2>1. g[n] = VisualOf(n, scene[n], WantedOwn'[n], g)
    BY <1>7, <1>8, <1>12
  <2>2. CASE n \in Painting
    BY <1>10, <2>1, <2>2
  <2>3. CASE n \notin Painting
    <3>1. ~scene[n].visible
      BY <2>3 DEF Painting
    <3> QED
      BY <2>1, <3>1 DEF VisualOf
  <2> QED
    BY <2>2, <2>3
<1>14. Wanted' = Wanted
  BY <1>11, <1>12, <1>13, VisualOnce, ReachedNodes
<1> QED
  BY <1>7, <1>14

-----------------------------------------------------------------------------
(* The invariant.                                                          *)
CallsOf == [panel : Panels, holds : Resources \cup {None}, step : {"commit", "release"}]

BindingTypes ==
    /\ generation \in [Panels -> Nat] /\ resource \in [Panels -> Resources \cup {None}]
    /\ calls \in [Threads -> Seq(CallsOf)]
    /\ DOMAIN born = Resources

InLists(s) == \E a \in Addresses : ListAlive(a) /\ s \in SourcesOf(lists[a].commands)
Imported(s) == \E k \in DOMAIN externals : externals[k].content = s
Captured(s) == InLists(s) \/ Imported(s)

(* What a panel has or somebody captured is of the replacement it says.    *)
Owned ==
    /\ \A p \in Panels : resource[p] # None => born[resource[p]] = <<p, generation[p]>>
    /\ \A s \in Sources : Captured(s) => born[s.lifetime] = <<s.panel, s.generation>>

(* What a call will commit is nobody else's yet.                           *)
Uncommitted(t, i) == calls[t][i].step = "commit" /\ calls[t][i].holds # None
Fresh ==
    \A t \in Threads : \A i \in DOMAIN calls[t] : Uncommitted(t, i) =>
        /\ \A p \in Panels : resource[p] # calls[t][i].holds
        /\ \A u \in Threads : \A j \in DOMAIN calls[u] : calls[u][j].holds = calls[t][i].holds => u = t /\ j = i
        /\ \A s \in Sources : Captured(s) => s.lifetime # calls[t][i].holds

(* A source that is shown is imported: the cache keeps it alive.           *)
ShownImported == \A i \in DOMAIN displayed : "lifetime" \in DOMAIN displayed[i] => Imported(displayed[i])

(* Unless a node has changed since, what is shown is what the scene looks  *)
(* like.                                                                   *)
Current == ready /\ DOMAIN nodes = InScene /\ \A n \in InScene : nodes[n].version = scene[n].version
Faithful == Current => displayed = Wanted

(* The inductive invariant of RetainedAlive and FrameProtocol.             *)
BackendInv ==
    SceneTypes /\ BindingTypes /\ Owned /\ Fresh /\ Uploads /\ Imports /\ ShownImported /\ Faithful

LEMMA BackendInit == Init => BackendInv
<1> SUFFICES ASSUME Init
             PROVE  BackendInv
  OBVIOUS
<1> USE DEF Init, BindingInit, SceneInit, Empty
<1>1. SceneTypes
  <2>1. scene \in [Nodes -> SceneNodes] /\ \A n \in Nodes : scene[n].version <= changes
    BY DEF SceneNodes
  <2>2. Acyclic(scene)
    <3>1. Cardinality(Nodes) \in Nat
      BY SceneAssumption, FS_CardinalityType
    <3>2. [n \in Nodes |-> 0] \in [Nodes -> 0 .. Cardinality(Nodes)]
      BY <3>1
    <3>3. \A n \in Nodes : ToSet(scene[n].children) = {}
      BY DEF ToSet
    <3> QED
      BY <3>2, <3>3 DEF Acyclic
  <2>3. lists \in [Addresses -> [made : Nat, commands : Seq({Draw} \cup Sources)]]
    OBVIOUS
  <2>4. DOMAIN nodes = {}
    OBVIOUS
  <2> QED
    BY <2>1, <2>2, <2>3, <2>4 DEF SceneTypes
<1>2. BindingTypes
  BY DEF BindingTypes
<1>3. \A s : ~Captured(s)
  BY DEF Captured, InLists, Imported, SourcesOf, ToSet
<1>4. Owned /\ Fresh
  BY <1>3 DEF Owned, Fresh
<1>5. Uploads /\ Imports /\ ShownImported /\ Faithful
  BY DEF Uploads, UploadsOf, Imports, ImportsOf, ShownImported, Faithful, Current
<1> QED
  BY <1>1, <1>2, <1>4, <1>5 DEF BackendInv

(* Whatever leaves the scene and the backend as they are keeps what is     *)
(* said of them.                                                           *)
LEMMA BackendKept ==
  BackendInv /\ UNCHANGED <<sceneVars, backendVars, displayed>> =>
    /\ SceneTypes' /\ Uploads' /\ Imports' /\ ShownImported' /\ Faithful'
    /\ \A s : Captured(s)' <=> Captured(s)
<1> SUFFICES ASSUME BackendInv, UNCHANGED <<sceneVars, backendVars, displayed>>
             PROVE  /\ SceneTypes' /\ Uploads' /\ Imports' /\ ShownImported' /\ Faithful'
                    /\ \A s : Captured(s)' <=> Captured(s)
  OBVIOUS
<1> USE DEF sceneVars, backendVars
<1>1. SceneTypes' /\ Uploads' /\ Imports' /\ ShownImported'
  BY DEF BackendInv, SceneTypes, Acyclic, Uploads, UploadsOf, Imports, ImportsOf, ShownImported, Imported
<1>2. \A s : Captured(s)' <=> Captured(s)
  BY DEF Captured, InLists, Imported, ListAlive
<1>3. InScene' = InScene /\ Wanted' = Wanted
  <2>1. \A n \in Nodes : Commands(n)' = Commands(n)
    BY DEF Commands
  <2>2. {} \cap InScene' = {}
    OBVIOUS
  <2> QED
    BY <1>1, <2>1, <2>2, SameScene DEF BackendInv
<1>4. Faithful'
  BY <1>3 DEF BackendInv, Faithful, Current
<1> QED
  BY <1>1, <1>2, <1>4

LEMMA BeginKeeps ==
  ASSUME BackendInv, NEW t \in Threads, NEW p \in Panels, NEW r \in {x \in Resources : ~Alive(x)} \cup {None},
         BeginSet(t, p, r), UNCHANGED <<sceneVars, backendVars, displayed>>
  PROVE  BackendInv'
<1> DEFINE c == [panel |-> p, holds |-> r, step |-> "commit"]
           Was(u, i) == IF u = t THEN i - 1 ELSE i
<1>1. /\ calls' = [calls EXCEPT ![t] = <<c>> \o @]
      /\ generation' = generation /\ resource' = resource /\ born' = born
  BY DEF BeginSet
<1>2. BindingTypes /\ Owned /\ Fresh /\ Imports
  BY DEF BackendInv
<1>3. c \in CallsOf /\ calls \in [Threads -> Seq(CallsOf)]
  BY <1>2 DEF CallsOf, BindingTypes
<1>4. calls' \in [Threads -> Seq(CallsOf)]
  <2>1. <<c>> \o calls[t] \in Seq(CallsOf)
    BY <1>3
  <2> QED
    BY <1>1, <1>3, <2>1
<1>5. ASSUME NEW u \in Threads, NEW i \in DOMAIN calls'[u]
      PROVE  /\ u = t /\ i = 1 => calls'[u][i] = c
             /\ ~(u = t /\ i = 1) => Was(u, i) \in DOMAIN calls[u] /\ calls'[u][i] = calls[u][Was(u, i)]
             /\ i \in Nat
  <2>1. calls[t] \in Seq(CallsOf) /\ calls'[t] = <<c>> \o calls[t] /\ (u # t => calls'[u] = calls[u])
    BY <1>1, <1>3
  <2>2. calls'[u] \in Seq(CallsOf)
    BY <1>4
  <2>3. i \in 1 .. Len(calls'[u])
    BY <2>2
  <2> HIDE DEF c
  <2>4. CASE u = t
    BY <2>1, <2>3, <2>4
  <2>5. CASE u # t
    BY <2>1, <2>3, <2>5
  <2> QED
    BY <2>4, <2>5
<1>6. ASSUME NEW u \in Threads, NEW i \in DOMAIN calls[u], calls[u][i].holds # None
      PROVE  calls[u][i].holds # r
  <2>1. calls[u][i].holds \in HeldByBinding
    BY DEF HeldByBinding, Calls
  <2> QED
    BY <1>6, <2>1 DEF Alive
<1>7. \A q \in Panels : resource[q] = r => r = None
  <2>1. \A q \in Panels : resource[q] \in HeldByBinding
    BY DEF HeldByBinding
  <2> QED
    BY <2>1 DEF Alive
<1>8. \A s \in Sources : Captured(s) => s.lifetime # r \/ r = None
  <2> SUFFICES ASSUME NEW s \in Sources, Captured(s)
               PROVE  Alive(s.lifetime)
    BY DEF Sources
  <2>1. CASE InLists(s)
    BY <2>1 DEF InLists, Alive
  <2>2. CASE Imported(s)
    BY <1>2, <2>2 DEF Imported, Imports, ImportsOf, Alive
  <2> QED
    BY <2>1, <2>2 DEF Captured
<1>9. BindingTypes'
  BY <1>1, <1>2, <1>4 DEF BindingTypes
<1>10. /\ SceneTypes' /\ Uploads' /\ Imports' /\ ShownImported' /\ Faithful'
       /\ \A s : Captured(s)' <=> Captured(s)
  BY BackendKept
<1>11. Owned'
  BY <1>1, <1>2, <1>10 DEF Owned
<1>12. Fresh'
  <2> SUFFICES ASSUME NEW u \in Threads, NEW i \in DOMAIN calls'[u],
                      calls'[u][i].step = "commit", calls'[u][i].holds # None
               PROVE  /\ \A q \in Panels : resource[q] # calls'[u][i].holds
                      /\ \A v \in Threads : \A j \in DOMAIN calls'[v] :
                            calls'[v][j].holds = calls'[u][i].holds => v = u /\ j = i
                      /\ \A s \in Sources : Captured(s) => s.lifetime # calls'[u][i].holds
    BY <1>1, <1>10 DEF Fresh, Uncommitted
  <2>1. CASE u = t /\ i = 1
    <3>1. calls'[u][i].holds = r /\ r # None
      BY <1>5, <2>1
    <3>2. ASSUME NEW v \in Threads, NEW j \in DOMAIN calls'[v], calls'[v][j].holds = r
          PROVE  v = u /\ j = i
      BY <1>5, <1>6, <2>1, <3>1, <3>2
    <3> QED
      BY <1>7, <1>8, <3>1, <3>2
  <2>2. CASE ~(u = t /\ i = 1)
    <3>1. Was(u, i) \in DOMAIN calls[u] /\ calls'[u][i] = calls[u][Was(u, i)]
      BY <1>5, <2>2
    <3>2. Uncommitted(u, Was(u, i))
      BY <3>1 DEF Uncommitted
    <3>3. /\ \A q \in Panels : resource[q] # calls'[u][i].holds
          /\ \A v \in Threads : \A j \in DOMAIN calls[v] :
                calls[v][j].holds = calls'[u][i].holds => v = u /\ j = Was(u, i)
          /\ \A s \in Sources : Captured(s) => s.lifetime # calls'[u][i].holds
      BY <1>2, <3>1, <3>2 DEF Fresh
    <3>4. ASSUME NEW v \in Threads, NEW j \in DOMAIN calls'[v], calls'[v][j].holds = calls'[u][i].holds
          PROVE  v = u /\ j = i
      <4>1. ~(v = t /\ j = 1)
        BY <1>5, <1>6, <3>1, <3>4
      <4>2. Was(v, j) \in DOMAIN calls[v] /\ calls'[v][j] = calls[v][Was(v, j)]
        BY <1>5, <4>1
      <4>3. v = u /\ Was(v, j) = Was(u, i)
        BY <3>3, <3>4, <4>2
      <4>4. i \in Nat /\ j \in Nat
        BY <1>5
      <4> QED
        BY <4>3, <4>4
    <3> QED
      BY <3>3, <3>4
  <2> QED
    BY <2>1, <2>2
<1> QED
  BY <1>9, <1>10, <1>11, <1>12 DEF BackendInv

LEMMA CommitKeeps ==
  ASSUME BackendInv, NEW t \in Threads, Commit(t), UNCHANGED <<sceneVars, backendVars, displayed>>
  PROVE  BackendInv'
<1> DEFINE p == Head(calls[t]).panel
           r == Head(calls[t]).holds
           c == [panel |-> p, holds |-> resource[p], step |-> "release"]
<1>1. /\ calls[t] # <<>> /\ Head(calls[t]).step = "commit"
      /\ generation' = [generation EXCEPT ![p] = @ + 1]
      /\ resource' = [resource EXCEPT ![p] = r]
      /\ born' = IF r = None THEN born ELSE [born EXCEPT ![r] = <<p, generation[p] + 1>>]
      /\ calls' = [calls EXCEPT ![t] = <<c>> \o Tail(@)]
  BY DEF Commit
<1>2. BindingTypes /\ Owned /\ Fresh
  BY DEF BackendInv
<1>3. /\ calls \in [Threads -> Seq(CallsOf)] /\ calls[t] \in Seq(CallsOf) /\ 1 \in DOMAIN calls[t]
      /\ Head(calls[t]) = calls[t][1] /\ calls[t][1] \in CallsOf
  <2>1. calls \in [Threads -> Seq(CallsOf)]
    BY <1>2 DEF BindingTypes
  <2> QED
    BY <1>1, <2>1
<1>4. p \in Panels /\ r \in Resources \cup {None} /\ r = calls[t][1].holds
  BY <1>3 DEF CallsOf
<1>5. c \in CallsOf
  BY <1>2, <1>4 DEF CallsOf, BindingTypes
<1>6. /\ <<c>> \o Tail(calls[t]) \in Seq(CallsOf)
      /\ DOMAIN (<<c>> \o Tail(calls[t])) = DOMAIN calls[t]
      /\ (<<c>> \o Tail(calls[t]))[1] = c
      /\ \A i \in DOMAIN calls[t] : i # 1 => (<<c>> \o Tail(calls[t]))[i] = calls[t][i]
  <2> HIDE DEF c
  <2> QED
    BY <1>1, <1>3, <1>5
<1>7. calls' \in [Threads -> Seq(CallsOf)]
  BY <1>1, <1>3, <1>6
<1>8. ASSUME NEW u \in Threads, NEW i \in DOMAIN calls'[u]
      PROVE  /\ i \in DOMAIN calls[u]
             /\ u = t /\ i = 1 => calls'[u][i] = c
             /\ ~(u = t /\ i = 1) => calls'[u][i] = calls[u][i]
  <2> HIDE DEF c
  <2>1. CASE u = t
    BY <1>1, <1>3, <1>6, <2>1
  <2>2. CASE u # t
    BY <1>1, <1>3, <2>2
  <2> QED
    BY <2>1, <2>2
<1>9. BindingTypes'
  <2>1. generation' \in [Panels -> Nat]
    BY <1>1, <1>2, <1>4 DEF BindingTypes
  <2>2. resource' \in [Panels -> Resources \cup {None}]
    BY <1>1, <1>2, <1>4 DEF BindingTypes
  <2>3. DOMAIN born' = Resources
    BY <1>1, <1>2 DEF BindingTypes
  <2> QED
    BY <1>7, <2>1, <2>2, <2>3 DEF BindingTypes
<1>10. /\ SceneTypes' /\ Uploads' /\ Imports' /\ ShownImported' /\ Faithful'
       /\ \A s : Captured(s)' <=> Captured(s)
  BY BackendKept
<1>11. r # None =>
         /\ \A q \in Panels : resource[q] # r
         /\ \A u \in Threads : \A j \in DOMAIN calls[u] : calls[u][j].holds = r => u = t /\ j = 1
         /\ \A s \in Sources : Captured(s) => s.lifetime # r
  BY <1>1, <1>2, <1>3, <1>4 DEF Fresh, Uncommitted
<1>12. ASSUME NEW x \in Resources, x # r
       PROVE  born'[x] = born[x]
  BY <1>1, <1>2, <1>12 DEF BindingTypes
<1>13. Owned'
  <2>1. ASSUME NEW q \in Panels, resource'[q] # None
        PROVE  born'[resource'[q]] = <<q, generation'[q]>>
    <3>1. CASE q = p
      <4>1. resource'[q] = r /\ generation'[q] = generation[p] + 1 /\ r \in Resources
        BY <1>1, <1>2, <1>4, <2>1, <3>1 DEF BindingTypes
      <4>2. born'[r] = <<p, generation[p] + 1>>
        <5> HIDE DEF p, r
        <5> QED
          BY <1>1, <1>2, <2>1, <4>1 DEF BindingTypes
      <4> QED
        BY <3>1, <4>1, <4>2
    <3>2. CASE q # p
      <4>1. resource'[q] = resource[q] /\ generation'[q] = generation[q] /\ resource[q] \in Resources
        BY <1>1, <1>2, <2>1, <3>2 DEF BindingTypes
      <4>2. resource[q] # r
        BY <1>11, <2>1, <4>1
      <4>3. born'[resource[q]] = born[resource[q]]
        BY <1>12, <4>1, <4>2
      <4> QED
        BY <1>2, <2>1, <4>1, <4>3 DEF Owned
    <3> QED
      BY <3>1, <3>2
  <2>2. ASSUME NEW s \in Sources, Captured(s)
        PROVE  born'[s.lifetime] = <<s.panel, s.generation>>
    <3>1. s.lifetime \in Resources
      BY DEF Sources
    <3>2. s.lifetime # r
      BY <1>11, <2>2, <3>1, BindingAssumption
    <3> QED
      BY <1>2, <1>12, <2>2, <3>1, <3>2 DEF Owned
  <2> HIDE DEF p, r
  <2> QED
    BY <1>10, <2>1, <2>2 DEF Owned
<1>14. Fresh'
  <2> SUFFICES ASSUME NEW u \in Threads, NEW i \in DOMAIN calls'[u],
                      calls'[u][i].step = "commit", calls'[u][i].holds # None
               PROVE  /\ \A q \in Panels : resource'[q] # calls'[u][i].holds
                      /\ \A v \in Threads : \A j \in DOMAIN calls'[v] :
                            calls'[v][j].holds = calls'[u][i].holds => v = u /\ j = i
                      /\ \A s \in Sources : Captured(s) => s.lifetime # calls'[u][i].holds
    BY <1>10 DEF Fresh, Uncommitted
  <2>1. ~(u = t /\ i = 1) /\ i \in DOMAIN calls[u] /\ calls'[u][i] = calls[u][i]
    BY <1>8
  <2>2. /\ \A q \in Panels : resource[q] # calls[u][i].holds
        /\ \A v \in Threads : \A j \in DOMAIN calls[v] : calls[v][j].holds = calls[u][i].holds => v = u /\ j = i
        /\ \A s \in Sources : Captured(s) => s.lifetime # calls[u][i].holds
    BY <1>2, <2>1 DEF Fresh, Uncommitted
  <2>3. calls[u][i].holds # r
    BY <1>3, <1>4, <2>1, <2>2
  <2>4. \A q \in Panels : resource'[q] # calls[u][i].holds
    BY <1>1, <1>2, <2>2, <2>3 DEF BindingTypes
  <2>5. ASSUME NEW v \in Threads, NEW j \in DOMAIN calls'[v], calls'[v][j].holds = calls'[u][i].holds
        PROVE  v = u /\ j = i
    <3>1. ~(v = t /\ j = 1)
      BY <1>4, <1>8, <2>1, <2>2, <2>5
    <3> QED
      BY <1>8, <2>1, <2>2, <2>5, <3>1
  <2> QED
    BY <2>1, <2>2, <2>4, <2>5
<1> QED
  BY <1>9, <1>10, <1>13, <1>14 DEF BackendInv

LEMMA ReleaseKeeps ==
  ASSUME BackendInv, NEW t \in Threads, Release(t), UNCHANGED <<sceneVars, backendVars, displayed>>
  PROVE  BackendInv'
<1> DEFINE Was(u, i) == IF u = t THEN i + 1 ELSE i
<1>1. /\ calls[t] # <<>> /\ calls' = [calls EXCEPT ![t] = Tail(@)]
      /\ generation' = generation /\ resource' = resource /\ born' = born
  BY DEF Release
<1>2. BindingTypes /\ Owned /\ Fresh
  BY DEF BackendInv
<1>3. calls \in [Threads -> Seq(CallsOf)]
  BY <1>2 DEF BindingTypes
<1>4. calls' \in [Threads -> Seq(CallsOf)]
  <2>1. Tail(calls[t]) \in Seq(CallsOf)
    BY <1>1, <1>3
  <2> QED
    BY <1>1, <1>3, <2>1
<1>5. ASSUME NEW u \in Threads, NEW i \in DOMAIN calls'[u]
      PROVE  Was(u, i) \in DOMAIN calls[u] /\ calls'[u][i] = calls[u][Was(u, i)] /\ i \in Nat
  <2>1. calls[t] \in Seq(CallsOf) /\ calls'[t] = Tail(calls[t]) /\ (u # t => calls'[u] = calls[u])
    BY <1>1, <1>3
  <2>2. i \in 1 .. Len(calls'[u])
    BY <1>4
  <2>3. CASE u = t
    <3>1. ASSUME NEW s \in Seq(CallsOf), s # <<>>, NEW j \in 1 .. Len(Tail(s))
          PROVE  j + 1 \in DOMAIN s /\ Tail(s)[j] = s[j + 1] /\ j \in Nat
      BY <3>1
    <3> QED
      BY <1>1, <2>1, <2>2, <2>3, <3>1
  <2>4. CASE u # t
    BY <1>3, <2>1, <2>2, <2>4
  <2> QED
    BY <2>3, <2>4
<1>6. BindingTypes'
  BY <1>1, <1>2, <1>4 DEF BindingTypes
<1>7. /\ SceneTypes' /\ Uploads' /\ Imports' /\ ShownImported' /\ Faithful'
      /\ \A s : Captured(s)' <=> Captured(s)
  BY BackendKept
<1>8. Owned'
  BY <1>1, <1>2, <1>7 DEF Owned
<1>9. Fresh'
  <2> SUFFICES ASSUME NEW u \in Threads, NEW i \in DOMAIN calls'[u],
                      calls'[u][i].step = "commit", calls'[u][i].holds # None
               PROVE  /\ \A q \in Panels : resource[q] # calls'[u][i].holds
                      /\ \A v \in Threads : \A j \in DOMAIN calls'[v] :
                            calls'[v][j].holds = calls'[u][i].holds => v = u /\ j = i
                      /\ \A s \in Sources : Captured(s) => s.lifetime # calls'[u][i].holds
    BY <1>1, <1>7 DEF Fresh, Uncommitted
  <2>1. Was(u, i) \in DOMAIN calls[u] /\ calls'[u][i] = calls[u][Was(u, i)]
    BY <1>5
  <2>2. Uncommitted(u, Was(u, i))
    BY <2>1 DEF Uncommitted
  <2>3. /\ \A q \in Panels : resource[q] # calls'[u][i].holds
        /\ \A v \in Threads : \A j \in DOMAIN calls[v] :
              calls[v][j].holds = calls'[u][i].holds => v = u /\ j = Was(u, i)
        /\ \A s \in Sources : Captured(s) => s.lifetime # calls'[u][i].holds
    BY <1>2, <2>1, <2>2 DEF Fresh
  <2>4. ASSUME NEW v \in Threads, NEW j \in DOMAIN calls'[v], calls'[v][j].holds = calls'[u][i].holds
        PROVE  v = u /\ j = i
    <3>1. Was(v, j) \in DOMAIN calls[v] /\ calls'[v][j] = calls[v][Was(v, j)]
      BY <1>5
    <3>2. v = u /\ Was(v, j) = Was(u, i)
      BY <2>3, <2>4, <3>1
    <3>3. i \in Nat /\ j \in Nat
      BY <1>5
    <3> QED
      BY <3>2, <3>3
  <2> QED
    BY <2>3, <2>4
<1> QED
  BY <1>6, <1>7, <1>8, <1>9 DEF BackendInv

(* What the panels show at the moment.                                     *)
Now == {s \in Sources : \E p \in Panels : /\ resource[p] # None /\ s.panel = p
                                          /\ s.generation = generation[p] /\ s.lifetime = resource[p]}

LEMMA Compiled ==
  ASSUME BindingTypes, NEW shape \in Seq(Panels \cup {"draw"})
  PROVE  Compile(shape) \in Seq({Draw} \cup Now)
<1> DEFINE Part(i) == IF shape[i] = "draw" THEN <<Draw>> ELSE Capture(shape[i])
<1>1. ASSUME NEW i \in DOMAIN shape
      PROVE  Part(i) \in Seq({Draw} \cup Now)
  <2>1. CASE shape[i] = "draw"
    BY <2>1
  <2>2. CASE shape[i] # "draw"
    <3>1. shape[i] \in Panels
      BY <2>2
    <3>2. CASE resource[shape[i]] = None
      BY <2>2, <3>2 DEF Capture
    <3>3. CASE resource[shape[i]] # None
      <4> DEFINE x == [panel |-> shape[i], generation |-> generation[shape[i]], lifetime |-> resource[shape[i]]]
      <4>1. x \in Now
        BY <3>1, <3>3 DEF Now, Sources, BindingTypes
      <4>2. Part(i) = <<x>>
        BY <2>2, <3>3 DEF Capture
      <4> HIDE DEF x, Part
      <4> QED
        BY <4>1, <4>2
    <3> QED
      BY <3>2, <3>3
  <2> QED
    BY <2>1, <2>2
<1>2. [i \in DOMAIN shape |-> Part(i)] \in Seq(Seq({Draw} \cup Now))
  <2> DEFINE V == Seq({Draw} \cup Now)
  <2>1. \A i \in DOMAIN shape : Part(i) \in V
    BY <1>1
  <2> HIDE DEF V, Part
  <2>2. [i \in DOMAIN shape |-> Part(i)] \in Seq(V)
    BY <2>1
  <2> QED
    BY <2>2 DEF V
<1> QED
  BY <1>2, Flattened DEF Compile

LEMMA RetainKeeps ==
  ASSUME BackendInv, NEW n \in Nodes, Retain(n)
  PROVE  BackendInv'
<1>0. PICK a \in Addresses : \E form \in Forms[n] :
        /\ ~ListAlive(a)
        /\ changes' = changes + 1
        /\ lists' = [lists EXCEPT ![a] = [made |-> changes + 1, commands |-> Compile(form.shape)]]
        /\ scene' = [scene EXCEPT ![n] = [version |-> changes + 1, visible |-> form.visible,
                                          children |-> form.children, list |-> a]]
        /\ Acyclic(scene')
        /\ UNCHANGED <<bindingVars, backendVars, displayed>>
  BY DEF Retain
<1>1. PICK form \in Forms[n] :
        /\ ~ListAlive(a)
        /\ changes' = changes + 1
        /\ lists' = [lists EXCEPT ![a] = [made |-> changes + 1, commands |-> Compile(form.shape)]]
        /\ scene' = [scene EXCEPT ![n] = [version |-> changes + 1, visible |-> form.visible,
                                          children |-> form.children, list |-> a]]
        /\ Acyclic(scene')
        /\ UNCHANGED <<bindingVars, backendVars, displayed>>
  BY <1>0
<1>2. SceneTypes /\ BindingTypes /\ Owned /\ Fresh /\ Uploads /\ Imports /\ ShownImported /\ Faithful
  BY DEF BackendInv
<1>3. form.shape \in Seq(Panels \cup {"draw"}) /\ form.visible \in BOOLEAN /\ form.children \in Seq(Nodes)
  BY SceneAssumption
<1>4. /\ scene \in [Nodes -> SceneNodes] /\ changes \in Nat
      /\ lists \in [Addresses -> [made : Nat, commands : Seq({Draw} \cup Sources)]]
  BY <1>2 DEF SceneTypes
<1>5. Compile(form.shape) \in Seq({Draw} \cup Now)
  BY <1>2, <1>3, Compiled
<1>6. /\ \A m \in Nodes \ {n} : scene'[m] = scene[m] /\ scene[m].list # a
      /\ scene'[n].version = changes + 1 /\ scene'[n].list = a /\ scene'[n] \in SceneNodes
      /\ \A x \in Addresses \ {a} : lists'[x] = lists[x]
      /\ lists'[a].made = changes + 1 /\ lists'[a].commands = Compile(form.shape)
  <2>1. \A m \in Nodes : scene[m].list # a
    BY <1>1 DEF ListAlive
  <2>2. [version |-> changes + 1, visible |-> form.visible, children |-> form.children, list |-> a] \in SceneNodes
    BY <1>3, <1>4 DEF SceneNodes
  <2> QED
    BY <1>1, <1>4, <2>1, <2>2
<1>7. /\ generation' = generation /\ resource' = resource /\ calls' = calls /\ born' = born
      /\ nodes' = nodes /\ surfaces' = surfaces /\ externals' = externals /\ ready' = ready
      /\ displayed' = displayed
  BY <1>1 DEF bindingVars, backendVars
<1>8. SceneTypes'
  <2>1. scene' \in [Nodes -> SceneNodes]
    BY <1>1, <1>4, <1>6
  <2>2. lists' \in [Addresses -> [made : Nat, commands : Seq({Draw} \cup Sources)]]
    <3>1. Now \subseteq Sources
      BY DEF Now
    <3>2. Compile(form.shape) \in Seq({Draw} \cup Sources)
      BY <1>5, <3>1
    <3>3. [made |-> changes + 1, commands |-> Compile(form.shape)] \in [made : Nat, commands : Seq({Draw} \cup Sources)]
      BY <1>4, <3>2
    <3> QED
      BY <1>1, <1>4, <3>3
  <2>3. changes' \in Nat /\ ready' \in BOOLEAN
    BY <1>1, <1>2, <1>4, <1>7 DEF SceneTypes
  <2>4. \A m \in Nodes : scene'[m].version <= changes'
    <3>1. \A m \in Nodes : scene[m].version \in Nat /\ scene[m].version <= changes
      BY <1>2, <1>4 DEF SceneTypes, SceneNodes
    <3> QED
      BY <1>1, <1>4, <1>6, <3>1
  <2> QED
    <3>1. SceneTypes' <=>
            /\ scene' \in [Nodes -> SceneNodes] /\ Acyclic(scene')
            /\ lists' \in [Addresses -> [made : Nat, commands : Seq({Draw} \cup Sources)]]
            /\ changes' \in Nat /\ ready' \in BOOLEAN
            /\ \A m \in Nodes : scene'[m].version <= changes'
            /\ \A m \in DOMAIN nodes' : nodes'[m].version \in 0 .. changes'
      BY DEF SceneTypes, Acyclic
    <3>2. \A m \in DOMAIN nodes' : nodes'[m].version \in 0 .. changes'
      <4>1. \A m \in DOMAIN nodes : nodes[m].version \in 0 .. changes
        BY <1>2 DEF SceneTypes
      <4> QED
        BY <1>1, <1>4, <1>7, <4>1
    <3> QED
      BY <1>1, <2>1, <2>2, <2>3, <2>4, <3>1, <3>2
<1>9. BindingTypes'
  BY <1>2, <1>7 DEF BindingTypes
<1>10. ASSUME NEW s \in Sources, Captured(s)'
       PROVE  Captured(s) \/ s \in Now
  <2>1. CASE Imported(s)'
    BY <1>7, <2>1 DEF Imported, Captured
  <2>2. CASE InLists(s)'
    <3>1. PICK x \in Addresses : ListAlive(x)' /\ s \in SourcesOf(lists'[x].commands)
      BY <2>2 DEF InLists
    <3>2. CASE x = a
      <4>1. s \in SourcesOf(Compile(form.shape))
        BY <1>6, <3>1, <3>2
      <4> QED
        BY <1>5, <4>1 DEF SourcesOf, ToSet
    <3>3. CASE x # a
      <4>1. ListAlive(x)
        BY <1>6, <1>7, <3>1, <3>3 DEF ListAlive
      <4> QED
        BY <1>6, <3>1, <3>3, <4>1 DEF InLists, Captured
    <3> QED
      BY <3>2, <3>3
  <2> QED
    BY <1>10, <2>1, <2>2 DEF Captured
<1>11. Owned'
  <2>1. ASSUME NEW s \in Sources, Captured(s)'
        PROVE  born[s.lifetime] = <<s.panel, s.generation>>
    BY <1>2, <1>10, <2>1 DEF Owned, Now
  <2> QED
    BY <1>2, <1>7, <2>1 DEF Owned
<1>12. Fresh'
  <2> SUFFICES ASSUME NEW t \in Threads, NEW i \in DOMAIN calls[t], Uncommitted(t, i)
               PROVE  /\ \A p \in Panels : resource[p] # calls[t][i].holds
                      /\ \A u \in Threads : \A j \in DOMAIN calls[u] :
                            calls[u][j].holds = calls[t][i].holds => u = t /\ j = i
                      /\ \A s \in Sources : Captured(s)' => s.lifetime # calls[t][i].holds
    BY <1>7 DEF Fresh, Uncommitted
  <2>1. /\ \A p \in Panels : resource[p] # calls[t][i].holds
        /\ \A u \in Threads : \A j \in DOMAIN calls[u] :
              calls[u][j].holds = calls[t][i].holds => u = t /\ j = i
        /\ \A s \in Sources : Captured(s) => s.lifetime # calls[t][i].holds
    BY <1>2 DEF Fresh
  <2> QED
    BY <1>10, <2>1 DEF Now
<1>13. Uploads'
  <2>1. ASSUME NEW k \in DOMAIN surfaces
        PROVE  k.list # a
    <3>1. surfaces[k].lifetime = k.list
      BY <1>2 DEF Uploads, UploadsOf
    <3>2. surfaces[k].lifetime # a
      BY <1>1 DEF ListAlive
    <3> QED
      BY <3>1, <3>2
  <2> QED
    BY <1>2, <1>6, <1>7, <2>1 DEF Uploads, UploadsOf
<1>14. Imports' /\ ShownImported'
  BY <1>2, <1>7 DEF Imports, ImportsOf, ShownImported, Imported
<1>15. Faithful'
  <2> SUFFICES ASSUME Current'
               PROVE  displayed' = Wanted'
    BY DEF Faithful
  <2>1. n \notin InScene'
    <3> SUFFICES ASSUME n \in InScene'
                 PROVE  FALSE
      OBVIOUS
    <3>1. n \in DOMAIN nodes /\ nodes[n].version = changes + 1
      BY <1>6, <1>7 DEF Current
    <3>2. nodes[n].version <= changes
      BY <1>2, <3>1 DEF SceneTypes
    <3> QED
      BY <1>4, <3>1, <3>2
  <2>2. \A m \in Nodes \ {n} :
          /\ scene'[m] = scene[m] /\ Commands(m)' = Commands(m)
          /\ Commands(m) # <<>> => lists'[scene[m].list].made = lists[scene[m].list].made
    <3> SUFFICES ASSUME NEW m \in Nodes \ {n}
                 PROVE  /\ scene'[m] = scene[m] /\ Commands(m)' = Commands(m)
                        /\ Commands(m) # <<>> => lists'[scene[m].list].made = lists[scene[m].list].made
      OBVIOUS
    <3>1. scene'[m] = scene[m] /\ scene[m].list # a /\ scene[m].list \in Addresses \cup {None}
      BY <1>4, <1>6 DEF SceneNodes
    <3> QED
      BY <1>6, <3>1 DEF Commands
  <2>3. {n} \cap InScene' = {}
    BY <2>1
  <2>4. InScene' = InScene /\ Wanted' = Wanted
    BY <1>2, <1>8, <2>2, <2>3, SameScene
  <2>5. \A m \in InScene : m \in Nodes \ {n}
    <3>1. PICK f \in [Nodes -> SUBSET Nodes] : InScene = f[Root]
      BY <1>2, InSceneIs
    <3> QED
      BY <2>1, <2>4, <3>1, SceneAssumption
  <2>6. Current
    BY <1>6, <1>7, <2>4, <2>5 DEF Current
  <2> QED
    BY <1>2, <1>7, <2>4, <2>6 DEF Faithful
<1> QED
  BY <1>8, <1>9, <1>11, <1>12, <1>13, <1>14, <1>15 DEF BackendInv

LEMMA PublishKeeps ==
  ASSUME BackendInv, Publish, UNCHANGED <<bindingVars, sceneVars>>
  PROVE  BackendInv'
<1>1. /\ nodes' = StagedNodes /\ surfaces' = StagedSurfaces /\ externals' = StagedExternals
      /\ ready' = TRUE /\ displayed' = StagedTree
  BY DEF Publish, AdoptCaches
<1>2. SceneTypes /\ BindingTypes /\ Owned /\ Fresh /\ Uploads /\ Imports
  BY DEF BackendInv
<1>3. /\ generation' = generation /\ resource' = resource /\ calls' = calls /\ born' = born
      /\ scene' = scene /\ lists' = lists /\ changes' = changes
  BY DEF bindingVars, sceneVars
<1>4. /\ DOMAIN nodes' = Reached
      /\ \A n \in Reached : n \in Nodes /\ nodes'[n].version = scene[n].version /\ nodes'[n].list = scene[n].list
  BY <1>1, <1>2, ReachedNodes DEF StagedNodes
<1>5. SceneTypes'
  <2>1. \A n \in DOMAIN nodes' : nodes'[n].version \in 0 .. changes
    <3>1. \A n \in Nodes : scene[n].version \in Nat /\ scene[n].version <= changes /\ changes \in Nat
      BY <1>2 DEF SceneTypes, SceneNodes
    <3> QED
      BY <1>4, <3>1
  <2> QED
    BY <1>1, <1>2, <1>3, <2>1 DEF SceneTypes, Acyclic
<1>6. BindingTypes'
  BY <1>2, <1>3 DEF BindingTypes
<1>7. \A n \in Painting : n \in Nodes
  BY <1>2, ReachedNodes
<1>8. ASSUME NEW x \in Addresses, ListAlive(x)'
      PROVE  ListAlive(x)
  <2>1. CASE \E n \in Nodes : scene'[n].list = x
    BY <1>3, <2>1 DEF ListAlive
  <2>2. CASE \E n \in DOMAIN nodes' : nodes'[n].list = x
    BY <1>4, <2>2 DEF ListAlive
  <2>3. CASE \E k \in DOMAIN surfaces' : surfaces'[k].lifetime = x
    <3>1. PICK k \in DOMAIN StagedSurfaces : StagedSurfaces[k].lifetime = x
      BY <1>1, <2>3
    <3>2. \/ k \in DOMAIN surfaces /\ StagedSurfaces[k] = surfaces[k]
          \/ \E n \in Painting : StagedSurfaces[k].lifetime = scene[n].list
      BY <1>2, SurfacesStaged
    <3> QED
      BY <1>7, <3>1, <3>2 DEF ListAlive
  <2> QED
    BY <1>8, <2>1, <2>2, <2>3 DEF ListAlive
<1>9. ASSUME NEW s \in Sources, Captured(s)'
      PROVE  Captured(s)
  <2>1. CASE InLists(s)'
    BY <1>3, <1>8, <2>1 DEF InLists, Captured
  <2>2. CASE Imported(s)'
    <3>1. PICK k \in DOMAIN StagedExternals : StagedExternals[k].content = s
      BY <1>1, <2>2 DEF Imported
    <3>2. CASE k \in DOMAIN externals /\ StagedExternals[k] = externals[k]
      BY <3>1, <3>2 DEF Imported, Captured
    <3>3. CASE \E n \in Painting : \E i \in DOMAIN Commands(n) :
                 Commands(n)[i] # Draw /\ StagedExternals[k].content = Commands(n)[i]
      <4>1. PICK n \in Painting : \E i \in DOMAIN Commands(n) : Commands(n)[i] # Draw /\ s = Commands(n)[i]
        BY <3>1, <3>3
      <4>2. PICK i \in DOMAIN Commands(n) : Commands(n)[i] # Draw /\ s = Commands(n)[i]
        BY <4>1
      <4>3. n \in Nodes /\ Commands(n) \in Seq({Draw} \cup Sources)
        BY <1>2, <1>7, CommandsType
      <4>4. Commands(n) # <<>>
        BY <4>2, <4>3
      <4>5. scene[n].list \in Addresses /\ Commands(n) = lists[scene[n].list].commands
        BY <1>2, <4>3, <4>4, CommandsType
      <4>6. s \in SourcesOf(lists[scene[n].list].commands)
        BY <4>2, <4>3, <4>5 DEF SourcesOf, ToSet
      <4> QED
        BY <4>3, <4>5, <4>6 DEF ListAlive, InLists, Captured
    <3> QED
      BY <1>2, <3>1, <3>2, <3>3, ExternalsStaged
  <2> QED
    BY <1>9, <2>1, <2>2 DEF Captured
<1>10. Owned' /\ Fresh'
  <2>1. Owned'
    BY <1>2, <1>3, <1>9 DEF Owned
  <2>2. Fresh'
    BY <1>2, <1>3, <1>9 DEF Fresh, Uncommitted
  <2> QED
    BY <2>1, <2>2
<1>11. Uploads' /\ Imports'
  <2>1. UploadsOf(StagedSurfaces) /\ ImportsOf(StagedExternals)
    BY <1>2, SurfacesStaged, ExternalsStaged
  <2> QED
    BY <1>1, <1>3, <2>1 DEF Uploads, UploadsOf, Imports, ImportsOf
<1>12. ShownImported'
  BY <1>1, <1>2, StagedShown DEF ShownImported, Imported
<1>13. Faithful'
  <2>1. \A n \in Nodes : Commands(n)' = Commands(n)
    BY <1>3 DEF Commands
  <2>2. {} \cap InScene' = {}
    OBVIOUS
  <2>3. Wanted' = Wanted
    BY <1>2, <1>3, <1>5, <2>1, <2>2, SameScene
  <2> QED
    BY <1>1, <1>2, <2>3, StagedIs DEF Faithful
<1> QED
  BY <1>5, <1>6, <1>10, <1>11, <1>12, <1>13 DEF BackendInv

LEMMA DetachKeeps ==
  ASSUME BackendInv, Detach
  PROVE  BackendInv'
<1>1. /\ nodes' = <<>> /\ surfaces' = <<>> /\ externals' = <<>> /\ ready' = FALSE /\ displayed' = <<>>
      /\ generation' = generation /\ resource' = resource /\ calls' = calls /\ born' = born
      /\ scene' = scene /\ lists' = lists /\ changes' = changes
  BY DEF Detach, Empty, bindingVars, sceneVars
<1>2. SceneTypes /\ BindingTypes /\ Owned /\ Fresh
  BY DEF BackendInv
<1>3. DOMAIN nodes' = {} /\ DOMAIN surfaces' = {} /\ DOMAIN externals' = {} /\ DOMAIN displayed' = {}
  BY <1>1
<1>4. SceneTypes' /\ BindingTypes'
  BY <1>1, <1>2, <1>3 DEF SceneTypes, Acyclic, BindingTypes
<1>5. ASSUME NEW s \in Sources, Captured(s)'
      PROVE  Captured(s)
  BY <1>1, <1>3, <1>5 DEF Captured, InLists, Imported, ListAlive
<1>6. Owned'
  BY <1>1, <1>2, <1>5 DEF Owned
<1>7. Fresh'
  BY <1>1, <1>2, <1>5 DEF Fresh, Uncommitted
<1>8. Uploads' /\ Imports' /\ ShownImported' /\ Faithful'
  BY <1>1, <1>3 DEF Uploads, UploadsOf, Imports, ImportsOf, ShownImported, Faithful, Current
<1> QED
  BY <1>4, <1>6, <1>7, <1>8 DEF BackendInv

LEMMA BackendStep == BackendInv /\ [Next]_vars => BackendInv'
<1> SUFFICES ASSUME BackendInv, [Next]_vars
             PROVE  BackendInv'
  OBVIOUS
<1>1. ASSUME UNCHANGED <<bindingVars, sceneVars, backendVars, displayed>>
      PROVE  BackendInv'
  <2>1. generation' = generation /\ resource' = resource /\ calls' = calls /\ born' = born
    BY <1>1 DEF bindingVars
  <2>2. /\ SceneTypes' /\ Uploads' /\ Imports' /\ ShownImported' /\ Faithful'
        /\ \A s : Captured(s)' <=> Captured(s)
    BY <1>1, BackendKept
  <2>3. BindingTypes' /\ Owned'
    BY <2>1, <2>2 DEF BackendInv, BindingTypes, Owned
  <2>4. Fresh'
    BY <2>1, <2>2 DEF BackendInv, Fresh, Uncommitted
  <2> QED
    BY <2>2, <2>3, <2>4 DEF BackendInv
<1>2. CASE Bind
  <2>1. PICK t \in Threads : \/ \E p \in Panels, r \in {x \in Resources : ~Alive(x)} \cup {None} : BeginSet(t, p, r)
                            \/ Commit(t) \/ Release(t)
    BY <1>2 DEF Bind
  <2>2. UNCHANGED <<sceneVars, backendVars, displayed>>
    BY <1>2 DEF Bind
  <2> QED
    BY <2>1, <2>2, BeginKeeps, CommitKeeps, ReleaseKeeps
<1>3. CASE \E n \in Nodes : Retain(n)
  BY <1>3, RetainKeeps
<1>4. CASE Update
  <2>1. CASE Publish
    BY <1>4, <2>1, PublishKeeps DEF Update
  <2>2. CASE Reuse \/ UpdateFails
    BY <1>1, <1>4, <2>2 DEF Update, Reuse, UpdateFails, AfterFailure
  <2> QED
    BY <1>4, <2>1, <2>2 DEF Update
<1>5. CASE Detach
  BY <1>5, DetachKeeps
<1>6. CASE UNCHANGED vars
  BY <1>1, <1>6 DEF vars
<1> QED
  BY <1>2, <1>3, <1>4, <1>5, <1>6 DEF Next

(* BackendInv holds in every state.                                        *)
LEMMA BackendInvariant == Spec => []BackendInv
BY BackendInit, BackendStep, PTL DEF Spec

LEMMA BackendRetains == BackendInv => RetainedAlive
<1> SUFFICES ASSUME BackendInv
             PROVE  RetainedAlive
  OBVIOUS
<1>1. Owned /\ Uploads /\ Imports /\ ShownImported
  BY DEF BackendInv
<1>2. ASSUME NEW k \in DOMAIN externals
      PROVE  Backed(externals[k].content)
  <2>1. externals[k].content \in Sources /\ externals[k].lifetime = externals[k].content.lifetime
    BY <1>1 DEF Imports, ImportsOf
  <2>2. Captured(externals[k].content)
    BY DEF Captured, Imported
  <2> QED
    BY <1>1, <2>1, <2>2 DEF Backed, Alive, Owned
<1>3. ASSUME NEW k \in DOMAIN surfaces
      PROVE  surfaces[k].content.made = lists[k.list].made
  <2>1. surfaces[k].content = [made |-> lists[k.list].made, begin |-> k.begin, end |-> k.end]
    BY <1>1 DEF Uploads, UploadsOf
  <2> QED
    BY <2>1
<1>4. \A i \in DOMAIN displayed : "lifetime" \in DOMAIN displayed[i] => Backed(displayed[i])
  BY <1>1, <1>2 DEF ShownImported, Imported
<1> QED
  BY <1>2, <1>3, <1>4 DEF RetainedAlive

(* What is shown or cached is backed by what it was made from.             *)
THEOREM RetainedCorrect == Spec => []RetainedAlive
BY BackendInvariant, BackendRetains, PTL

(* An Update that says it has committed shows the scene it was given.      *)
THEOREM FramesCorrect == Spec => FrameProtocol
<1>1. BackendInv /\ [Next]_vars =>
         [IF Reuse \/ Publish THEN displayed' = Wanted ELSE displayed' \in {displayed, Empty}]_vars
  <2> SUFFICES ASSUME BackendInv, [Next]_vars, vars' # vars
               PROVE  IF Reuse \/ Publish THEN displayed' = Wanted ELSE displayed' \in {displayed, Empty}
    OBVIOUS
  <2>1. CASE Publish
    BY <2>1, StagedIs DEF Publish, BackendInv
  <2>2. CASE Reuse
    <3>1. Current
      BY <2>2 DEF Reuse, CanReuseWholeTree, Unchanged, Current
    <3> QED
      BY <2>2, <3>1 DEF Reuse, BackendInv, Faithful
  <2>3. CASE ~Reuse /\ ~Publish
    <3>1. CASE Bind
      BY <2>3, <3>1 DEF Bind
    <3>2. CASE \E n \in Nodes : Retain(n)
      BY <2>3, <3>2 DEF Retain
    <3>3. CASE Update
      BY <2>3, <3>3 DEF Update, UpdateFails
    <3>4. CASE Detach
      BY <2>3, <3>4 DEF Detach
    <3> QED
      BY <3>1, <3>2, <3>3, <3>4 DEF Next
  <2> QED
    BY <2>1, <2>2, <2>3
<1> QED
  BY <1>1, BackendInvariant, PTL DEF Spec, FrameProtocol
=============================================================================
