----------------------------- MODULE RangeBase ------------------------------
(***************************************************************************)
(* The range of ScrollBarObject (phase3/xamlcore/src/elements.h): a value  *)
(* kept between a minimum and a maximum, which remembers what the caller   *)
(* asked for (uncoerced_value_) and returns to it when the range expands.  *)
(*                                                                         *)
(* A new bound that contracts the range is committed only after the        *)
(* handlers of ValueChanged have run, and not at all if one of them fails. *)
(* Those handlers are user code, which may set any of the three again.     *)
(***************************************************************************)
EXTENDS Integers, Sequences, SequencesExt

CONSTANTS Numbers,     \* what a property may be set to, and the defaults
          MaxPuts      \* bound: calls waiting for handlers at once

ASSUME RangeAssumption == Numbers \subseteq Int /\ {0, 1} \subseteq Numbers /\ MaxPuts \in Nat

VARIABLES
    minimum, maximum, rangeValue, uncoerced,
    puts,        \* the calls that wait for handlers, the innermost last, with
                 \* the bound that each has still to commit
    contested,   \* history: something was set while a bound waited to be committed
    failed       \* history: the last bound was not committed, for a handler failed

rangeVars == <<minimum, maximum, rangeValue, uncoerced, puts, contested, failed>>

Put(which, bound) == [commits |-> which, bound |-> bound]
Nothing == Put("nothing", 0)
Contractions == [commits : {"minimum", "maximum"}, bound : Numbers]

RangeInit ==
    /\ minimum = 0 /\ maximum = 1 /\ rangeValue = 0 /\ uncoerced = 0
    /\ puts = <<>> /\ contested = FALSE /\ failed = FALSE

RangeTypeOK ==
    /\ {minimum, maximum, rangeValue, uncoerced} \subseteq Numbers
    /\ puts \in Seq(Contractions \cup {Nothing})
    /\ {contested, failed} \subseteq BOOLEAN

Larger(x, y) == IF x >= y THEN x ELSE y
Smaller(x, y) == IF x <= y THEN x ELSE y

-----------------------------------------------------------------------------
Pending == \E i \in DOMAIN puts : puts[i].commits # "nothing"
Begins ==
    /\ Len(puts) < MaxPuts
    /\ contested' = (contested \/ Pending)
    /\ failed' = FALSE

Coerced_Above(x, low, high) == Smaller(x, high)      \* mutant: the minimum is not applied
Coerced(x, low, high) == Larger(Smaller(x, high), low)

(* CoerceValue(low, high), with the call it is made by.                    *)
CoerceValue(low, high, put) ==
    /\ rangeValue' = Coerced(uncoerced', low, high)
    /\ puts' = IF rangeValue' = rangeValue THEN puts ELSE Append(puts, put)

PutMinimum(v) ==
    /\ Begins /\ UNCHANGED uncoerced
    /\ \/ /\ v <= minimum                    \* expands
          /\ minimum' = v /\ UNCHANGED maximum
          /\ CoerceValue(v, maximum, Nothing)
       \/ /\ v > minimum                     \* contracts
          /\ maximum' = Larger(v, maximum)
          /\ CoerceValue(v, maximum', Put("minimum", v))
          /\ minimum' = IF rangeValue' = rangeValue THEN v ELSE minimum

CoercedMaximum_Asked(v) == v                 \* mutant: the minimum is forgotten
CoercedMaximum(v) == Larger(v, minimum)

PutMaximum(v) ==
    /\ Begins /\ UNCHANGED <<uncoerced, minimum>>
    /\ \/ /\ v >= maximum
          /\ maximum' = v
          /\ CoerceValue(minimum, v, Nothing)
       \/ /\ v < maximum
          /\ CoerceValue(minimum, CoercedMaximum(v), Put("maximum", CoercedMaximum(v)))
          /\ maximum' = IF rangeValue' = rangeValue THEN CoercedMaximum(v) ELSE maximum

PutValue(v) ==
    /\ Begins /\ UNCHANGED <<minimum, maximum>>
    /\ uncoerced' = v
    /\ CoerceValue(minimum, maximum, Nothing)

(* RaiseValueChanged returns to its caller.                                *)
HandlersReturn ==
    /\ puts # <<>>
    /\ minimum' = IF Last(puts).commits = "minimum" THEN Last(puts).bound ELSE minimum
    /\ maximum' = IF Last(puts).commits = "maximum" THEN Last(puts).bound ELSE maximum
    /\ puts' = Front(puts)
    /\ UNCHANGED <<rangeValue, uncoerced, contested, failed>>

HandlerFails ==
    /\ puts # <<>>
    /\ failed' = (failed \/ Last(puts).commits # "nothing")
    /\ puts' = Front(puts)
    /\ UNCHANGED <<minimum, maximum, rangeValue, uncoerced, contested>>

RangeNext ==
    \/ \E v \in Numbers : PutMinimum(v) \/ PutMaximum(v) \/ PutValue(v)
    \/ HandlersReturn \/ HandlerFails
RangeSpec == RangeInit /\ [][RangeNext]_rangeVars

-----------------------------------------------------------------------------
(* The comments in put_Minimum and put_Maximum: the value is published     *)
(* before the bound that requires it, and returns towards what was asked   *)
(* for when the range expands.  So handlers never see a value outside the  *)
(* range, and when the last of them has returned the value is the nearest  *)
(* to what was asked for.  It is so unless a handler sets a property while *)
(* a contracting bound waits to be committed.                              *)
RangeKept ==
    ~contested =>
        /\ RangeTypeOK
        /\ minimum <= rangeValue /\ rangeValue <= maximum
        /\ puts = <<>> /\ ~failed => rangeValue = Coerced(uncoerced, minimum, maximum)
=============================================================================
