----------------------------- MODULE AsyncWork -----------------------------
(***************************************************************************)
(* What ICoreDispatcher.RunAsync promises its callers, with no queue, no   *)
(* lock and no message: each item is accepted or refused once, its         *)
(* callback begins at most once and never when the request was refused, it *)
(* ends with one status, and its completed handler hears of that once.     *)
(* The callback begins only if it was admitted, which it is neither after  *)
(* a Cancel nor after a Close; one that comes later does not stop it.      *)
(***************************************************************************)
CONSTANTS Actions

VARIABLES reply, status, closed, admitted, begun, told

vars == <<reply, status, closed, admitted, begun, told>>
Final == {"Completed", "Error", "Canceled"}

Init ==
    /\ reply = [a \in Actions |-> "none"]
    /\ status = [a \in Actions |-> "fresh"]
    /\ closed = [a \in Actions |-> FALSE]
    /\ admitted = [a \in Actions |-> FALSE]
    /\ begun = [a \in Actions |-> FALSE]
    /\ told = [a \in Actions |-> FALSE]

Ask(a) ==
    /\ status[a] = "fresh"
    /\ status' = [status EXCEPT ![a] = "Started"]
    /\ UNCHANGED <<reply, closed, admitted, begun, told>>

Accept(a) ==
    /\ status[a] # "fresh"
    /\ reply[a] = "none"
    /\ reply' = [reply EXCEPT ![a] = "ok"]
    /\ UNCHANGED <<status, closed, admitted, begun, told>>

(* A refused item has not begun and, as nobody holds it, has not ended.    *)
Refuse(a) ==
    /\ status[a] \in {"fresh", "Started"}
    /\ reply[a] = "none"
    /\ ~begun[a]
    /\ status' = [status EXCEPT ![a] = "Started"]
    /\ reply' = [reply EXCEPT ![a] = "failed"]
    /\ UNCHANGED <<closed, admitted, begun, told>>

Close(a) ==
    /\ reply[a] = "ok"
    /\ closed' = [closed EXCEPT ![a] = TRUE]
    /\ UNCHANGED <<reply, status, admitted, begun, told>>

(* The decision to call the callback.                                      *)
Admit(a) ==
    /\ status[a] = "Started"
    /\ reply[a] # "failed"
    /\ ~closed[a]
    /\ ~admitted[a]
    /\ admitted' = [admitted EXCEPT ![a] = TRUE]
    /\ UNCHANGED <<reply, status, closed, begun, told>>

Begin(a) ==
    /\ admitted[a]
    /\ ~begun[a]
    /\ begun' = [begun EXCEPT ![a] = TRUE]
    /\ UNCHANGED <<reply, status, closed, admitted, told>>

End(a, final) ==
    /\ status[a] = "Started"
    /\ reply[a] # "failed"
    /\ final = "Canceled" => reply[a] = "ok"
    /\ final # "Canceled" => begun[a] \/ (closed[a] /\ ~admitted[a])
    /\ status' = [status EXCEPT ![a] = final]
    /\ UNCHANGED <<reply, closed, admitted, begun, told>>

Tell(a) ==
    /\ status[a] \in Final
    /\ ~told[a]
    /\ told' = [told EXCEPT ![a] = TRUE]
    /\ UNCHANGED <<reply, status, closed, admitted, begun>>

Next == \E a \in Actions :
           \/ Ask(a) \/ Accept(a) \/ Refuse(a) \/ Close(a) \/ Admit(a) \/ Begin(a) \/ Tell(a)
           \/ \E final \in Final : End(a, final)

Spec == Init /\ [][Next]_vars
=============================================================================
