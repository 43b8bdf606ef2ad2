---------------------------- MODULE SurfaceBinding ----------------------------
(* ExternalSurfaceBinding (xamlcore/src/external_surface_binding.cpp): the *)
(* live source of a SwapChainPanel.  Producers on any thread replace it;   *)
(* the scene captures it with its generation.  A resource is an address    *)
(* and a native value, both free for reuse once its last reference is      *)
(* gone; born remembers which replacement it belongs to (history).         *)
EXTENDS Integers, Sequences, FiniteSets

CONSTANTS Panels, Threads, Resources, None, MaxGeneration, MaxCalls

ASSUME BindingAssumption ==
    /\ None \notin Resources
    /\ MaxGeneration \in Nat /\ MaxCalls \in Nat

VARIABLES
    generation,  \* generation_ of each panel's binding
    resource,    \* resource_ of each panel's binding
    calls,       \* the unfinished replacements of each thread, innermost first
    born         \* the replacement each resource was made for
bindingVars == <<generation, resource, calls, born>>

BindingInit ==
    /\ generation = [p \in Panels |-> 0]
    /\ resource = [p \in Panels |-> None]
    /\ calls = [t \in Threads |-> <<>>]
    /\ born = [r \in Resources |-> None]

Calls(t) == {calls[t][i] : i \in DOMAIN calls[t]}

(* The shared_ptrs of the bindings and of Commit's locals.                  *)
HeldByBinding ==
    {resource[p] : p \in Panels} \cup {c.holds : c \in UNION {Calls(t) : t \in Threads}}

(* A call begins outside of every other one of its thread, or inside the   *)
(* release of a former source, which is an arbitrary COM call.             *)
MayCall(t) == calls[t] # <<>> => Head(calls[t]).step = "release"

(* SetCompositionSurfaceHandle and SetDxgiSwapChain duplicate or reference *)
(* the source; Clear holds nothing.  A failure leaves all as it was.       *)
BeginSet(t, p, r) ==
    /\ MayCall(t) /\ Len(calls[t]) < MaxCalls
    /\ calls' = [calls EXCEPT ![t] = <<[panel |-> p, holds |-> r, step |-> "commit"]>> \o @]
    /\ UNCHANGED <<generation, resource, born>>

(* Commit, under the mutex: the new source and its generation, the former  *)
(* one kept for release.                                                   *)
Commit(t) ==
    /\ calls[t] # <<>> /\ Head(calls[t]).step = "commit"
    /\ LET p == Head(calls[t]).panel
           r == Head(calls[t]).holds
       IN  /\ generation[p] < MaxGeneration
           /\ generation' = [generation EXCEPT ![p] = @ + 1]
           /\ resource' = [resource EXCEPT ![p] = r]
           /\ born' = IF r = None THEN born ELSE [born EXCEPT ![r] = <<p, generation[p] + 1>>]
           /\ calls' = [calls EXCEPT ![t] =
                 <<[panel |-> p, holds |-> resource[p], step |-> "release"]>> \o Tail(@)]

(* previous.reset() after the unlock.                                      *)
Release(t) ==
    /\ calls[t] # <<>> /\ Head(calls[t]).step = "release"
    /\ calls' = [calls EXCEPT ![t] = Tail(@)]
    /\ UNCHANGED <<generation, resource, born>>

(* CaptureExternalSurface, under the mutex: a reference that keeps the     *)
(* resource alive; without a resource it is no reference at all.           *)
Capture(p) ==
    IF resource[p] = None THEN <<>>
    ELSE <<[panel |-> p, generation |-> generation[p], lifetime |-> resource[p]]>>
=============================================================================
