---------------------------- MODULE GatedWorkflow ----------------------------
(***************************************************************************)
(* What the automation engine promises of a rule while nobody edits it:    *)
(* an action takes effect only at a step some path from the first step     *)
(* leads to, and no path leads past a gate before that gate, itself        *)
(* reached by such a path, has been decided.  There are no threads, no     *)
(* queue, no crashes and no rows here.                                     *)
(***************************************************************************)
EXTENDS StepGraph

CONSTANTS Published, RunIds

VARIABLES
  effects,    \* run -> ids of the actions that took effect
  granted,    \* run -> <<gate, decision>> pairs on record
  edited      \* the rule is no longer the published one

Init ==
  /\ effects = [r \in RunIds |-> {}]
  /\ granted = [r \in RunIds |-> {}]
  /\ edited = FALSE

(* The action at step i takes effect, for the first time or again.         *)
Perform(r, i) ==
  /\ Published[i].type = "ACTION" /\ Reachable(Published, granted[r], i)
  /\ effects' = [effects EXCEPT ![r] = @ \cup {Published[i].id}]
  /\ UNCHANGED <<granted, edited>>

(* A gate the run has got to is decided.                                   *)
Decide(r, i, d) ==
  /\ Published[i].type = "APPROVAL_GATE" /\ Reachable(Published, granted[r], i)
  /\ granted' = [granted EXCEPT ![r] = @ \cup {<<i, d>>}]
  /\ UNCHANGED <<effects, edited>>

(* An edit ends the promise: afterwards the effects may be any.            *)
Edit == edited' = TRUE

Next ==
  \/ \E r \in RunIds, i \in DOMAIN Published : Perform(r, i)
  \/ \E r \in RunIds, i \in DOMAIN Published, d \in {"APPROVED", "REJECTED"} :
       Decide(r, i, d)
  \/ Edit

Spec == Init /\ [][Next]_<<effects, granted, edited>>

=============================================================================
