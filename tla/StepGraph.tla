------------------------------ MODULE StepGraph ------------------------------
(***************************************************************************)
(* The steps of an automation rule (AutomationStep of run-engine.ts) and   *)
(* the graph their gotos span.  Indices are 1-based here, 0-based there.   *)
(***************************************************************************)
EXTENDS Naturals, Sequences

CONSTANTS
  StepIds,      \* ids of the steps of all editions of the rule
  Users,        \* people who may send a decision
  None          \* a null column, an absent goto

Kinds == {"ACTION", "CONDITION", "APPROVAL_GATE"}
Goto == StepIds \cup {None}

(* AutomationStep.  "yes" and "no" are onTrue/onFalse of a condition and   *)
(* onApprove/onReject of a gate; "resolves" holds the allow-lists          *)
(* resolveApprovers may compute for a gate, {} standing for "unrestricted".*)
Step == [id : StepIds, type : Kinds, yes : Goto, no : Goto,
         required : Nat, resolves : SUBSET SUBSET Users]

-----------------------------------------------------------------------------
IsStepId(s, id) == \E i \in DOMAIN s : s[i].id = id

(* findIndex: the first step with that id; used only where IsStepId holds. *)
IndexOf(s, id) ==
  CHOOSE i \in DOMAIN s : /\ s[i].id = id
                          /\ \A j \in DOMAIN s : s[j].id = id => i <= j

(* The step graph.  Which steps may follow step i once the verdicts v are  *)
(* on record: a gate lets nothing past without one.                        *)
Jump(s, goto, otherwise) ==
  IF goto = None THEN otherwise
  ELSE IF IsStepId(s, goto) THEN {IndexOf(s, goto)} ELSE {}

Successors(s, v, i) ==
  CASE s[i].type = "ACTION" -> {i + 1}
    [] s[i].type = "CONDITION" ->
         Jump(s, s[i].yes, {Len(s) + 1}) \cup Jump(s, s[i].no, {Len(s) + 1})
    [] s[i].type = "APPROVAL_GATE" ->
         (IF <<i, "APPROVED">> \in v THEN Jump(s, s[i].yes, {i + 1}) ELSE {})
         \cup (IF <<i, "REJECTED">> \in v THEN Jump(s, s[i].no, {}) ELSE {})

ClosedUnder(s, v, S) ==
  1 \in S /\ \A i \in S \cap DOMAIN s : Successors(s, v, i) \subseteq S

(* i lies in every set of steps that holds the first step and is closed.   *)
Reachable(s, v, i) ==
  \A S \in SUBSET (1 .. Len(s) + 1) : ClosedUnder(s, v, S) => i \in S

=============================================================================
