----------------------------- MODULE MCSchedule -----------------------------
(* Small instances of ScheduleScan for TLC.                                *)
EXTENDS ScheduleScan, TLC

Rule(steps, repeat, period, on) ==
  [steps |-> steps, repeat |-> repeat, period |-> period, on |-> on]

OnceEveryTwo    == Rule(FALSE, "ONCE_PER_RECORD", 2, TRUE)
ChaserEveryTick == Rule(FALSE, "COOLDOWN", 1, TRUE)
StepsEveryTick  == Rule(TRUE, "ONCE_PER_RECORD", 1, TRUE)

Give(fields, edition) == [fields |-> fields, to |-> edition]
AsChaser   == Give({"repeat", "period"}, ChaserEveryTick)
AsWorkflow == Give({"steps"}, StepsEveryTick)

ChaserOrWorkflow == {AsChaser, AsWorkflow}

(* At most two edits and faults together, and a PATCH, once it has read    *)
(* the rule, is over before time passes.                                   *)
FewAndBrief == edits + faults <= 2 /\ \A e \in Editors : patch[e].age = 0
=============================================================================
