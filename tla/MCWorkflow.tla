----------------------------- MODULE MCWorkflow -----------------------------
(* Small instances of WorkflowEngine for TLC.                              *)
EXTENDS WorkflowProperties, TLC

CONSTANTS author, ann, bob, cy,      \* users
          act1, act2, act3, gate1, gate2, cond,          \* step ids
          r1, r2, r3, a1, a2, a3, a4, c1,
          none, ev, sc, rs, p1, q1, q2

Act(id) == [id |-> id, type |-> "ACTION", yes |-> none, no |-> none,
            required |-> 0, resolves |-> {}]
Cond(id, yes, no) == [id |-> id, type |-> "CONDITION", yes |-> yes, no |-> no,
                      required |-> 0, resolves |-> {}]
Gate(id, required, resolves, yes, no) ==
  [id |-> id, type |-> "APPROVAL_GATE", yes |-> yes, no |-> no,
   required |-> required, resolves |-> resolves]

MCStepIds == {act1, act2, act3, gate1, gate2, cond}

(* A single gate anyone with approval permission may decide, whose         *)
(* rejection skips to act3; then a quorum of two.                            *)
SingleThenQuorum ==
  <<Act(act1), Gate(gate1, 1, {{}}, none, act3), Gate(gate2, 2, {{}}, none, none), Act(act3)>>

(* One quorum of two, then an action.                                      *)
OneQuorum == <<Gate(gate1, 2, {{}}, none, none), Act(act1)>>

(* A branch around a gate that anyone with approval permission may decide. *)
BranchingGate == <<Cond(cond, gate1, act3), Gate(gate1, 1, {{}}, none, none), Act(act3)>>

(* A condition that may skip an action or end the run, and a gate whose    *)
(* approver may or may not be resolved; an edit drops act3, which a        *)
(* rejection goes to.                                                      *)
Branching ==
  <<Cond(cond, gate1, none), Gate(gate1, 1, {{}, {ann}}, none, act3), Act(act2), Act(act3)>>
BranchingWithoutC ==
  <<Cond(cond, gate1, none), Gate(gate1, 1, {{}, {ann}}, none, act3), Act(act2)>>

AnnToCy == {<<ann, cy>>}

JustPublished == {Published}
BranchingEditions == {Branching, BranchingWithoutC}

(* One worker process and its three queue consumers.                      *)
OneHost == [t \in Threads |-> p1]
OneServes == [t \in Threads |->
  CASE t = ev -> "event" [] t = sc -> "schedule" [] OTHER -> "resume"]

(* Which free id a new row takes does not matter, so r1 and a1 come first; *)
(* and no request is handled while the consumer of schedules is at work.   *)
OneByOne ==
  /\ run[r2].status # "ABSENT" => run[r1].status # "ABSENT"
  /\ approval[a2].status # "ABSENT" => approval[a1].status # "ABSENT"
  /\ thread[sc].pc = "idle" \/ \A q \in Requests : request[q].pc = "idle"

Symmetry == Permutations(ApprovalIds)
=============================================================================
