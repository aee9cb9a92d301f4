------------------------- MODULE WorkflowProperties -------------------------
(***************************************************************************)
(* What the automation engine must and must not do, stated over the state  *)
(* of WorkflowEngine.                                                      *)
(***************************************************************************)
EXTENDS WorkflowEngine

(* Type correctness of every table, queue, thread and request of the       *)
(* engine (run-engine.ts, automation-run-decision.ts).                     *)
RunRow == [status : Active \cup Terminal \cup {"ABSENT"}, index : Nat,
           approval : ApprovalIds \cup {None}, chain : ChainIds \cup {None},
           allow : SUBSET Users]
ApprovalRow == [status : Verdict \cup {"PENDING", "ABSENT"},
                by : Users \cup {None}, chain : ChainIds \cup {None}]
ChainRow == [status : Verdict \cup {"PENDING", "ABSENT"}, required : Nat]
ThreadState ==
  [pc : {"idle", "check", "create", "load", "step", "gate", "notify", "fail"},
   job : Jobs \cup {None}, run : RunIds \cup {None}, steps : Seq(Step),
   index : Nat, opened : ApprovalIds \cup ChainIds \cup {None}]
RequestState ==
  [pc : {"idle", "single", "write", "chain", "voted", "vote", "count",
         "close", "move", "enqueue"},
   user : Users \cup {None}, decision : Verdict \cup {None},
   run : RunIds \cup {None}, row : RunRow, steps : Seq(Step)]

TablesOK ==
  /\ steps \in Seq(Step)
  /\ run \in [RunIds -> RunRow]
  /\ approval \in [ApprovalIds -> ApprovalRow]
  /\ chain \in [ChainIds -> ChainRow]
  /\ standIn \in SUBSET Delegations
HistoryOK ==
  /\ triggers \in Nat /\ faults \in Nat
  /\ done \in [RunIds -> [StepIds -> Nat]]
  /\ verdicts \in [RunIds -> SUBSET (Nat \X Verdict)]
  /\ overlapped \in [RunIds -> BOOLEAN]
  /\ edited \in BOOLEAN
  /\ stranded \in SUBSET RunIds
  /\ starter \in [RunIds -> Threads \cup {None}]

TypeOK ==
  /\ TablesOK /\ HistoryOK
  /\ queue \in [Jobs -> Nat]
  /\ thread \in [Threads -> ThreadState]
  /\ request \in [Requests -> RequestState]

-----------------------------------------------------------------------------
(* No effect without its verdicts: while the rule is not edited, an action *)
(* that ran lies on a path from the first step on which every gate has a   *)
(* recorded decision with the outcome that leads on, whatever crashes,     *)
(* redeliveries and racing deciders there were (advanceRun, decide*Gate).  *)
EffectsJustified ==
  ~ edited =>
    \A r \in RunIds, s \in StepIds :
      done[r][s] > 0 =>
        \E i \in DOMAIN Published :
          Published[i].id = s /\ Reachable(Published, verdicts[r], i)

(* Maker-checker: no decision on a gate is ever stored in the name of the  *)
(* author of the rule (the requestedById / createdById checks).            *)
NoSelfApproval == \A a \in ApprovalIds : approval[a].by # Author

(* A chain is approved only on a full quorum of stored votes, whoever      *)
(* votes, counts and closes at the same time (decideChainedGate).          *)
QuorumStored ==
  \A c \in ChainIds :
    chain[c].status = "APPROVED" =>
      Cardinality(Votes(c, "APPROVED")) >= chain[c].required

-----------------------------------------------------------------------------
(* The inductive invariant behind EffectsJustified and NoSelfApproval.     *)

(* What the program counter of a consumer or a request implies.            *)
ThreadOK(l) ==
  /\ l.pc # "idle" => l.job \in Jobs
  /\ l.pc \in {"load", "step", "gate", "fail"} => l.run \in RunIds
  /\ l.pc = "gate" =>
       /\ l.index \in DOMAIN l.steps
       /\ l.steps[l.index].type = "APPROVAL_GATE"
       /\ l.steps[l.index].required > 1 => l.opened \in ChainIds
       /\ l.steps[l.index].required <= 1 => l.opened \in ApprovalIds

RequestOK(c) ==
  /\ c.pc # "idle" => c.user \in Users /\ c.run \in RunIds /\ c.decision \in Verdict
  /\ c.pc \in {"single", "write"} => c.row.approval \in ApprovalIds
  /\ c.pc \in {"chain", "voted", "vote", "count", "close"} => c.row.chain \in ChainIds
  /\ c.pc \in {"write", "voted", "vote"} => c.user # Author

LocalsOK ==
  /\ \A t \in Threads : ThreadOK(thread[t])
  /\ \A q \in Requests : RequestOK(request[q])

(* Every position anyone holds in the published steps is reachable under   *)
(* the verdicts on record; a waiting run and a request stand at a gate.    *)
IsGate(i) == i \in DOMAIN Published /\ Published[i].type = "APPROVAL_GATE"

RunPosition(row, v) ==
  /\ row.status \in Active => Reachable(Published, v, row.index)
  /\ row.status = "WAITING_APPROVAL" => IsGate(row.index)
ThreadPosition(l, v) ==
  l.pc \in {"step", "gate", "fail"} =>
    l.steps = Published /\ Reachable(Published, v[l.run], l.index)
RequestPosition(c, v) ==
  c.pc # "idle" =>
    /\ c.steps = Published
    /\ IsGate(c.row.index) /\ Reachable(Published, v[c.run], c.row.index)
    /\ c.pc = "move" => <<c.row.index, c.decision>> \in v[c.run]

PositionsOK ==
  ~ edited =>
    /\ steps = Published
    /\ \A r \in RunIds : RunPosition(run[r], verdicts[r])
    /\ \A t \in Threads : ThreadPosition(thread[t], verdicts)
    /\ \A q \in Requests : RequestPosition(request[q], verdicts)

(* Type correctness, sane local state, justified positions and effects, no *)
(* self-approval: together inductive (all of WorkflowEngine's actions).    *)
JustifiedInv ==
  TypeOK /\ LocalsOK /\ NoSelfApproval /\ PositionsOK /\ EffectsJustified

-----------------------------------------------------------------------------
(* A step is executed twice only after a crash inside the run or after a   *)
(* decision overwrote a row already decided (in a workflow without loops). *)
RepeatsExplained ==
  \A r \in RunIds, s \in StepIds :
    done[r][s] > 1 => overlapped[r] \/ faults > 0

(* Finished runs stay finished: only a decision that overwrote a decided   *)
(* row brings a COMPLETED or FAILED run back (blind updates by run id).    *)
FinishedIsFinal ==
  [][\A r \in RunIds :
       run[r].status \in Terminal /\ ~ overlapped'[r] => run'[r] = run[r]]_vars

(* startRun's guard, per consumer: one consumer never has two runs of a    *)
(* rule on a record active, unless an overwritten decision revived one;    *)
(* so there are never more active runs than consumers that start them.     *)
(* Two consumers may both check before either creates, contrary to         *)
(* startRun's comment (run-engine.ts:142-147).                             *)
OneActiveRunEach ==
  \A r1, r2 \in RunIds :
    /\ r1 # r2 /\ run[r1].status \in Active /\ run[r2].status \in Active
    /\ starter[r1] = starter[r2]
    => overlapped[r1] \/ overlapped[r2]

OnItsWay(r) ==
  \/ \E t \in Threads : thread[t].pc # "idle" /\ thread[t].run = r
  \/ \E j \in Jobs : j.run = r /\ queue[j] > 0
  \/ \E q \in Requests : request[q].pc = "enqueue" /\ request[q].run = r

(* Without a fault no run is left RUNNING with nobody to advance it: some  *)
(* consumer has it, or its resume job is queued or about to be.            *)
RunningIsOwned ==
  faults = 0 => \A r \in RunIds : run[r].status = "RUNNING" => OnItsWay(r)

GateOpen(row) ==
  IF row.chain # None THEN chain[row.chain].status = "PENDING"
  ELSE row.approval # None /\ approval[row.approval].status = "PENDING"

(* Without a fault a run that waits can still be decided: the row the      *)
(* decision endpoint will consult is pending, or the request that decided  *)
(* it has yet to move the run.  The one other reason is the code's own:    *)
(* the request stored its decision and could then not move the run, as     *)
(* the goto led nowhere or row-level security refused the update.          *)
WaitingIsDecidable ==
  faults = 0 =>
    \A r \in RunIds :
      run[r].status = "WAITING_APPROVAL" =>
        \/ GateOpen(run[r])
        \/ \E q \in Requests : request[q].pc = "move" /\ request[q].run = r
        \/ r \in stranded

(* Every RUNNING run settles: it waits for people or is over.              *)
RunsSettle ==
  \A r \in RunIds : run[r].status = "RUNNING" ~> run[r].status # "RUNNING"

-----------------------------------------------------------------------------
(* The engine implements GatedWorkflow: the effects of a run are the steps *)
(* executed at least once, and what was granted are the verdicts stored.   *)
Effects == [r \in RunIds |-> {s \in StepIds : done[r][s] > 0}]
Gated == INSTANCE GatedWorkflow WITH effects <- Effects, granted <- verdicts

(* advanceRun and decideAutomationRun, with all their interleavings and    *)
(* crashes, only take steps the abstract workflow allows.                  *)
ImplementsGated == Gated!Spec

-----------------------------------------------------------------------------
(* schema.prisma on ApprovalChain: requiredApprovals distinct APPROVED     *)
(* decisions, one per approver, satisfy the chain.                         *)
DistinctApprovers ==
  \A i \in ChainIds :
    chain[i].status = "APPROVED" =>
      Cardinality({approval[v].by : v \in Votes(i, "APPROVED")}) >= chain[i].required

=============================================================================
