--------------------------- MODULE WorkflowEngine ---------------------------
(***************************************************************************)
(* The multi-step automation engine: run-engine.ts on the worker side,     *)
(* automation-run-decision.ts on the API side, and the rows they share.    *)
(*                                                                         *)
(* One AutomationRule, one entity.  Every Prisma call is a transaction of  *)
(* its own (packages/db/src/client.ts), so a handler is a sequence of      *)
(* steps and any other handler may run between two of them: a worker       *)
(* thread (BullMQ Worker, concurrency 1) and an API request each carry a   *)
(* program counter and what they read earlier.                             *)
(*                                                                         *)
(* Step indices are 1-based here and 0-based in the code.                  *)
(***************************************************************************)
EXTENDS StepGraph, FiniteSets

CONSTANTS
  Published,    \* the steps of the rule when the model starts
  Editions,     \* every list of steps PATCH /automation-rules may store
  Author,       \* AutomationRule.createdById
  Officers,     \* users holding approval:read/write at scope ALL
  Delegations,  \* pairs <<delegator, delegate>> that may become active
  RunIds, ApprovalIds, ChainIds,   \* row ids
  Threads,      \* queue consumers of all worker processes
  Serves,       \* thread -> the queue it consumes
  Processes, Host,                 \* thread -> the process it lives in
  Requests,     \* decision requests the API handles at the same time
  MaxTriggers,  \* bound: start jobs enqueued
  MaxQueued,    \* bound: equal resume jobs waiting in the queue
  MaxFaults     \* bound: crashes and lost enqueues

ASSUME ConstantsAssumption ==
  /\ Published \in Seq(Step)
  /\ Editions \subseteq Seq(Step)
  /\ Author \in Users
  /\ Officers \subseteq Users
  /\ Delegations \subseteq Users \X Users
  /\ None \notin StepIds \cup RunIds \cup ApprovalIds \cup ChainIds \cup Users
  /\ Host \in [Threads -> Processes]
  /\ Serves \in [Threads -> {"event", "schedule", "resume"}]
  /\ IsFiniteSet(Threads) /\ IsFiniteSet(ApprovalIds)
  /\ MaxTriggers \in Nat /\ MaxQueued \in Nat /\ MaxFaults \in Nat

VARIABLES
  steps,      \* AutomationRule.steps
  run,        \* table automation_run_states
  approval,   \* table approvals (entity type CASE_AUTOMATION_GATE)
  chain,      \* table approval_chains
  standIn,    \* approval_delegations rows in force now
  queue,      \* waiting BullMQ jobs, as a bag
  thread,     \* what each consumer is doing
  request,    \* what each decision request is doing
  triggers,   \* start jobs enqueued so far
  faults,     \* crashes and lost enqueues so far
  done,       \* history: step id -> times executed, per run (2 = "again")
  verdicts,   \* history: <<gate index, decision>> recorded, per run
  overlapped, \* history: runs with a decision written over a decided row
  edited,     \* history: the rule was edited after publication
  stranded,   \* history: runs whose latest decision was stored and then
              \* failed to move them
  starter     \* history: the consumer that created the run

rows    == <<run, approval, chain>>
history == <<done, verdicts, overlapped, edited, stranded, starter>>
vars == <<steps, rows, standIn, queue, thread, request, triggers, faults, history>>

Active   == {"RUNNING", "WAITING_APPROVAL"}
Terminal == {"COMPLETED", "FAILED"}
Verdict  == {"APPROVED", "REJECTED"}

Jobs == [kind : {"event", "schedule"}, run : {None}, retried : BOOLEAN]
        \cup [kind : {"resume"}, run : RunIds, retried : BOOLEAN]
ResumeJob(r) == [kind |-> "resume", run |-> r, retried |-> FALSE]

NoRun  == [status |-> "ABSENT", index |-> 1, approval |-> None,
           chain |-> None, allow |-> {}]
NoApproval == [status |-> "ABSENT", by |-> None, chain |-> None]
NoChain == [status |-> "ABSENT", required |-> 0]
IdleThread == [pc |-> "idle", job |-> None, run |-> None,
               steps |-> << >>, index |-> 1, opened |-> None]
IdleRequest == [pc |-> "idle", user |-> None, decision |-> None, run |-> None,
                row |-> NoRun, steps |-> << >>]

Init ==
  /\ steps = Published
  /\ run = [r \in RunIds |-> NoRun]
  /\ approval = [a \in ApprovalIds |-> NoApproval]
  /\ chain = [c \in ChainIds |-> NoChain]
  /\ standIn = {}
  /\ queue = [j \in Jobs |-> 0]
  /\ thread = [t \in Threads |-> IdleThread]
  /\ request = [q \in Requests |-> IdleRequest]
  /\ triggers = 0
  /\ faults = 0
  /\ done = [r \in RunIds |-> [s \in StepIds |-> 0]]
  /\ verdicts = [r \in RunIds |-> {}]
  /\ overlapped = [r \in RunIds |-> FALSE]
  /\ edited = FALSE
  /\ stranded = {}
  /\ starter = [r \in RunIds |-> None]

-----------------------------------------------------------------------------
(* Helpers of both sides.                                                  *)

(* An active delegation lets the delegate stand in for an allow-listed     *)
(* delegator.                                                              *)
Named(u, allow) == u \in allow \/ \E d \in allow : <<d, u>> \in standIn

(* Row-level security: automation_run_states_rw and approvals_rw.          *)
MayTouchRun(u, r) == u \in Officers \/ Named(u, run[r].allow)
MayTouchApproval(u, r, a) ==
  u \in Officers \/ (run[r].approval = a /\ Named(u, run[r].allow))
MayTouchVotes(u, r, c) ==
  u \in Officers \/ (run[r].chain = c /\ Named(u, run[r].allow))

Votes(c, d) == {a \in ApprovalIds : approval[a].chain = c /\ approval[a].status = d}
HasVoted(u, c) == \E a \in ApprovalIds : approval[a].chain = c /\ approval[a].by = u

Enqueued(j) == [queue EXCEPT ![j] = @ + 1]

-----------------------------------------------------------------------------
(* Triggers.  A case event and the schedule scan both reach startRun for   *)
(* the same rule when a category's default workflow is a SCHEDULE rule.    *)

Trigger(kind) ==
  /\ triggers < MaxTriggers
  /\ triggers' = triggers + 1
  /\ queue' = Enqueued([kind |-> kind, run |-> None, retried |-> FALSE])
  /\ UNCHANGED <<steps, rows, standIn, thread, request, faults, history>>

(* PATCH /automation-rules/:id replaces the steps, whatever runs exist.    *)
EditRule(e) ==
  /\ e # steps
  /\ steps' = e
  /\ edited' = TRUE
  /\ UNCHANGED <<rows, standIn, queue, thread, request, triggers, faults,
                 done, verdicts, overlapped, stranded, starter>>

(* A delegation is created, revoked, or its time window begins or ends.    *)
ToggleDelegation(d) ==
  /\ standIn' = IF d \in standIn THEN standIn \ {d} ELSE standIn \cup {d}
  /\ UNCHANGED <<steps, rows, queue, thread, request, triggers, faults, history>>

-----------------------------------------------------------------------------
(* The worker: startRun and advanceRun.                                    *)

Become(t, local) == thread' = [thread EXCEPT ![t] = local]
Finish(t) == Become(t, IdleThread)

Take(t, j) ==
  /\ thread[t].pc = "idle" /\ Serves[t] = j.kind /\ queue[j] > 0
  /\ queue' = [queue EXCEPT ![j] = @ - 1]
  /\ Become(t, [IdleThread EXCEPT !.job = j, !.run = j.run,
                  !.pc = IF j.kind = "resume" THEN "load" ELSE "check"])
  /\ UNCHANGED <<steps, rows, standIn, request, triggers, faults, history>>

(* Fault: the guard forgets runs that wait for an approval.                *)
CheckRunningOnly(t) ==
  /\ thread[t].pc = "check"
  /\ IF \E r \in RunIds : run[r].status = "RUNNING"
     THEN Finish(t)
     ELSE Become(t, [thread[t] EXCEPT !.pc = "create"])
  /\ UNCHANGED <<steps, rows, standIn, queue, request, triggers, faults, history>>

(* startRun: findFirst an active run of this rule and entity.              *)
CheckActive(t) ==
  /\ thread[t].pc = "check"
  /\ IF \E r \in RunIds : run[r].status \in Active
     THEN Finish(t)
     ELSE Become(t, [thread[t] EXCEPT !.pc = "create"])
  /\ UNCHANGED <<steps, rows, standIn, queue, request, triggers, faults, history>>

CreateRun(t, r) ==
  /\ thread[t].pc = "create" /\ run[r].status = "ABSENT"
  /\ run' = [run EXCEPT ![r] = [NoRun EXCEPT !.status = "RUNNING"]]
  /\ Become(t, [thread[t] EXCEPT !.pc = "load", !.run = r])
  /\ starter' = [starter EXCEPT ![r] = t]
  /\ UNCHANGED <<steps, approval, chain, standIn, queue, request, triggers,
                 faults, done, verdicts, overlapped, edited, stranded>>

(* Fault: the walk starts over instead of at currentStepIndex.             *)
LoadFromStart(t) ==
  LET r == thread[t].run IN
  /\ thread[t].pc = "load"
  /\ IF run[r].status # "RUNNING"
     THEN Finish(t)
     ELSE Become(t, [thread[t] EXCEPT !.pc = "step", !.steps = steps, !.index = 1])
  /\ UNCHANGED <<steps, rows, standIn, queue, request, triggers, faults, history>>

(* advanceRun reads the run with its rule once; no-op unless RUNNING.      *)
LoadRun(t) ==
  LET r == thread[t].run IN
  /\ thread[t].pc = "load"
  /\ IF run[r].status # "RUNNING"
     THEN Finish(t)
     ELSE Become(t, [thread[t] EXCEPT !.pc = "step", !.steps = steps,
                                      !.index = run[r].index])
  /\ UNCHANGED <<steps, rows, standIn, queue, request, triggers, faults, history>>

AtStep(t, type) ==
  /\ thread[t].pc = "step"
  /\ thread[t].index \in DOMAIN thread[t].steps
  /\ thread[t].steps[thread[t].index].type = type

CurrentStep(t) == thread[t].steps[thread[t].index]

(* A CONDITION follows a branch: no goto ends the run, a goto to a missing *)
(* step throws out of the job, which BullMQ then drops (attempts = 1).     *)
EvalCondition(t) ==
  /\ AtStep(t, "CONDITION")
  /\ \E target \in {CurrentStep(t).yes, CurrentStep(t).no} :
       \/ /\ target = None
          /\ Become(t, [thread[t] EXCEPT !.index = Len(thread[t].steps) + 1])
       \/ /\ IsStepId(thread[t].steps, target)
          /\ Become(t, [thread[t] EXCEPT !.index = IndexOf(thread[t].steps, target)])
       \/ /\ target # None /\ ~ IsStepId(thread[t].steps, target)
          /\ Finish(t)
  /\ UNCHANGED <<steps, rows, standIn, queue, request, triggers, faults, history>>

(* An ACTION takes effect; the run row is not touched.                     *)
RunAction(t) ==
  LET r == thread[t].run
      s == CurrentStep(t).id IN
  /\ AtStep(t, "ACTION")
  /\ done' = [done EXCEPT ![r][s] = IF @ < 2 THEN @ + 1 ELSE @]
  /\ Become(t, [thread[t] EXCEPT !.index = @ + 1])
  /\ UNCHANGED <<steps, rows, standIn, queue, request, triggers, faults,
                 verdicts, overlapped, edited, stranded, starter>>

FailAction(t) ==
  /\ AtStep(t, "ACTION")
  /\ Become(t, [thread[t] EXCEPT !.pc = "fail"])
  /\ UNCHANGED <<steps, rows, standIn, queue, request, triggers, faults, history>>

(* An APPROVAL_GATE first creates its ApprovalChain or Approval row ...    *)
OpenChain(t, c) ==
  /\ AtStep(t, "APPROVAL_GATE") /\ CurrentStep(t).required > 1
  /\ chain[c].status = "ABSENT"
  /\ chain' = [chain EXCEPT ![c] = [status |-> "PENDING",
                                    required |-> CurrentStep(t).required]]
  /\ Become(t, [thread[t] EXCEPT !.pc = "gate", !.opened = c])
  /\ UNCHANGED <<steps, run, approval, standIn, queue, request, triggers,
                 faults, history>>

OpenApproval(t, a) ==
  /\ AtStep(t, "APPROVAL_GATE") /\ CurrentStep(t).required <= 1
  /\ approval[a].status = "ABSENT"
  /\ approval' = [approval EXCEPT ![a] = [NoApproval EXCEPT !.status = "PENDING"]]
  /\ Become(t, [thread[t] EXCEPT !.pc = "gate", !.opened = a])
  /\ UNCHANGED <<steps, run, chain, standIn, queue, request, triggers, faults,
                 history>>

(* ... then points the run at it.  "context: undefined" leaves the column  *)
(* as it was, and so does the reference the other branch would have set.   *)
WaitAt(row, gate, opened, index, allow) ==
  [row EXCEPT !.status = "WAITING_APPROVAL", !.index = index,
              !.chain = IF gate.required > 1 THEN opened ELSE @,
              !.approval = IF gate.required > 1 THEN @ ELSE opened,
              !.allow = IF allow # {} THEN allow ELSE @]

(* Fault: the walk goes on after opening the gate.                         *)
RecordGateAndGoOn(t) ==
  LET r == thread[t].run IN
  /\ thread[t].pc = "gate"
  /\ \E allow \in CurrentStep(t).resolves :
       run' = [run EXCEPT ![r] = WaitAt(@, CurrentStep(t), thread[t].opened,
                                        thread[t].index, allow)]
  /\ Become(t, [thread[t] EXCEPT !.pc = "step", !.index = @ + 1])
  /\ UNCHANGED <<steps, approval, chain, standIn, queue, request, triggers,
                 faults, history>>

RecordGate(t) ==
  LET r == thread[t].run IN
  /\ thread[t].pc = "gate"
  /\ \E allow \in CurrentStep(t).resolves :
       run' = [run EXCEPT ![r] = WaitAt(@, CurrentStep(t), thread[t].opened,
                                        thread[t].index, allow)]
  /\ Become(t, [thread[t] EXCEPT !.pc = "notify"])
  /\ UNCHANGED <<steps, approval, chain, standIn, queue, request, triggers,
                 faults, history>>

(* notifyApprovers: the job is over once everyone has been told.           *)
NotifyApprovers(t) ==
  /\ thread[t].pc = "notify"
  /\ Finish(t)
  /\ UNCHANGED <<steps, rows, standIn, queue, request, triggers, faults, history>>

RecordFailure(t) ==
  LET r == thread[t].run IN
  /\ thread[t].pc = "fail"
  /\ run' = [run EXCEPT ![r].status = "FAILED", ![r].index = thread[t].index]
  /\ Finish(t)
  /\ UNCHANGED <<steps, approval, chain, standIn, queue, request, triggers,
                 faults, history>>

Complete(t) ==
  LET r == thread[t].run IN
  /\ thread[t].pc = "step" /\ thread[t].index \notin DOMAIN thread[t].steps
  /\ run' = [run EXCEPT ![r].status = "COMPLETED",
                        ![r].index = Len(thread[t].steps) + 1]
  /\ Finish(t)
  /\ UNCHANGED <<steps, approval, chain, standIn, queue, request, triggers,
                 faults, history>>

(* A query fails, or a condition names a field that does not exist: the    *)
(* job throws and is dropped (attempts = 1), whatever it has done so far.  *)
FailJob(t) ==
  /\ faults < MaxFaults /\ thread[t].pc # "idle"
  /\ faults' = faults + 1
  /\ Finish(t)
  /\ UNCHANGED <<steps, rows, standIn, queue, request, triggers, history>>

(* A worker process dies.  BullMQ finds its active jobs stalled and        *)
(* delivers each of them once more (maxStalledCount = 1).                  *)
Redelivered(j, p) ==
  Cardinality({t \in Threads : /\ Host[t] = p /\ thread[t].pc # "idle"
                               /\ ~ thread[t].job.retried
                               /\ j = [thread[t].job EXCEPT !.retried = TRUE]})

Crash(p) ==
  /\ faults < MaxFaults
  /\ \E t \in Threads : Host[t] = p /\ thread[t].pc # "idle"
  /\ faults' = faults + 1
  /\ queue' = [j \in Jobs |-> queue[j] + Redelivered(j, p)]
  /\ thread' = [t \in Threads |-> IF Host[t] = p THEN IdleThread ELSE thread[t]]
  /\ UNCHANGED <<steps, rows, standIn, request, triggers, history>>

-----------------------------------------------------------------------------
(* The API: decideAutomationRun.                                           *)

Now(q, pc) == request' = [request EXCEPT ![q].pc = pc]
Return(q) == request' = [request EXCEPT ![q] = IdleRequest]

(* Reads the run with its rule; the allow-list is checked on what was read.*)
ReceiveDecision(q, u, r, d) ==
  /\ request[q].pc = "idle"
  /\ run[r].status = "WAITING_APPROVAL"
  /\ run[r].approval # None \/ run[r].chain # None
  /\ run[r].allow # {} => Named(u, run[r].allow)
  /\ request' = [request EXCEPT ![q] =
       [pc |-> IF run[r].chain # None THEN "chain" ELSE "single",
        user |-> u, decision |-> d, run |-> r, row |-> run[r], steps |-> steps]]
  /\ UNCHANGED <<steps, rows, standIn, queue, thread, triggers, faults, history>>

(* Fault: the author check is dropped.                                     *)
CheckApprovalOfAnyone(q) ==
  LET c == request[q]
      a == c.row.approval IN
  /\ c.pc = "single"
  /\ IF approval[a].status = "PENDING" /\ MayTouchApproval(c.user, c.run, a)
     THEN Now(q, "write")
     ELSE Return(q)
  /\ UNCHANGED <<steps, rows, standIn, queue, thread, triggers, faults, history>>

(* decideSingleGate: the approval must be pending and not one's own.       *)
CheckApproval(q) ==
  LET c == request[q]
      a == c.row.approval IN
  /\ c.pc = "single"
  /\ IF /\ approval[a].status = "PENDING"
        /\ MayTouchApproval(c.user, c.run, a)
        /\ c.user # Author
     THEN Now(q, "write")
     ELSE Return(q)
  /\ UNCHANGED <<steps, rows, standIn, queue, thread, triggers, faults, history>>

(* Fault: the decider is stored and the status forgotten.                  *)
WriteDeciderOnly(q) ==
  LET c == request[q]
      a == c.row.approval IN
  /\ c.pc = "write"
  /\ approval' = [approval EXCEPT ![a].by = c.user]
  /\ verdicts' = [verdicts EXCEPT ![c.run] = @ \cup {<<c.row.index, c.decision>>}]
  /\ Now(q, "move")
  /\ UNCHANGED <<steps, run, chain, standIn, queue, thread, triggers, faults,
                 done, overlapped, edited, stranded, starter>>

(* Fault: the approval is decided and the run forgotten.                   *)
WriteVerdictOnly(q) ==
  LET c == request[q]
      a == c.row.approval IN
  /\ c.pc = "write"
  /\ approval' = [approval EXCEPT ![a].status = c.decision, ![a].by = c.user]
  /\ verdicts' = [verdicts EXCEPT ![c.run] = @ \cup {<<c.row.index, c.decision>>}]
  /\ Return(q)
  /\ UNCHANGED <<steps, run, chain, standIn, queue, thread, triggers, faults,
                 done, overlapped, edited, stranded, starter>>

(* The update of the approval names its id alone, not its status.          *)
WriteVerdict(q) ==
  LET c == request[q]
      a == c.row.approval IN
  /\ c.pc = "write"
  /\ IF MayTouchApproval(c.user, c.run, a)
     THEN /\ approval' = [approval EXCEPT ![a].status = c.decision, ![a].by = c.user]
          /\ verdicts' = [verdicts EXCEPT ![c.run] = @ \cup {<<c.row.index, c.decision>>}]
          /\ overlapped' = [overlapped EXCEPT ![c.run] = @ \/ approval[a].status # "PENDING"]
          /\ Now(q, "move")
     ELSE Return(q) /\ UNCHANGED <<approval, verdicts, overlapped>>
  /\ UNCHANGED <<steps, run, chain, standIn, queue, thread, triggers, faults,
                 done, edited, stranded, starter>>

(* decideChainedGate: pending chain, not the author, no earlier vote.      *)
CheckChain(q) ==
  LET c == request[q] IN
  /\ c.pc = "chain"
  /\ IF chain[c.row.chain].status = "PENDING" /\ c.user # Author
     THEN Now(q, "voted") ELSE Return(q)
  /\ UNCHANGED <<steps, rows, standIn, queue, thread, triggers, faults, history>>

CheckVoted(q) ==
  LET c == request[q] IN
  /\ c.pc = "voted"
  /\ IF HasVoted(c.user, c.row.chain) THEN Return(q) ELSE Now(q, "vote")
  /\ UNCHANGED <<steps, rows, standIn, queue, thread, triggers, faults, history>>

CastVote(q, a) ==
  LET c == request[q] IN
  /\ c.pc = "vote" /\ approval[a].status = "ABSENT"
  /\ IF MayTouchVotes(c.user, c.run, c.row.chain)
     THEN /\ approval' = [approval EXCEPT ![a] =
                [status |-> c.decision, by |-> c.user, chain |-> c.row.chain]]
          /\ Now(q, IF c.decision = "APPROVED" THEN "count" ELSE "close")
     ELSE Return(q) /\ UNCHANGED approval
  /\ UNCHANGED <<steps, run, chain, standIn, queue, thread, triggers, faults,
                 history>>

(* The count sees the rows row-level security shows this user.             *)
VisibleVotes(u, r, c) ==
  {a \in Votes(c, "APPROVED") : MayTouchVotes(u, r, c) \/ approval[a].by = u}

(* Fault: off by one, the last vote is not waited for.                     *)
CountVotesShort(q) ==
  LET c == request[q]
      ch == c.row.chain IN
  /\ c.pc = "count"
  /\ IF Cardinality(VisibleVotes(c.user, c.run, ch)) + 1 < chain[ch].required
     THEN Return(q) ELSE Now(q, "close")
  /\ UNCHANGED <<steps, rows, standIn, queue, thread, triggers, faults, history>>

CountVotes(q) ==
  LET c == request[q]
      ch == c.row.chain IN
  /\ c.pc = "count"
  /\ IF Cardinality(VisibleVotes(c.user, c.run, ch)) < chain[ch].required
     THEN Return(q) ELSE Now(q, "close")
  /\ UNCHANGED <<steps, rows, standIn, queue, thread, triggers, faults, history>>

(* Fault: the chain is closed and the run forgotten.                       *)
CloseChainOnly(q) ==
  LET c == request[q]
      ch == c.row.chain IN
  /\ c.pc = "close"
  /\ chain' = [chain EXCEPT ![ch].status = c.decision]
  /\ verdicts' = [verdicts EXCEPT ![c.run] = @ \cup {<<c.row.index, c.decision>>}]
  /\ Return(q)
  /\ UNCHANGED <<steps, run, approval, standIn, queue, thread, triggers, faults,
                 done, overlapped, edited, stranded, starter>>

CloseChain(q) ==
  LET c == request[q]
      ch == c.row.chain IN
  /\ c.pc = "close"
  /\ chain' = [chain EXCEPT ![ch].status = c.decision]
  /\ verdicts' = [verdicts EXCEPT ![c.run] = @ \cup {<<c.row.index, c.decision>>}]
  /\ overlapped' = [overlapped EXCEPT ![c.run] = @ \/ chain[ch].status # "PENDING"]
  /\ Now(q, "move")
  /\ UNCHANGED <<steps, run, approval, standIn, queue, thread, triggers, faults,
                 done, edited, stranded, starter>>

(* Where the gate sends the run, from the row and steps read at the start. *)
(* After an edit the index may name no gate: onApprove and onReject of     *)
(* another kind of step are undefined.                                     *)
GateOf(c) == c.steps[c.row.index]
StandsAtGate(c) ==
  c.row.index \in DOMAIN c.steps /\ GateOf(c).type = "APPROVAL_GATE"

(* Fault: onApprove and onReject are swapped.                              *)
GotoSwapped(c) ==
  IF ~ StandsAtGate(c) THEN None
  ELSE IF c.decision = "APPROVED" THEN GateOf(c).no ELSE GateOf(c).yes

GotoOf(c) ==
  IF ~ StandsAtGate(c) THEN None
  ELSE IF c.decision = "APPROVED" THEN GateOf(c).yes ELSE GateOf(c).no

(* The run moves on; a goto to a missing step throws after the decision    *)
(* has been stored, and so does an update row-level security refuses.      *)
MoveRun(q) ==
  LET c == request[q]
      MoveTo(i) ==
        /\ run' = [run EXCEPT ![c.run].status = "RUNNING", ![c.run].index = i]
        /\ stranded' = stranded \ {c.run}
        /\ Now(q, "enqueue") IN
  /\ c.pc = "move"
  /\ \/ /\ MayTouchRun(c.user, c.run) /\ IsStepId(c.steps, GotoOf(c))
        /\ MoveTo(IndexOf(c.steps, GotoOf(c)))
     \/ /\ MayTouchRun(c.user, c.run) /\ GotoOf(c) = None
        /\ c.decision = "APPROVED"
        /\ MoveTo(c.row.index + 1)
     \/ /\ MayTouchRun(c.user, c.run) /\ GotoOf(c) = None
        /\ c.decision = "REJECTED"
        /\ run' = [run EXCEPT ![c.run].status = "FAILED"]
        /\ stranded' = stranded \ {c.run}
        /\ Return(q)
     \/ /\ \/ ~ MayTouchRun(c.user, c.run)
           \/ GotoOf(c) # None /\ ~ IsStepId(c.steps, GotoOf(c))
        /\ stranded' = stranded \cup {c.run}
        /\ Return(q) /\ UNCHANGED run
  /\ UNCHANGED <<steps, approval, chain, standIn, queue, thread, triggers,
                 faults, done, verdicts, overlapped, edited, starter>>

(* Fault: the run is set RUNNING and no resume job is added.               *)
SkipEnqueue(q) ==
  /\ request[q].pc = "enqueue"
  /\ Return(q)
  /\ UNCHANGED <<steps, rows, standIn, queue, thread, triggers, faults, history>>

EnqueueResume(q) ==
  LET j == ResumeJob(request[q].run) IN
  /\ request[q].pc = "enqueue" /\ queue[j] < MaxQueued
  /\ queue' = Enqueued(j)
  /\ Return(q)
  /\ UNCHANGED <<steps, rows, standIn, thread, triggers, faults, history>>

(* The API process dies inside the request, or Redis refuses the job and   *)
(* the error is swallowed: nothing is retried.                             *)
LoseRequest(q) ==
  /\ faults < MaxFaults /\ request[q].pc # "idle"
  /\ faults' = faults + 1
  /\ Return(q)
  /\ UNCHANGED <<steps, rows, standIn, queue, thread, triggers, history>>

-----------------------------------------------------------------------------
StartStep(t) == CheckActive(t) \/ \E r \in RunIds : CreateRun(t, r)
AdvanceStep(t) ==
  \/ LoadRun(t) \/ EvalCondition(t) \/ RunAction(t) \/ FailAction(t)
  \/ \E c \in ChainIds : OpenChain(t, c)
  \/ \E a \in ApprovalIds : OpenApproval(t, a)
  \/ RecordGate(t) \/ NotifyApprovers(t) \/ RecordFailure(t) \/ Complete(t)
WorkerStep(t) == (\E j \in Jobs : Take(t, j)) \/ StartStep(t) \/ AdvanceStep(t)

DecisionStep(q) ==
  \/ CheckApproval(q) \/ WriteVerdict(q)
  \/ CheckChain(q) \/ CheckVoted(q) \/ (\E a \in ApprovalIds : CastVote(q, a))
  \/ CountVotes(q) \/ CloseChain(q) \/ MoveRun(q) \/ EnqueueResume(q)

Receive(q) ==
  \E u \in Users, r \in RunIds, d \in Verdict : ReceiveDecision(q, u, r, d)

Next ==
  \/ \E kind \in {"event", "schedule"} : Trigger(kind)
  \/ \E e \in Editions : EditRule(e)
  \/ \E d \in Delegations : ToggleDelegation(d)
  \/ \E t \in Threads : WorkerStep(t) \/ FailJob(t)
  \/ \E p \in Processes : Crash(p)
  \/ \E q \in Requests : Receive(q) \/ DecisionStep(q) \/ LoseRequest(q)

Spec == Init /\ [][Next]_vars

(* Every consumer keeps consuming and every request runs to its end; no    *)
(* fairness on people, triggers or faults.                                 *)
Fairness ==
  /\ \A t \in Threads : WF_vars(WorkerStep(t))
  /\ \A q \in Requests : WF_vars(DecisionStep(q))
FairSpec == Spec /\ Fairness

=============================================================================
