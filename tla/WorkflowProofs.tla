--------------------------- MODULE WorkflowProofs ---------------------------
(***************************************************************************)
(* Proofs about WorkflowEngine for every rule, every number of users,      *)
(* rows, consumers and requests, and any number of faults.                 *)
(***************************************************************************)
EXTENDS WorkflowProperties, FiniteSetTheorems, WellFoundedInduction, TLAPS

(* findIndex returns a position that holds the id it looked for            *)
(* (stepIndexById and resolveGoalIndex past their -1 check).               *)
LEMMA IndexOfStep ==
  ASSUME NEW s \in Seq(Step), NEW id, IsStepId(s, id)
  PROVE  IndexOf(s, id) \in DOMAIN s /\ s[IndexOf(s, id)].id = id
<1> DEFINE M == {i \in DOMAIN s : s[i].id = id}
<1>1. M \subseteq Nat /\ M # {}
  BY DEF IsStepId
<1> DEFINE R == OpToRel(<, Nat)
<1>a. IsWellFoundedOn(R, Nat)
  BY NatLessThanWellFounded
<1>b. R = {ss \in Nat \X Nat : ss[1] < ss[2]}
  BY DEF OpToRel
<1> HIDE DEF R
<1>2. PICK i \in M : \A j \in M : ~ (<<j, i>> \in R)
  BY <1>1, <1>a, WFMin
<1>3. \A j \in DOMAIN s : s[j].id = id => i <= j
  <2> SUFFICES ASSUME NEW j \in M PROVE i <= j
    OBVIOUS
  <2>1. ~ (<<j, i>> \in R) /\ j \in Nat /\ i \in Nat
    BY <1>1, <1>2
  <2>2. <<j, i>>[1] = j /\ <<j, i>>[2] = i /\ <<j, i>> \in Nat \X Nat
    BY <2>1
  <2>3. ~ (j < i)
    BY <2>1, <2>2, <1>b
  <2>4. QED
    BY <2>1, <2>3
<1>4. QED
  BY <1>2, <1>3 DEF IndexOf

(* Every row, queue, thread and request starts well formed.                *)
LEMMA TypeInit == Init => TypeOK /\ LocalsOK
<1> SUFFICES ASSUME Init PROVE TypeOK /\ LocalsOK
  OBVIOUS
<1> USE ConstantsAssumption DEF Init
<1>1. IdleThread \in ThreadState
  BY DEF IdleThread, ThreadState
<1>2. NoRun \in RunRow
  BY DEF NoRun, RunRow
<1>3. IdleRequest \in RequestState
  BY <1>2 DEF IdleRequest, RequestState
<1>4. TypeOK
  BY <1>1, <1>2, <1>3
     DEF TypeOK, TablesOK, HistoryOK, NoApproval, ApprovalRow, NoChain, ChainRow, Jobs
<1>5. LocalsOK
  BY DEF LocalsOK, ThreadOK, RequestOK, IdleThread, IdleRequest
<1>6. QED
  BY <1>4, <1>5
(* One consumer changes what it does; the others keep theirs.              *)
LEMMA BecomeOK ==
  ASSUME TypeOK, LocalsOK, NEW t \in Threads, NEW l \in ThreadState,
         ThreadOK(l), Become(t, l)
  PROVE  /\ thread' \in [Threads -> ThreadState]
         /\ \A x \in Threads : ThreadOK(thread'[x])
BY DEF TypeOK, LocalsOK, Become

LEMMA FinishOK ==
  ASSUME TypeOK, LocalsOK, NEW t \in Threads, Finish(t)
  PROVE  /\ thread' \in [Threads -> ThreadState]
         /\ \A x \in Threads : ThreadOK(thread'[x])
<1>1. IdleThread \in ThreadState /\ ThreadOK(IdleThread)
  BY DEF IdleThread, ThreadState, ThreadOK
<1>2. QED
  BY <1>1, BecomeOK DEF Finish

(* One request changes what it does; the others keep theirs.               *)
LEMMA AnswerOK ==
  ASSUME TypeOK, LocalsOK, NEW q \in Requests, NEW c \in RequestState,
         RequestOK(c), request' = [request EXCEPT ![q] = c]
  PROVE  /\ request' \in [Requests -> RequestState]
         /\ \A x \in Requests : RequestOK(request'[x])
BY DEF TypeOK, LocalsOK

LEMMA ReturnOK ==
  ASSUME TypeOK, LocalsOK, NEW q \in Requests, Return(q)
  PROVE  /\ request' \in [Requests -> RequestState]
         /\ \A x \in Requests : RequestOK(request'[x])
<1>1. IdleRequest \in RequestState /\ RequestOK(IdleRequest)
  BY DEF IdleRequest, NoRun, RunRow, RequestState, RequestOK
<1>2. QED
  BY <1>1, AnswerOK DEF Return

LEMMA NowOK ==
  ASSUME TypeOK, LocalsOK, NEW q \in Requests,
         NEW pc \in {"write", "voted", "vote", "count", "close", "move", "enqueue"},
         Now(q, pc), RequestOK([request[q] EXCEPT !.pc = pc])
  PROVE  /\ request' \in [Requests -> RequestState]
         /\ \A x \in Requests : RequestOK(request'[x])
<1>1. request[q] \in RequestState
  BY DEF TypeOK
<1>2. [request[q] EXCEPT !.pc = pc] \in RequestState
  BY <1>1 DEF RequestState
<1>3. request' = [request EXCEPT ![q] = [request[q] EXCEPT !.pc = pc]]
  BY DEF Now
<1>4. QED
  BY <1>2, <1>3, AnswerOK

(* The steps of the worker keep types and local states.                    *)
LEMMA TypeWorker ==
  ASSUME TypeOK, LocalsOK, NEW t \in Threads, WorkerStep(t)
  PROVE  TypeOK' /\ LocalsOK'
<1> DEFINE l == thread[t]
<1>1. l \in ThreadState /\ ThreadOK(l)
  BY DEF TypeOK, LocalsOK
<1> DEFINE Goal == /\ thread' \in [Threads -> ThreadState]
                   /\ \A x \in Threads : ThreadOK(thread'[x])
                   /\ TablesOK' /\ HistoryOK' /\ queue' \in [Jobs -> Nat]
                   /\ UNCHANGED request
<1> SUFFICES Goal
  BY DEF TypeOK, LocalsOK
<1> DEFINE Same == UNCHANGED <<steps, run, approval, chain, standIn, queue, request,
                               triggers, faults, done, verdicts, overlapped, edited, stranded,
                               starter>>
<1>2. ASSUME Same PROVE TablesOK' /\ HistoryOK' /\ queue' \in [Jobs -> Nat]
  BY <1>2 DEF TypeOK, TablesOK, HistoryOK
<1>3. ASSUME NEW j \in Jobs, Take(t, j)
      PROVE  Goal
  <2> DEFINE n == [IdleThread EXCEPT !.job = j, !.run = j.run,
                     !.pc = IF j.kind = "resume" THEN "load" ELSE "check"]
  <2>1. j.run \in RunIds \cup {None} /\ (j.kind = "resume" => j.run \in RunIds)
    BY DEF Jobs
  <2>a. IdleThread \in ThreadState
    BY DEF IdleThread, ThreadState
  <2>b. n \in ThreadState /\ n.job = j /\ n.run = j.run
        /\ n.pc = IF j.kind = "resume" THEN "load" ELSE "check"
    BY <2>1, <2>a DEF ThreadState
  <2>c. n \in ThreadState
    BY <2>b
  <2> HIDE DEF n
  <2>d. ThreadOK(n)
    BY <2>1, <2>b DEF ThreadOK
  <2> USE DEF n
  <2>2. Become(t, n)
    BY <1>3 DEF Take
  <2>3. queue' \in [Jobs -> Nat]
    BY <1>3 DEF Take, TypeOK
  <2>4. TablesOK' /\ HistoryOK' /\ UNCHANGED request
    BY <1>3 DEF Take, rows, history, TypeOK, TablesOK, HistoryOK
  <2> HIDE DEF n
  <2>5. QED
    BY <2>c, <2>d, <2>2, <2>3, <2>4, BecomeOK
<1>4. ASSUME CheckActive(t)
      PROVE  Goal
  <2> DEFINE n == [l EXCEPT !.pc = "create"]
  <2>1. n \in ThreadState /\ ThreadOK(n)
    BY <1>1, <1>4 DEF ThreadState, ThreadOK, CheckActive
  <2>2. Same
    BY <1>4 DEF CheckActive, rows, history
  <2>3. Finish(t) \/ Become(t, n)
    BY <1>4 DEF CheckActive
  <2> HIDE DEF n
  <2>4. QED
    BY <1>2, <2>1, <2>2, <2>3, BecomeOK, FinishOK
<1>5. ASSUME NEW r \in RunIds, CreateRun(t, r)
      PROVE  Goal
  <2> DEFINE n == [l EXCEPT !.pc = "load", !.run = r]
  <2>1. n \in ThreadState /\ ThreadOK(n)
    BY <1>1, <1>5 DEF ThreadState, ThreadOK, CreateRun
  <2>2. Become(t, n)
    BY <1>5 DEF CreateRun
  <2>3. [NoRun EXCEPT !.status = "RUNNING"] \in RunRow
    BY DEF NoRun, RunRow, Active
  <2>4. run' \in [RunIds -> RunRow]
    BY <1>5, <2>3 DEF CreateRun, TypeOK, TablesOK
  <2>a. starter' \in [RunIds -> Threads \cup {None}]
    BY <1>5 DEF CreateRun, TypeOK, HistoryOK
  <2>5. TablesOK' /\ HistoryOK' /\ queue' \in [Jobs -> Nat] /\ UNCHANGED request
    BY <1>5, <2>4, <2>a DEF CreateRun, TypeOK, TablesOK, HistoryOK
  <2> HIDE DEF n
  <2>6. QED
    BY <2>1, <2>2, <2>5, BecomeOK
<1>6. ASSUME LoadRun(t)
      PROVE  Goal
  <2> DEFINE n == [l EXCEPT !.pc = "step", !.steps = steps, !.index = run[l.run].index]
  <2>1. l.run \in RunIds /\ l.pc = "load"
    BY <1>1, <1>6 DEF LoadRun, ThreadOK
  <2>2. run[l.run].index \in Nat /\ steps \in Seq(Step)
    BY <2>1 DEF TypeOK, TablesOK, RunRow
  <2>3. n \in ThreadState /\ ThreadOK(n)
    BY <1>1, <2>1, <2>2 DEF ThreadState, ThreadOK
  <2>4. Same
    BY <1>6 DEF LoadRun, rows, history
  <2>5. Finish(t) \/ Become(t, n)
    BY <1>6 DEF LoadRun
  <2> HIDE DEF n
  <2>6. QED
    BY <1>2, <2>3, <2>4, <2>5, BecomeOK, FinishOK
<1>7. ASSUME EvalCondition(t)
      PROVE  Goal
  <2>1. ASSUME NEW i \in Nat
        PROVE  [l EXCEPT !.index = i] \in ThreadState /\ ThreadOK([l EXCEPT !.index = i])
    BY <1>1, <1>7 DEF ThreadState, ThreadOK, EvalCondition, AtStep
  <2>2. l.steps \in Seq(Step) /\ Len(l.steps) + 1 \in Nat
    BY <1>1 DEF ThreadState
  <2>3. \A target : IsStepId(l.steps, target) => IndexOf(l.steps, target) \in Nat
    BY <2>2, IndexOfStep
  <2>4. Finish(t) \/ \E i \in Nat : Become(t, [l EXCEPT !.index = i])
    BY <1>7, <2>2, <2>3 DEF EvalCondition
  <2>5. Same
    BY <1>7 DEF EvalCondition, rows, history
  <2>6. QED
    BY <1>2, <2>1, <2>4, <2>5, BecomeOK, FinishOK
<1>8. ASSUME RunAction(t)
      PROVE  Goal
  <2> DEFINE n == [l EXCEPT !.index = @ + 1]
  <2>a. l.pc = "step" /\ l.index + 1 \in Nat
    BY <1>1, <1>8 DEF ThreadState, RunAction, AtStep
  <2>1. n \in ThreadState /\ ThreadOK(n)
    BY <1>1, <2>a DEF ThreadState, ThreadOK
  <2>2. Become(t, n)
    BY <1>8 DEF RunAction
  <2>3. done' \in [RunIds -> [StepIds -> Nat]]
    <3>1. l.run \in RunIds /\ CurrentStep(t).id \in StepIds
      <4>1. l.pc = "step" /\ l.index \in DOMAIN l.steps /\ l.steps \in Seq(Step)
        BY <1>1, <1>8 DEF RunAction, AtStep, ThreadState
      <4>2. l.steps[l.index] \in Step
        BY <4>1
      <4>3. QED
        BY <1>1, <4>1, <4>2 DEF CurrentStep, ThreadOK, Step
    <3>2. done[l.run] \in [StepIds -> Nat] /\ done \in [RunIds -> [StepIds -> Nat]]
      BY <3>1 DEF TypeOK, HistoryOK
    <3>3. [done[l.run] EXCEPT ![CurrentStep(t).id] = IF @ < 2 THEN @ + 1 ELSE @]
            \in [StepIds -> Nat]
      BY <3>1, <3>2
    <3>4. QED
      BY <1>8, <3>1, <3>2, <3>3 DEF RunAction
  <2>4. TablesOK' /\ HistoryOK' /\ queue' \in [Jobs -> Nat] /\ UNCHANGED request
    BY <1>8, <2>3 DEF RunAction, rows, TypeOK, TablesOK, HistoryOK
  <2> HIDE DEF n
  <2>5. QED
    BY <2>1, <2>2, <2>4, BecomeOK
<1>9. ASSUME FailAction(t)
      PROVE  Goal
  <2> DEFINE n == [l EXCEPT !.pc = "fail"]
  <2>1. n \in ThreadState /\ ThreadOK(n)
    BY <1>1, <1>9 DEF ThreadState, ThreadOK, FailAction, AtStep
  <2>2. Become(t, n) /\ Same
    BY <1>9 DEF FailAction, rows, history
  <2> HIDE DEF n
  <2>3. QED
    BY <1>2, <2>1, <2>2, BecomeOK
<1>10. ASSUME NEW c \in ChainIds, OpenChain(t, c)
      PROVE  Goal
  <2> DEFINE n == [l EXCEPT !.pc = "gate", !.opened = c]
  <2>1. l.steps \in Seq(Step) /\ l.index \in DOMAIN l.steps /\ l.steps[l.index].required > 1
    BY <1>1, <1>10 DEF OpenChain, AtStep, CurrentStep, ThreadState
  <2>2. l.steps[l.index] \in Step
    BY <2>1
  <2>3. l.steps[l.index].required \in Nat
    BY <2>2 DEF Step
  <2>a. l.pc = "step" /\ l.steps[l.index].type = "APPROVAL_GATE" /\ l.run \in RunIds
    BY <1>1, <1>10 DEF OpenChain, AtStep, ThreadOK
  <2>b. n \in ThreadState
    BY <1>1 DEF ThreadState
  <2>c. /\ n.pc = "gate" /\ n.job = l.job /\ n.run = l.run /\ n.steps = l.steps
        /\ n.index = l.index /\ n.opened = c
    BY <1>1 DEF ThreadState
  <2>d. l.job \in Jobs
    BY <1>1, <2>a DEF ThreadOK
  <2> HIDE DEF n
  <2>4. n \in ThreadState /\ ThreadOK(n)
    BY <2>a, <2>b, <2>c, <2>d, <2>1, <2>3 DEF ThreadOK
  <2> USE DEF n
  <2>5. Become(t, n)
    BY <1>10 DEF OpenChain
  <2>6. chain' \in [ChainIds -> ChainRow]
    BY <1>10, <2>3 DEF OpenChain, CurrentStep, TypeOK, TablesOK, ChainRow
  <2>7. TablesOK' /\ HistoryOK' /\ queue' \in [Jobs -> Nat] /\ UNCHANGED request
    BY <1>10, <2>6 DEF OpenChain, history, TypeOK, TablesOK, HistoryOK
  <2> HIDE DEF n
  <2>8. QED
    BY <2>4, <2>5, <2>7, BecomeOK
<1>11. ASSUME NEW a \in ApprovalIds, OpenApproval(t, a)
      PROVE  Goal
  <2> DEFINE n == [l EXCEPT !.pc = "gate", !.opened = a]
  <2>1. l.steps \in Seq(Step) /\ l.index \in DOMAIN l.steps /\ l.steps[l.index].required <= 1
    BY <1>1, <1>11 DEF OpenApproval, AtStep, CurrentStep, ThreadState
  <2>2. l.steps[l.index] \in Step
    BY <2>1
  <2>3. l.steps[l.index].required \in Nat
    BY <2>2 DEF Step
  <2>a. l.pc = "step" /\ l.steps[l.index].type = "APPROVAL_GATE" /\ l.run \in RunIds
    BY <1>1, <1>11 DEF OpenApproval, AtStep, ThreadOK
  <2>b. n \in ThreadState
    BY <1>1 DEF ThreadState
  <2>c. /\ n.pc = "gate" /\ n.job = l.job /\ n.run = l.run /\ n.steps = l.steps
        /\ n.index = l.index /\ n.opened = a
    BY <1>1 DEF ThreadState
  <2>d. l.job \in Jobs
    BY <1>1, <2>a DEF ThreadOK
  <2> HIDE DEF n
  <2>4. n \in ThreadState /\ ThreadOK(n)
    BY <2>a, <2>b, <2>c, <2>d, <2>1, <2>3 DEF ThreadOK
  <2> USE DEF n
  <2>5. Become(t, n)
    BY <1>11 DEF OpenApproval
  <2>6. approval' \in [ApprovalIds -> ApprovalRow]
    BY <1>11 DEF OpenApproval, NoApproval, TypeOK, TablesOK, ApprovalRow
  <2>7. TablesOK' /\ HistoryOK' /\ queue' \in [Jobs -> Nat] /\ UNCHANGED request
    BY <1>11, <2>6 DEF OpenApproval, history, TypeOK, TablesOK, HistoryOK
  <2> HIDE DEF n
  <2>8. QED
    BY <2>4, <2>5, <2>7, BecomeOK
<1>12. ASSUME RecordGate(t)
      PROVE  Goal
  <2> DEFINE gate == l.steps[l.index]
  <2>1. l.pc = "gate" /\ l.run \in RunIds /\ l.steps \in Seq(Step) /\ l.index \in Nat
    BY <1>1, <1>12 DEF RecordGate, ThreadOK, ThreadState
  <2>2. gate \in Step
    BY <1>1, <2>1 DEF ThreadOK
  <2>3. gate.required \in Nat /\ gate.resolves \subseteq SUBSET Users
    BY <2>2 DEF Step
  <2>4. ASSUME NEW row \in RunRow, NEW allow \in gate.resolves
        PROVE  WaitAt(row, gate, l.opened, l.index, allow) \in RunRow
    <3>1. CASE gate.required > 1
      <4>1. l.opened \in ChainIds
        BY <1>1, <2>1, <3>1 DEF ThreadOK
      <4>2. WaitAt(row, gate, l.opened, l.index, allow) =
              [row EXCEPT !.status = "WAITING_APPROVAL", !.index = l.index,
                 !.chain = l.opened, !.approval = row.approval,
                 !.allow = IF allow # {} THEN allow ELSE row.allow]
        BY <3>1 DEF WaitAt
      <4>3. (IF allow # {} THEN allow ELSE row.allow) \in SUBSET Users
        BY <2>3 DEF RunRow
      <4>4. QED
        BY <2>1, <4>1, <4>2, <4>3 DEF RunRow, Active
    <3>2. CASE ~ (gate.required > 1)
      <4>1. l.opened \in ApprovalIds
        BY <1>1, <2>1, <2>3, <3>2 DEF ThreadOK
      <4>2. WaitAt(row, gate, l.opened, l.index, allow) =
              [row EXCEPT !.status = "WAITING_APPROVAL", !.index = l.index,
                 !.chain = row.chain, !.approval = l.opened,
                 !.allow = IF allow # {} THEN allow ELSE row.allow]
        BY <3>2 DEF WaitAt
      <4>3. (IF allow # {} THEN allow ELSE row.allow) \in SUBSET Users
        BY <2>3 DEF RunRow
      <4>4. QED
        BY <2>1, <4>1, <4>2, <4>3 DEF RunRow, Active
    <3>3. QED
      BY <3>1, <3>2
  <2>5. run' \in [RunIds -> RunRow]
    <3>1. \E allow \in gate.resolves :
            run' = [run EXCEPT ![l.run] = WaitAt(@, gate, l.opened, l.index, allow)]
      BY <1>12 DEF RecordGate, CurrentStep
    <3>2. run \in [RunIds -> RunRow]
      BY DEF TypeOK, TablesOK
    <3> HIDE DEF gate
    <3>3. QED
      BY <2>1, <2>4, <3>1, <3>2
  <2>6. TablesOK' /\ HistoryOK' /\ queue' \in [Jobs -> Nat] /\ UNCHANGED request
    BY <1>12, <2>5 DEF RecordGate, history, TypeOK, TablesOK, HistoryOK
  <2> DEFINE n == [l EXCEPT !.pc = "notify"]
  <2>7. Become(t, n)
    BY <1>12 DEF RecordGate
  <2>8. n \in ThreadState /\ ThreadOK(n)
    BY <1>1, <2>1 DEF ThreadState, ThreadOK
  <2> HIDE DEF n
  <2>9. QED
    BY <2>6, <2>7, <2>8, BecomeOK
<1>13. ASSUME NotifyApprovers(t)
       PROVE  Goal
  <2>1. TablesOK' /\ HistoryOK' /\ queue' \in [Jobs -> Nat] /\ UNCHANGED request /\ Finish(t)
    BY <1>13 DEF NotifyApprovers, rows, history, TypeOK, TablesOK, HistoryOK
  <2>2. QED
    BY <2>1, FinishOK
<1>14. ASSUME RecordFailure(t) \/ Complete(t), l.run \in RunIds
      PROVE  Goal
  <2>1. l.index \in Nat /\ Len(l.steps) + 1 \in Nat
    BY <1>1 DEF ThreadState
  <2>2. ASSUME NEW row \in RunRow, NEW i \in Nat, NEW st \in Terminal
        PROVE  [row EXCEPT !.status = st, !.index = i] \in RunRow
    BY DEF RunRow
  <2>3. \E i \in Nat, st \in Terminal :
          run' = [run EXCEPT ![l.run] = [run[l.run] EXCEPT !.status = st, !.index = i]]
    <3>1. run \in [RunIds -> RunRow] /\ run[l.run] \in RunRow
      BY <1>14 DEF TypeOK, TablesOK
    <3>2. CASE RecordFailure(t)
      <4>1. run' = [run EXCEPT ![l.run] = [run[l.run] EXCEPT !.status = "FAILED", !.index = l.index]]
        BY <1>14, <3>1, <3>2 DEF RecordFailure, RunRow
      <4>2. QED
        BY <2>1, <4>1 DEF Terminal
    <3>3. CASE Complete(t)
      <4>1. run' = [run EXCEPT ![l.run] = [run[l.run] EXCEPT !.status = "COMPLETED",
                                                             !.index = Len(l.steps) + 1]]
        BY <1>14, <3>1, <3>3 DEF Complete, RunRow
      <4>2. QED
        BY <2>1, <4>1 DEF Terminal
    <3>4. QED
      BY <1>14, <3>2, <3>3
  <2>a. run \in [RunIds -> RunRow] /\ run[l.run] \in RunRow
    BY <1>14 DEF TypeOK, TablesOK
  <2>b. PICK i \in Nat, st \in Terminal :
          run' = [run EXCEPT ![l.run] = [run[l.run] EXCEPT !.status = st, !.index = i]]
    BY <2>3
  <2>c. [run[l.run] EXCEPT !.status = st, !.index = i] \in RunRow
    BY <2>2, <2>a
  <2>4. run' \in [RunIds -> RunRow]
    BY <2>a, <2>b, <2>c
  <2>5. TablesOK' /\ HistoryOK' /\ queue' \in [Jobs -> Nat] /\ UNCHANGED request
    BY <1>14, <2>4 DEF RecordFailure, Complete, history, TypeOK, TablesOK, HistoryOK
  <2>6. Finish(t)
    BY <1>14 DEF RecordFailure, Complete
  <2>7. QED
    BY <2>5, <2>6, FinishOK
<1>15. RecordFailure(t) \/ Complete(t) => l.run \in RunIds
  BY <1>1 DEF RecordFailure, Complete, ThreadOK
<1>16. QED
  BY <1>3, <1>4, <1>5, <1>6, <1>7, <1>8, <1>9, <1>10, <1>11, <1>12, <1>13, <1>14, <1>15
     DEF WorkerStep, StartStep, AdvanceStep

(* The steps of a decision request keep types and local states.            *)
LEMMA TypeDecision ==
  ASSUME TypeOK, LocalsOK, NEW q \in Requests, Receive(q) \/ DecisionStep(q)
  PROVE  TypeOK' /\ LocalsOK'
<1> DEFINE c == request[q]
<1>1. c \in RequestState /\ RequestOK(c) /\ c.row \in RunRow /\ c.row.index \in Nat
  BY DEF TypeOK, LocalsOK, RequestState, RunRow
<1> DEFINE Goal == /\ request' \in [Requests -> RequestState]
                   /\ \A x \in Requests : RequestOK(request'[x])
                   /\ TablesOK' /\ HistoryOK' /\ queue' \in [Jobs -> Nat]
                   /\ UNCHANGED thread
<1> SUFFICES Goal
  BY DEF TypeOK, LocalsOK
<1> DEFINE Same == UNCHANGED <<steps, run, approval, chain, standIn, queue, thread,
                               triggers, faults, done, verdicts, overlapped, edited, stranded,
                               starter>>
<1>2. ASSUME Same
      PROVE  TablesOK' /\ HistoryOK' /\ queue' \in [Jobs -> Nat] /\ UNCHANGED thread
  BY <1>2 DEF TypeOK, TablesOK, HistoryOK
<1>a. ASSUME NEW d \in Verdict, c.run \in RunIds
      PROVE  [verdicts EXCEPT ![c.run] = @ \cup {<<c.row.index, d>>}]
               \in [RunIds -> SUBSET (Nat \X Verdict)]
  BY <1>1, <1>a DEF TypeOK, HistoryOK
<1>b. ASSUME NEW b \in BOOLEAN, c.run \in RunIds
      PROVE  [overlapped EXCEPT ![c.run] = @ \/ b] \in [RunIds -> BOOLEAN]
  BY <1>b DEF TypeOK, HistoryOK
<1>3. ASSUME NEW u \in Users, NEW r \in RunIds, NEW d \in Verdict, ReceiveDecision(q, u, r, d)
      PROVE  Goal
  <2> DEFINE n == [pc |-> IF run[r].chain # None THEN "chain" ELSE "single",
                   user |-> u, decision |-> d, run |-> r, row |-> run[r], steps |-> steps]
  <2>1. run[r] \in RunRow /\ steps \in Seq(Step)
    BY DEF TypeOK, TablesOK
  <2>2. n \in RequestState
    BY <2>1 DEF RequestState
  <2>3. run[r].approval \in ApprovalIds \/ run[r].chain \in ChainIds
    BY <1>3, <2>1 DEF ReceiveDecision, RunRow
  <2>4. run[r].chain \in ChainIds \/ (run[r].chain = None /\ run[r].approval \in ApprovalIds)
    BY <1>3, <2>1, <2>3 DEF ReceiveDecision, RunRow
  <2>5. RequestOK(n)
    BY <2>4, ConstantsAssumption DEF RequestOK
  <2>6. request' = [request EXCEPT ![q] = n] /\ Same
    BY <1>3 DEF ReceiveDecision, rows, history
  <2> HIDE DEF n
  <2>7. QED
    BY <1>2, <2>2, <2>5, <2>6, AnswerOK
<1>4. ASSUME CheckApproval(q) PROVE Goal
  <2>1. c.user # Author => RequestOK([c EXCEPT !.pc = "write"])
    BY <1>1, <1>4 DEF CheckApproval, RequestOK, RequestState
  <2>2. Same /\ (Return(q) \/ (c.user # Author /\ Now(q, "write")))
    BY <1>4 DEF CheckApproval, rows, history
  <2>3. QED
    BY <1>2, <2>1, <2>2, NowOK, ReturnOK
<1>5. ASSUME WriteVerdict(q) PROVE Goal
  <2>1. c.pc = "write" /\ c.user \in Users /\ c.run \in RunIds /\ c.decision \in Verdict
        /\ c.row.approval \in ApprovalIds
    BY <1>1, <1>5 DEF WriteVerdict, RequestOK
  <2>2. RequestOK([c EXCEPT !.pc = "move"])
    BY <1>1, <2>1 DEF RequestOK, RequestState
  <2>3. CASE MayTouchApproval(c.user, c.run, c.row.approval)
    <3>1. approval' \in [ApprovalIds -> ApprovalRow]
      <4>1. approval[c.row.approval] \in ApprovalRow
        BY <2>1 DEF TypeOK, TablesOK
      <4>2. [approval[c.row.approval] EXCEPT !.status = c.decision, !.by = c.user] \in ApprovalRow
        BY <2>1, <4>1 DEF ApprovalRow
      <4>3. approval' = [approval EXCEPT ![c.row.approval] =
                [approval[c.row.approval] EXCEPT !.status = c.decision, !.by = c.user]]
        BY <1>5, <2>1, <2>3 DEF WriteVerdict, TypeOK, TablesOK, ApprovalRow
      <4>4. QED
        BY <4>2, <4>3 DEF TypeOK, TablesOK
    <3>2. verdicts' \in [RunIds -> SUBSET (Nat \X Verdict)]
      BY <1>5, <1>a, <2>1, <2>3 DEF WriteVerdict
    <3>3. overlapped' \in [RunIds -> BOOLEAN]
      <4>1. (approval[c.row.approval].status # "PENDING") \in BOOLEAN
        OBVIOUS
      <4>2. overlapped' = [overlapped EXCEPT ![c.run] =
                             @ \/ (approval[c.row.approval].status # "PENDING")]
        BY <1>5, <2>3 DEF WriteVerdict
      <4>3. QED
        BY <1>b, <2>1, <4>1, <4>2
    <3>4. Now(q, "move")
      BY <1>5, <2>3 DEF WriteVerdict
    <3>5. TablesOK' /\ HistoryOK' /\ queue' \in [Jobs -> Nat] /\ UNCHANGED thread
      BY <1>5, <3>1, <3>2, <3>3 DEF WriteVerdict, TypeOK, TablesOK, HistoryOK
    <3>6. QED
      BY <2>2, <3>4, <3>5, NowOK
  <2>4. CASE ~ MayTouchApproval(c.user, c.run, c.row.approval)
    <3>1. Same /\ Return(q)
      BY <1>5, <2>4 DEF WriteVerdict
    <3>2. QED
      BY <1>2, <3>1, ReturnOK
  <2>5. QED
    BY <2>3, <2>4
<1>6. ASSUME CheckChain(q) PROVE Goal
  <2>1. c.user # Author => RequestOK([c EXCEPT !.pc = "voted"])
    BY <1>1, <1>6 DEF CheckChain, RequestOK, RequestState
  <2>2. Same /\ (Return(q) \/ (c.user # Author /\ Now(q, "voted")))
    BY <1>6 DEF CheckChain, rows, history
  <2>3. QED
    BY <1>2, <2>1, <2>2, NowOK, ReturnOK
<1>7. ASSUME CheckVoted(q) PROVE Goal
  <2>1. RequestOK([c EXCEPT !.pc = "vote"])
    BY <1>1, <1>7 DEF CheckVoted, RequestOK, RequestState
  <2>2. Same /\ (Return(q) \/ Now(q, "vote"))
    BY <1>7 DEF CheckVoted, rows, history
  <2>3. QED
    BY <1>2, <2>1, <2>2, NowOK, ReturnOK
<1>8. ASSUME NEW a \in ApprovalIds, CastVote(q, a) PROVE Goal
  <2>1. c.pc = "vote" /\ c.user \in Users /\ c.decision \in Verdict /\ c.row.chain \in ChainIds
    BY <1>1, <1>8 DEF CastVote, RequestOK
  <2>2. RequestOK([c EXCEPT !.pc = "count"]) /\ RequestOK([c EXCEPT !.pc = "close"])
    BY <1>1, <2>1 DEF RequestOK, RequestState
  <2>3. [status |-> c.decision, by |-> c.user, chain |-> c.row.chain] \in ApprovalRow
    BY <2>1 DEF ApprovalRow
  <2>4. approval' \in [ApprovalIds -> ApprovalRow]
    BY <1>8, <2>3 DEF CastVote, TypeOK, TablesOK
  <2>5. TablesOK' /\ HistoryOK' /\ queue' \in [Jobs -> Nat] /\ UNCHANGED thread
    BY <1>8, <2>4 DEF CastVote, history, TypeOK, TablesOK, HistoryOK
  <2>6. Return(q) \/ Now(q, "count") \/ Now(q, "close")
    BY <1>8 DEF CastVote
  <2>7. QED
    BY <2>2, <2>5, <2>6, NowOK, ReturnOK
<1>9. ASSUME CountVotes(q) PROVE Goal
  <2>1. RequestOK([c EXCEPT !.pc = "close"])
    BY <1>1, <1>9 DEF CountVotes, RequestOK, RequestState
  <2>2. Same /\ (Return(q) \/ Now(q, "close"))
    BY <1>9 DEF CountVotes, rows, history
  <2>3. QED
    BY <1>2, <2>1, <2>2, NowOK, ReturnOK
<1>10. ASSUME CloseChain(q) PROVE Goal
  <2>1. c.pc = "close" /\ c.run \in RunIds /\ c.decision \in Verdict /\ c.row.chain \in ChainIds
    BY <1>1, <1>10 DEF CloseChain, RequestOK
  <2>2. RequestOK([c EXCEPT !.pc = "move"])
    BY <1>1, <2>1 DEF RequestOK, RequestState
  <2>3. chain' \in [ChainIds -> ChainRow]
    <3>1. [chain[c.row.chain] EXCEPT !.status = c.decision] \in ChainRow
      BY <2>1 DEF TypeOK, TablesOK, ChainRow
    <3>2. chain' = [chain EXCEPT ![c.row.chain] = [chain[c.row.chain] EXCEPT !.status = c.decision]]
      BY <1>10, <2>1 DEF CloseChain, TypeOK, TablesOK, ChainRow
    <3>3. QED
      BY <3>1, <3>2 DEF TypeOK, TablesOK
  <2>4. verdicts' \in [RunIds -> SUBSET (Nat \X Verdict)]
    BY <1>10, <1>a, <2>1 DEF CloseChain
  <2>5. overlapped' \in [RunIds -> BOOLEAN]
    <3>1. (chain[c.row.chain].status # "PENDING") \in BOOLEAN
      OBVIOUS
    <3>2. overlapped' = [overlapped EXCEPT ![c.run] = @ \/ (chain[c.row.chain].status # "PENDING")]
      BY <1>10 DEF CloseChain
    <3>3. QED
      BY <1>b, <2>1, <3>1, <3>2
  <2>6. TablesOK' /\ HistoryOK' /\ queue' \in [Jobs -> Nat] /\ UNCHANGED thread
    BY <1>10, <2>3, <2>4, <2>5 DEF CloseChain, TypeOK, TablesOK, HistoryOK
  <2>7. Now(q, "move")
    BY <1>10 DEF CloseChain
  <2>8. QED
    BY <2>2, <2>6, <2>7, NowOK
<1>11. ASSUME MoveRun(q) PROVE Goal
  <2>1. c.pc = "move" /\ c.run \in RunIds /\ c.steps \in Seq(Step)
    BY <1>1, <1>11 DEF MoveRun, RequestOK, RequestState
  <2>2. RequestOK([c EXCEPT !.pc = "enqueue"])
    BY <1>1, <2>1 DEF RequestOK, RequestState
  <2>3. run \in [RunIds -> RunRow] /\ run[c.run] \in RunRow
    BY <2>1 DEF TypeOK, TablesOK
  <2>4. ASSUME NEW i \in Nat, NEW st \in {"RUNNING", "FAILED"}
        PROVE  [run[c.run] EXCEPT !.status = st, !.index = i] \in RunRow
    BY <2>3 DEF RunRow, Active, Terminal
  <2>5. \A id : IsStepId(c.steps, id) => IndexOf(c.steps, id) \in Nat
    BY <2>1, IndexOfStep
  <2>6. ASSUME NEW i \in Nat,
               run' = [run EXCEPT ![c.run].status = "RUNNING", ![c.run].index = i]
        PROVE  run' \in [RunIds -> RunRow]
    <3>1. run' = [run EXCEPT ![c.run] = [run[c.run] EXCEPT !.status = "RUNNING", !.index = i]]
      BY <2>1, <2>3, <2>6 DEF RunRow
    <3>2. QED
      BY <2>3, <2>4, <3>1
  <2>7. ASSUME run' = [run EXCEPT ![c.run].status = "FAILED"]
        PROVE  run' \in [RunIds -> RunRow]
    <3>1. run' = [run EXCEPT ![c.run] = [run[c.run] EXCEPT !.status = "FAILED",
                                                           !.index = run[c.run].index]]
      BY <2>1, <2>3, <2>7 DEF RunRow
    <3>2. run[c.run].index \in Nat
      BY <2>3 DEF RunRow
    <3>3. QED
      BY <2>3, <2>4, <3>1, <3>2
  <2>8. run' \in [RunIds -> RunRow]
    <3>1. c.row.index + 1 \in Nat
      BY <1>1
    <3>2. UNCHANGED run \/ run' = [run EXCEPT ![c.run].status = "FAILED"]
          \/ \E i \in Nat : run' = [run EXCEPT ![c.run].status = "RUNNING", ![c.run].index = i]
      BY <1>11, <2>5, <3>1 DEF MoveRun
    <3>3. QED
      BY <2>3, <2>6, <2>7, <3>2
  <2>a. stranded' \in SUBSET RunIds
    <3>1. stranded' = stranded \ {c.run} \/ stranded' = stranded \cup {c.run}
      BY <1>11 DEF MoveRun
    <3>2. stranded \in SUBSET RunIds
      BY DEF TypeOK, HistoryOK
    <3> QED
      BY <2>1, <3>1, <3>2
  <2>9. TablesOK' /\ HistoryOK' /\ queue' \in [Jobs -> Nat] /\ UNCHANGED thread
    BY <1>11, <2>8, <2>a DEF MoveRun, TypeOK, TablesOK, HistoryOK
  <2>10. Return(q) \/ Now(q, "enqueue")
    BY <1>11 DEF MoveRun
  <2>11. QED
    BY <2>2, <2>9, <2>10, NowOK, ReturnOK
<1>12. ASSUME EnqueueResume(q) PROVE Goal
  <2>1. ResumeJob(c.run) \in Jobs
    BY <1>1, <1>12 DEF EnqueueResume, RequestOK, ResumeJob, Jobs
  <2>2. queue' \in [Jobs -> Nat]
    BY <1>12, <2>1 DEF EnqueueResume, Enqueued, TypeOK
  <2>3. TablesOK' /\ HistoryOK' /\ UNCHANGED thread /\ Return(q)
    BY <1>12 DEF EnqueueResume, rows, history, TypeOK, TablesOK, HistoryOK
  <2>4. QED
    BY <2>2, <2>3, ReturnOK
<1>13. QED
  BY <1>3, <1>4, <1>5, <1>6, <1>7, <1>8, <1>9, <1>10, <1>11, <1>12 DEF Receive, DecisionStep

(* Triggers, edits, delegations, crashes and lost requests.                *)
LEMMA TypeEnvironment ==
  ASSUME TypeOK, LocalsOK,
         \/ \E kind \in {"event", "schedule"} : Trigger(kind)
         \/ \E e \in Editions : EditRule(e)
         \/ \E d \in Delegations : ToggleDelegation(d)
         \/ \E p \in Processes : Crash(p)
         \/ \E t \in Threads : FailJob(t)
         \/ \E q \in Requests : LoseRequest(q)
  PROVE  TypeOK' /\ LocalsOK'
<1>1. ASSUME NEW kind \in {"event", "schedule"}, Trigger(kind) PROVE TypeOK' /\ LocalsOK'
  <2>1. [kind |-> kind, run |-> None, retried |-> FALSE] \in Jobs
    BY DEF Jobs
  <2>2. queue' \in [Jobs -> Nat]
    BY <1>1, <2>1 DEF Trigger, Enqueued, TypeOK
  <2>3. TablesOK' /\ HistoryOK'
    BY <1>1 DEF Trigger, rows, history, TypeOK, TablesOK, HistoryOK
  <2>4. UNCHANGED <<thread, request>>
    BY <1>1 DEF Trigger
  <2>5. QED
    BY <2>2, <2>3, <2>4 DEF TypeOK, LocalsOK
<1>2. ASSUME NEW e \in Editions, EditRule(e) PROVE TypeOK' /\ LocalsOK'
  BY <1>2, ConstantsAssumption DEF EditRule, rows, TypeOK, TablesOK, HistoryOK, LocalsOK
<1>3. ASSUME NEW d \in Delegations, ToggleDelegation(d) PROVE TypeOK' /\ LocalsOK'
  BY <1>3 DEF ToggleDelegation, rows, history, TypeOK, TablesOK, HistoryOK, LocalsOK
<1>4. ASSUME NEW p \in Processes, Crash(p) PROVE TypeOK' /\ LocalsOK'
  <2>1. \A j \in Jobs : Redelivered(j, p) \in Nat
    BY FS_Subset, FS_CardinalityType, ConstantsAssumption DEF Redelivered
  <2>2. queue' \in [Jobs -> Nat]
    BY <1>4, <2>1 DEF Crash, TypeOK
  <2>3. IdleThread \in ThreadState /\ ThreadOK(IdleThread)
    BY DEF IdleThread, ThreadState, ThreadOK
  <2>4. /\ thread' \in [Threads -> ThreadState]
        /\ \A t \in Threads : ThreadOK(thread'[t])
    BY <1>4, <2>3 DEF Crash, TypeOK, LocalsOK
  <2>5. QED
    BY <1>4, <2>2, <2>4 DEF Crash, rows, history, TypeOK, TablesOK, HistoryOK, LocalsOK
<1>5. ASSUME NEW q \in Requests, LoseRequest(q) PROVE TypeOK' /\ LocalsOK'
  <2>1. /\ request' \in [Requests -> RequestState]
        /\ \A x \in Requests : RequestOK(request'[x])
    BY <1>5, ReturnOK DEF LoseRequest
  <2>2. QED
    BY <1>5, <2>1 DEF LoseRequest, rows, history, TypeOK, TablesOK, HistoryOK, LocalsOK
<1>6. ASSUME NEW t \in Threads, FailJob(t) PROVE TypeOK' /\ LocalsOK'
  <2>1. /\ thread' \in [Threads -> ThreadState]
        /\ \A x \in Threads : ThreadOK(thread'[x])
    BY <1>6, FinishOK DEF FailJob
  <2>2. QED
    BY <1>6, <2>1 DEF FailJob, rows, history, TypeOK, TablesOK, HistoryOK, LocalsOK
<1>7. QED
  BY <1>1, <1>2, <1>3, <1>4, <1>5, <1>6

LEMMA TypeStep == TypeOK /\ LocalsOK /\ [Next]_vars => TypeOK' /\ LocalsOK'
<1> SUFFICES ASSUME TypeOK, LocalsOK, [Next]_vars PROVE TypeOK' /\ LocalsOK'
  OBVIOUS
<1>1. CASE UNCHANGED vars
  BY <1>1 DEF vars, rows, history, TypeOK, TablesOK, HistoryOK, LocalsOK
<1>2. CASE Next
  BY <1>2, TypeWorker, TypeDecision, TypeEnvironment DEF Next
<1>3. QED
  BY <1>1, <1>2

(* Every table, queue, consumer and request of the engine keeps its type.  *)
THEOREM TypeCorrect == Spec => []TypeOK
<1>1. Init => TypeOK /\ LocalsOK
  BY TypeInit
<1>2. TypeOK /\ LocalsOK /\ [Next]_vars => (TypeOK /\ LocalsOK)'
  BY TypeStep
<1>3. QED
  BY <1>1, <1>2, PTL DEF Spec

-----------------------------------------------------------------------------
(* Reachability in the step graph.                                         *)

(* A null goto names no step.                                              *)
LEMMA NoneIsNoStep ==
  ASSUME NEW s \in Seq(Step) PROVE ~ IsStepId(s, None)
<1> SUFFICES ASSUME NEW i \in DOMAIN s, s[i].id = None PROVE FALSE
  BY DEF IsStepId
<1>1. s[i] \in Step
  OBVIOUS
<1>2. s[i].id \in StepIds
  BY <1>1 DEF Step
<1>3. QED
  BY <1>2, ConstantsAssumption

LEMMA ReachStart ==
  ASSUME NEW s, NEW v PROVE Reachable(s, v, 1)
BY DEF Reachable, ClosedUnder

LEMMA ReachNext ==
  ASSUME NEW s, NEW v, NEW i \in DOMAIN s, NEW j,
         Reachable(s, v, i), j \in Successors(s, v, i)
  PROVE  Reachable(s, v, j)
BY DEF Reachable, ClosedUnder

(* More verdicts open more paths.                                          *)
LEMMA SuccessorsGrow ==
  ASSUME NEW s \in Seq(Step), NEW v, NEW w, v \subseteq w, NEW i \in DOMAIN s
  PROVE  Successors(s, v, i) \subseteq Successors(s, w, i)
<1>1. s[i] \in Step
  OBVIOUS
<1>2. s[i].type \in Kinds
  BY <1>1 DEF Step
<1>3. QED
  BY <1>2 DEF Successors, Kinds

LEMMA ReachGrow ==
  ASSUME NEW s \in Seq(Step), NEW v, NEW w, v \subseteq w, NEW i, Reachable(s, v, i)
  PROVE  Reachable(s, w, i)
<1> SUFFICES ASSUME NEW S \in SUBSET (1 .. Len(s) + 1), ClosedUnder(s, w, S)
             PROVE  i \in S
  BY DEF Reachable
<1>1. ASSUME NEW k \in S \cap DOMAIN s PROVE Successors(s, v, k) \subseteq S
  <2>1. Successors(s, w, k) \subseteq S
    BY DEF ClosedUnder
  <2>2. QED
    BY <2>1, SuccessorsGrow
<1>2. ClosedUnder(s, v, S)
  BY <1>1 DEF ClosedUnder
<1>3. QED
  BY <1>2 DEF Reachable

(* Positions stay justified while verdicts are only added.                 *)
LEMMA PositionsGrow ==
  ASSUME NEW v, NEW w, \A r \in RunIds : v[r] \subseteq w[r]
  PROVE  /\ \A r \in RunIds : \A row : RunPosition(row, v[r]) => RunPosition(row, w[r])
         /\ \A l : ThreadOK(l) /\ ThreadPosition(l, v) => ThreadPosition(l, w)
         /\ \A c : RequestOK(c) /\ RequestPosition(c, v) => RequestPosition(c, w)
<1>1. ASSUME NEW r \in RunIds, NEW i, Reachable(Published, v[r], i)
      PROVE  Reachable(Published, w[r], i)
  BY <1>1, ReachGrow, ConstantsAssumption
<1>2. ASSUME NEW r \in RunIds, NEW row, RunPosition(row, v[r]) PROVE RunPosition(row, w[r])
  BY <1>1, <1>2 DEF RunPosition
<1>3. ASSUME NEW l, ThreadOK(l), ThreadPosition(l, v) PROVE ThreadPosition(l, w)
  BY <1>1, <1>3 DEF ThreadOK, ThreadPosition
<1>4. ASSUME NEW c, RequestOK(c), RequestPosition(c, v) PROVE RequestPosition(c, w)
  BY <1>1, <1>4 DEF RequestOK, RequestPosition
<1>5. QED
  BY <1>2, <1>3, <1>4

(* An effect stays justified while verdicts are only added.                *)
LEMMA EffectsGrow ==
  ASSUME EffectsJustified, UNCHANGED done, edited' = edited,
         \A r \in RunIds : verdicts[r] \subseteq verdicts'[r]
  PROVE  EffectsJustified'
<1> SUFFICES ASSUME ~ edited, NEW r \in RunIds, NEW s \in StepIds, done[r][s] > 0
             PROVE  \E i \in DOMAIN Published :
                      Published[i].id = s /\ Reachable(Published, verdicts'[r], i)
  BY DEF EffectsJustified
<1>1. PICK i \in DOMAIN Published :
        Published[i].id = s /\ Reachable(Published, verdicts[r], i)
  BY DEF EffectsJustified
<1>2. Reachable(Published, verdicts'[r], i)
  BY <1>1, ReachGrow, ConstantsAssumption
<1>3. QED
  BY <1>1, <1>2

-----------------------------------------------------------------------------
(* A consumer that changes alone, or with the row of its run.              *)
LEMMA WorkerMoves ==
  ASSUME TypeOK, PositionsOK, ~ edited, NEW t \in Threads, NEW l,
         ThreadPosition(l, verdicts), Become(t, l),
         UNCHANGED <<steps, request, verdicts, edited>>,
         \A r \in RunIds : RunPosition(run'[r], verdicts[r])
  PROVE  PositionsOK'
BY DEF PositionsOK, TypeOK, Become

LEMMA IdleIsNowhere == \A v : ThreadPosition(IdleThread, v)
BY DEF ThreadPosition, IdleThread

LEMMA WorkerPositions ==
  ASSUME TypeOK, LocalsOK, PositionsOK, EffectsJustified, ~ edited,
         NEW t \in Threads, WorkerStep(t)
  PROVE  PositionsOK' /\ EffectsJustified'
<1> DEFINE l == thread[t]
<1>1. l \in ThreadState /\ ThreadOK(l) /\ ThreadPosition(l, verdicts)
  BY DEF TypeOK, LocalsOK, PositionsOK
<1>2. steps = Published /\ \A r \in RunIds : RunPosition(run[r], verdicts[r])
  BY DEF PositionsOK
<1>3. Published \in Seq(Step)
  BY ConstantsAssumption
<1>4. ASSUME UNCHANGED <<done, edited, verdicts>> PROVE EffectsJustified'
  BY <1>4, EffectsGrow
<1>5. ASSUME Finish(t), UNCHANGED <<steps, run, request, verdicts, edited>>
      PROVE  PositionsOK'
  BY <1>2, <1>5, IdleIsNowhere, WorkerMoves DEF Finish
<1>6. ASSUME NEW n, Become(t, n), ThreadPosition(n, verdicts),
             UNCHANGED <<steps, run, request, verdicts, edited>>
      PROVE  PositionsOK'
  BY <1>2, <1>6, WorkerMoves
<1>7. ASSUME NEW j \in Jobs, Take(t, j) PROVE PositionsOK' /\ EffectsJustified'
  <2> DEFINE n == [IdleThread EXCEPT !.job = j, !.run = j.run,
                     !.pc = IF j.kind = "resume" THEN "load" ELSE "check"]
  <2>1. ThreadPosition(n, verdicts)
    BY DEF ThreadPosition, IdleThread
  <2>2. Become(t, n) /\ UNCHANGED <<steps, run, request, verdicts, edited, done>>
    BY <1>7 DEF Take, rows, history
  <2> HIDE DEF n
  <2>3. QED
    BY <1>4, <1>6, <2>1, <2>2
<1>8. ASSUME CheckActive(t) PROVE PositionsOK' /\ EffectsJustified'
  <2>1. ThreadPosition([l EXCEPT !.pc = "create"], verdicts)
    BY <1>1 DEF ThreadPosition, ThreadState
  <2>2. /\ Finish(t) \/ Become(t, [l EXCEPT !.pc = "create"])
        /\ UNCHANGED <<steps, run, request, verdicts, edited, done>>
    BY <1>8 DEF CheckActive, rows, history
  <2>3. QED
    BY <1>4, <1>5, <1>6, <2>1, <2>2
<1>9. ASSUME NEW r \in RunIds, CreateRun(t, r) PROVE PositionsOK' /\ EffectsJustified'
  <2> DEFINE n == [l EXCEPT !.pc = "load", !.run = r]
  <2>1. ThreadPosition(n, verdicts)
    BY <1>1 DEF ThreadPosition, ThreadState
  <2>2. RunPosition([NoRun EXCEPT !.status = "RUNNING"], verdicts[r])
    BY ReachStart DEF RunPosition, NoRun
  <2>3. /\ Become(t, n) /\ UNCHANGED <<steps, request, verdicts, edited, done>>
        /\ run' = [run EXCEPT ![r] = [NoRun EXCEPT !.status = "RUNNING"]]
    BY <1>9 DEF CreateRun, history
  <2>4. \A x \in RunIds : RunPosition(run'[x], verdicts[x])
    BY <1>2, <2>2, <2>3 DEF TypeOK, TablesOK
  <2> HIDE DEF n
  <2>5. QED
    BY <1>4, <2>1, <2>3, <2>4, WorkerMoves
<1>10. ASSUME LoadRun(t) PROVE PositionsOK' /\ EffectsJustified'
  <2> DEFINE n == [l EXCEPT !.pc = "step", !.steps = steps, !.index = run[l.run].index]
  <2>1. l.run \in RunIds
    BY <1>1, <1>10 DEF LoadRun, ThreadOK
  <2>2. run[l.run].status = "RUNNING" => ThreadPosition(n, verdicts)
    BY <1>1, <1>2, <2>1 DEF RunPosition, ThreadPosition, ThreadState, Active
  <2>3. /\ Finish(t) \/ (run[l.run].status = "RUNNING" /\ Become(t, n))
        /\ UNCHANGED <<steps, run, request, verdicts, edited, done>>
    BY <1>10 DEF LoadRun, rows, history
  <2> HIDE DEF n
  <2>4. QED
    BY <1>4, <1>5, <1>6, <2>2, <2>3
<1>11. ASSUME EvalCondition(t) PROVE PositionsOK' /\ EffectsJustified'
  <2>1. /\ l.pc = "step" /\ l.index \in DOMAIN Published /\ l.steps = Published
        /\ Published[l.index].type = "CONDITION"
        /\ Reachable(Published, verdicts[l.run], l.index)
    BY <1>1, <1>11 DEF EvalCondition, AtStep, ThreadPosition
  <2>2. ASSUME NEW i \in Successors(Published, verdicts[l.run], l.index)
        PROVE  ThreadPosition([l EXCEPT !.index = i], verdicts)
    <3>1. Reachable(Published, verdicts[l.run], i)
      BY <2>1, ReachNext
    <3>2. QED
      BY <1>1, <2>1, <3>1 DEF ThreadPosition, ThreadState
  <2>3. \/ Finish(t)
        \/ \E i \in Successors(Published, verdicts[l.run], l.index) :
             Become(t, [l EXCEPT !.index = i])
    <3> DEFINE End == {Len(Published) + 1}
               step == Published[l.index]
    <3>1. Successors(Published, verdicts[l.run], l.index) =
            Jump(Published, step.yes, End) \cup Jump(Published, step.no, End)
      BY <2>1 DEF Successors
    <3>2. PICK target \in {step.yes, step.no} :
            \/ target = None /\ Become(t, [l EXCEPT !.index = Len(Published) + 1])
            \/ /\ IsStepId(Published, target)
               /\ Become(t, [l EXCEPT !.index = IndexOf(Published, target)])
            \/ Finish(t)
      BY <1>11, <2>1 DEF EvalCondition, CurrentStep
    <3>3. CASE target = None /\ Become(t, [l EXCEPT !.index = Len(Published) + 1])
      <4>1. Len(Published) + 1 \in Jump(Published, target, End)
        BY <3>3 DEF Jump
      <4>2. QED
        BY <3>1, <3>2, <3>3, <4>1
    <3>4. CASE /\ IsStepId(Published, target)
               /\ Become(t, [l EXCEPT !.index = IndexOf(Published, target)])
      <4>1. IndexOf(Published, target) \in Jump(Published, target, End)
        <5>1. target # None
          BY <1>3, <3>4, NoneIsNoStep
        <5>2. QED
          BY <3>4, <5>1 DEF Jump
      <4>2. QED
        BY <3>1, <3>2, <3>4, <4>1
    <3>5. QED
      BY <3>2, <3>3, <3>4
  <2>4. UNCHANGED <<steps, run, request, verdicts, edited, done>>
    BY <1>11 DEF EvalCondition, rows, history
  <2>5. QED
    BY <1>4, <1>5, <1>6, <2>2, <2>3, <2>4
<1>12. ASSUME RunAction(t) PROVE PositionsOK' /\ EffectsJustified'
  <2> DEFINE n == [l EXCEPT !.index = @ + 1]
  <2>1. /\ l.pc = "step" /\ l.index \in DOMAIN Published /\ l.steps = Published
        /\ Published[l.index].type = "ACTION" /\ l.run \in RunIds
        /\ Reachable(Published, verdicts[l.run], l.index)
    BY <1>1, <1>12 DEF RunAction, AtStep, ThreadPosition, ThreadOK
  <2>2. Reachable(Published, verdicts[l.run], l.index + 1)
    BY <2>1, ReachNext DEF Successors
  <2>3. ThreadPosition(n, verdicts)
    BY <1>1, <2>1, <2>2 DEF ThreadPosition, ThreadState
  <2>4. Become(t, n) /\ UNCHANGED <<steps, run, request, verdicts, edited>>
    BY <1>12 DEF RunAction, rows
  <2> HIDE DEF n
  <2>5. PositionsOK'
    BY <1>6, <2>3, <2>4
  <2>6. \A r \in RunIds, s \in StepIds :
          done'[r][s] = done[r][s] \/ (r = l.run /\ s = Published[l.index].id)
    BY <1>12, <2>1 DEF RunAction, CurrentStep, TypeOK, HistoryOK
  <2>7. EffectsJustified'
    BY <2>1, <2>4, <2>6 DEF EffectsJustified
  <2>8. QED
    BY <2>5, <2>7
<1>13. ASSUME \/ FailAction(t)
              \/ \E c \in ChainIds : OpenChain(t, c)
              \/ \E a \in ApprovalIds : OpenApproval(t, a)
       PROVE  PositionsOK' /\ EffectsJustified'
  <2>1. ASSUME NEW pc, NEW o
        PROVE  /\ ThreadPosition([l EXCEPT !.pc = "fail"], verdicts)
               /\ ThreadPosition([l EXCEPT !.pc = "gate", !.opened = o], verdicts)
    BY <1>1, <1>13 DEF ThreadPosition, ThreadState, FailAction, OpenChain, OpenApproval, AtStep
  <2>2. /\ \/ Become(t, [l EXCEPT !.pc = "fail"])
           \/ \E o : Become(t, [l EXCEPT !.pc = "gate", !.opened = o])
        /\ UNCHANGED <<steps, run, request, verdicts, edited, done>>
    BY <1>13 DEF FailAction, OpenChain, OpenApproval, rows, history
  <2>3. QED
    BY <1>4, <1>6, <2>1, <2>2
<1>14. ASSUME RecordGate(t) PROVE PositionsOK' /\ EffectsJustified'
  <2>1. /\ l.pc = "gate" /\ l.run \in RunIds /\ l.steps = Published
        /\ IsGate(l.index) /\ Reachable(Published, verdicts[l.run], l.index)
    BY <1>1, <1>14 DEF RecordGate, ThreadOK, ThreadPosition, IsGate
  <2>2. ASSUME NEW row \in RunRow, NEW allow
        PROVE  RunPosition(WaitAt(row, Published[l.index], l.opened, l.index, allow), verdicts[l.run])
    BY <2>1 DEF RunPosition, WaitAt, RunRow
  <2> DEFINE n == [l EXCEPT !.pc = "notify"]
  <2>3. /\ Become(t, n) /\ UNCHANGED <<steps, request, verdicts, edited, done>>
        /\ \E allow : run' = [run EXCEPT ![l.run] =
                        WaitAt(@, Published[l.index], l.opened, l.index, allow)]
    BY <1>14, <2>1 DEF RecordGate, CurrentStep, history
  <2>4. \A r \in RunIds : RunPosition(run'[r], verdicts[r])
    BY <1>2, <2>1, <2>2, <2>3 DEF TypeOK, TablesOK
  <2>5. ThreadPosition(n, verdicts)
    BY <1>1 DEF ThreadPosition, ThreadState
  <2> HIDE DEF n
  <2>6. QED
    BY <1>4, <2>3, <2>4, <2>5, WorkerMoves
<1>15. ASSUME NotifyApprovers(t) PROVE PositionsOK' /\ EffectsJustified'
  BY <1>4, <1>5, <1>15 DEF NotifyApprovers, rows, history
<1>16. ASSUME RecordFailure(t) \/ Complete(t) PROVE PositionsOK' /\ EffectsJustified'
  <2>1. l.run \in RunIds
    BY <1>1, <1>16 DEF RecordFailure, Complete, ThreadOK
  <2>2. run[l.run] \in RunRow
    BY <2>1 DEF TypeOK, TablesOK
  <2>3. \A r \in RunIds : run'[r] = run[r] \/ run'[r].status \in Terminal
    BY <1>16, <2>1, <2>2 DEF RecordFailure, Complete, Terminal, TypeOK, TablesOK, RunRow
  <2>4. \A r \in RunIds : RunPosition(run'[r], verdicts[r])
    BY <1>2, <2>3 DEF RunPosition, Terminal, Active
  <2>5. Finish(t) /\ UNCHANGED <<steps, request, verdicts, edited, done>>
    BY <1>16 DEF RecordFailure, Complete, history
  <2>6. QED
    BY <1>4, <2>4, <2>5, WorkerMoves, IdleIsNowhere DEF Finish
<1>17. QED
  BY <1>7, <1>8, <1>9, <1>10, <1>11, <1>12, <1>13, <1>14, <1>15, <1>16
     DEF WorkerStep, StartStep, AdvanceStep

(* A request that changes alone, or with rows and verdicts.                *)
LEMMA RequestMoves ==
  ASSUME TypeOK, PositionsOK, LocalsOK, ~ edited, NEW q \in Requests, NEW c,
         request' = [request EXCEPT ![q] = c],
         UNCHANGED <<steps, thread, edited>>,
         RequestPosition(c, verdicts'),
         \A r \in RunIds : verdicts[r] \subseteq verdicts'[r],
         \A r \in RunIds : RunPosition(run'[r], verdicts'[r])
  PROVE  PositionsOK'
<1>1. \A t \in Threads : ThreadPosition(thread[t], verdicts')
  BY PositionsGrow DEF PositionsOK, LocalsOK
<1>2. \A x \in Requests : RequestPosition(request[x], verdicts')
  BY PositionsGrow DEF PositionsOK, LocalsOK
<1>3. \A x \in Requests : RequestPosition(request'[x], verdicts')
  BY <1>2 DEF TypeOK
<1>4. QED
  BY <1>1, <1>3 DEF PositionsOK

(* The step a decision leads to is a successor of its gate.                *)
LEMMA DecisionLeadsOn ==
  ASSUME NEW c, NEW v, c.steps = Published, IsGate(c.row.index),
         c.decision \in Verdict, <<c.row.index, c.decision>> \in v
  PROVE  /\ GotoOf(c) = None /\ c.decision = "APPROVED" =>
              c.row.index + 1 \in Successors(Published, v, c.row.index)
         /\ IsStepId(Published, GotoOf(c)) =>
              IndexOf(Published, GotoOf(c)) \in Successors(Published, v, c.row.index)
<1> DEFINE i == c.row.index
           step == Published[i]
<1>1. Successors(Published, v, i) =
        (IF <<i, "APPROVED">> \in v THEN Jump(Published, step.yes, {i + 1}) ELSE {})
        \cup (IF <<i, "REJECTED">> \in v THEN Jump(Published, step.no, {}) ELSE {})
  BY DEF Successors, IsGate
<1>2. GotoOf(c) = IF c.decision = "APPROVED" THEN step.yes ELSE step.no
  BY DEF GotoOf, GateOf, StandsAtGate, IsGate
<1>3. IsStepId(Published, GotoOf(c)) => GotoOf(c) # None
  BY NoneIsNoStep, ConstantsAssumption
<1>4. CASE c.decision = "APPROVED"
  <2>1. Jump(Published, GotoOf(c), {i + 1}) \subseteq Successors(Published, v, i)
    BY <1>1, <1>2, <1>4
  <2>2. QED
    BY <1>3, <2>1 DEF Jump
<1>5. CASE c.decision = "REJECTED"
  <2>1. Jump(Published, GotoOf(c), {}) \subseteq Successors(Published, v, i)
    BY <1>1, <1>2, <1>5
  <2>2. QED
    BY <1>3, <1>5, <2>1 DEF Jump
<1>6. QED
  BY <1>4, <1>5 DEF Verdict

LEMMA DecisionPositions ==
  ASSUME TypeOK, LocalsOK, PositionsOK, EffectsJustified, ~ edited,
         NEW q \in Requests, Receive(q) \/ DecisionStep(q) \/ LoseRequest(q)
  PROVE  PositionsOK' /\ EffectsJustified'
<1> DEFINE c == request[q]
           Same == UNCHANGED <<steps, run, thread, verdicts, edited, done>>
           Goal == PositionsOK' /\ EffectsJustified'
<1>1. c \in RequestState /\ RequestOK(c) /\ RequestPosition(c, verdicts)
  BY DEF TypeOK, LocalsOK, PositionsOK
<1>2. steps = Published /\ \A r \in RunIds : RunPosition(run[r], verdicts[r])
  BY DEF PositionsOK
<1>3. verdicts \in [RunIds -> SUBSET (Nat \X Verdict)]
  BY DEF TypeOK, HistoryOK
<1>4. ASSUME UNCHANGED <<edited, done>>, \A r \in RunIds : verdicts[r] \subseteq verdicts'[r]
      PROVE  EffectsJustified'
  BY <1>4, EffectsGrow
<1>5. ASSUME Return(q), UNCHANGED <<steps, thread, verdicts, edited>>,
             \A r \in RunIds : RunPosition(run'[r], verdicts[r])
      PROVE  PositionsOK'
  <2>1. RequestPosition(IdleRequest, verdicts')
    BY DEF RequestPosition, IdleRequest
  <2>2. QED
    BY <1>5, <2>1, RequestMoves DEF Return
<1>6. ASSUME NEW pc, Now(q, pc), c.pc # "idle", UNCHANGED <<steps, thread, edited>>,
             \A r \in RunIds : verdicts[r] \subseteq verdicts'[r],
             \A r \in RunIds : RunPosition(run'[r], verdicts'[r]),
             pc = "move" => <<c.row.index, c.decision>> \in verdicts'[c.run]
      PROVE  PositionsOK'
  <2>1. RequestPosition(c, verdicts')
    BY <1>1, <1>6, PositionsGrow
  <2>2. RequestPosition([c EXCEPT !.pc = pc], verdicts')
    BY <1>1, <1>6, <2>1 DEF RequestPosition, RequestState
  <2>3. request' = [request EXCEPT ![q] = [c EXCEPT !.pc = pc]]
    BY <1>6 DEF Now, TypeOK, RequestState
  <2>4. QED
    BY <1>6, <2>2, <2>3, RequestMoves
<1>7. ASSUME Same, Return(q) \/ (c.pc # "idle" /\ \E pc : pc # "move" /\ Now(q, pc))
      PROVE  Goal
  BY <1>2, <1>4, <1>5, <1>6, <1>7
<1>8. ASSUME NEW u \in Users, NEW r \in RunIds, NEW d \in Verdict, ReceiveDecision(q, u, r, d)
      PROVE  Goal
  <2> DEFINE n == [pc |-> IF run[r].chain # None THEN "chain" ELSE "single",
                   user |-> u, decision |-> d, run |-> r, row |-> run[r], steps |-> steps]
  <2>1. RequestPosition(n, verdicts)
    BY <1>2, <1>8 DEF ReceiveDecision, RequestPosition, RunPosition, Active
  <2>2. request' = [request EXCEPT ![q] = n] /\ Same
    BY <1>8 DEF ReceiveDecision, rows, history
  <2> HIDE DEF n
  <2>3. PositionsOK'
    BY <1>2, <2>1, <2>2, RequestMoves
  <2>4. QED
    BY <1>4, <2>2, <2>3
<1>9. ASSUME CheckApproval(q) PROVE Goal
  BY <1>7, <1>9 DEF CheckApproval, rows, history
<1>10. ASSUME CheckChain(q) \/ CheckVoted(q) PROVE Goal
  BY <1>7, <1>10 DEF CheckChain, CheckVoted, rows, history
<1>11. ASSUME NEW a \in ApprovalIds, CastVote(q, a) PROVE Goal
  <2>1. Same /\ c.pc # "idle"
    BY <1>11 DEF CastVote, history
  <2>2. Return(q) \/ Now(q, "count") \/ Now(q, "close")
    BY <1>11 DEF CastVote
  <2>3. QED
    BY <1>7, <2>1, <2>2
<1>12. ASSUME CountVotes(q) PROVE Goal
  BY <1>7, <1>12 DEF CountVotes, rows, history
<1>13. ASSUME WriteVerdict(q) \/ CloseChain(q) PROVE Goal
  <2>1. c.run \in RunIds /\ c.pc \notin {"idle", "move"}
    BY <1>1, <1>13 DEF WriteVerdict, CloseChain, RequestOK
  <2>2. UNCHANGED <<steps, run, thread, edited, done>>
    BY <1>13 DEF WriteVerdict, CloseChain
  <2>3. \/ Return(q) /\ UNCHANGED verdicts
        \/ /\ Now(q, "move")
           /\ verdicts' = [verdicts EXCEPT ![c.run] = @ \cup {<<c.row.index, c.decision>>}]
    BY <1>13 DEF WriteVerdict, CloseChain
  <2>4. CASE Return(q) /\ UNCHANGED verdicts
    BY <1>7, <2>2, <2>4
  <2>5. CASE /\ Now(q, "move")
             /\ verdicts' = [verdicts EXCEPT ![c.run] = @ \cup {<<c.row.index, c.decision>>}]
    <3>1. /\ \A r \in RunIds : verdicts[r] \subseteq verdicts'[r]
          /\ <<c.row.index, c.decision>> \in verdicts'[c.run]
      BY <1>3, <2>1, <2>5
    <3>2. \A r \in RunIds : RunPosition(run'[r], verdicts'[r])
      BY <1>2, <2>2, <3>1, PositionsGrow
    <3>3. PositionsOK'
      BY <1>6, <2>1, <2>2, <2>5, <3>1, <3>2
    <3>4. QED
      BY <1>4, <2>2, <3>1, <3>3
  <2>6. QED
    BY <2>3, <2>4, <2>5
<1>14. ASSUME MoveRun(q) PROVE Goal
  <2>1. /\ c.pc = "move" /\ c.run \in RunIds /\ c.decision \in Verdict
        /\ c.steps = Published /\ IsGate(c.row.index)
        /\ Reachable(Published, verdicts[c.run], c.row.index)
        /\ <<c.row.index, c.decision>> \in verdicts[c.run]
    BY <1>1, <1>14 DEF MoveRun, RequestOK, RequestPosition
  <2> DEFINE Onward(i) == run' = [run EXCEPT ![c.run].status = "RUNNING", ![c.run].index = i]
             Next1 == Successors(Published, verdicts[c.run], c.row.index)
  <2>2. UNCHANGED <<steps, thread, verdicts, edited, done>>
    BY <1>14 DEF MoveRun, history
  <2>3. \/ Return(q) /\ UNCHANGED run
        \/ Return(q) /\ run' = [run EXCEPT ![c.run].status = "FAILED"]
        \/ Now(q, "enqueue") /\ \E i \in Next1 : Onward(i)
    BY <1>14, <2>1, DecisionLeadsOn DEF MoveRun
  <2>4. run \in [RunIds -> RunRow]
    BY DEF TypeOK, TablesOK
  <2>5. ASSUME NEW i \in Next1, Onward(i)
        PROVE  \A r \in RunIds : RunPosition(run'[r], verdicts[r])
    <3>1. Reachable(Published, verdicts[c.run], i)
      BY <2>1, ReachNext DEF IsGate
    <3>2. RunPosition(run'[c.run], verdicts[c.run])
      BY <2>1, <2>4, <2>5, <3>1 DEF RunPosition, RunRow
    <3>3. \A r \in RunIds \ {c.run} : run'[r] = run[r]
      BY <2>1, <2>4, <2>5
    <3>4. QED
      BY <1>2, <3>2, <3>3
  <2>6. ASSUME run' = [run EXCEPT ![c.run].status = "FAILED"]
        PROVE  \A r \in RunIds : RunPosition(run'[r], verdicts[r])
    BY <1>2, <2>1, <2>4, <2>6 DEF RunPosition, RunRow, Active
  <2>7. PositionsOK'
    BY <1>2, <1>5, <1>6, <2>1, <2>2, <2>3, <2>5, <2>6
  <2>8. QED
    BY <1>4, <2>2, <2>7
<1>15. ASSUME EnqueueResume(q) \/ LoseRequest(q) PROVE Goal
  BY <1>7, <1>15 DEF EnqueueResume, LoseRequest, rows, history
<1>16. QED
  BY <1>8, <1>9, <1>10, <1>11, <1>12, <1>13, <1>14, <1>15 DEF Receive, DecisionStep

(* Triggers, edits, delegations and crashes.                               *)
LEMMA EnvironmentPositions ==
  ASSUME TypeOK, LocalsOK, PositionsOK, EffectsJustified, ~ edited,
         \/ \E kind \in {"event", "schedule"} : Trigger(kind)
         \/ \E e \in Editions : EditRule(e)
         \/ \E d \in Delegations : ToggleDelegation(d)
         \/ \E p \in Processes : Crash(p)
         \/ \E t \in Threads : FailJob(t)
  PROVE  PositionsOK' /\ EffectsJustified'
<1>1. CASE \E e \in Editions : EditRule(e)
  BY <1>1 DEF EditRule, PositionsOK, EffectsJustified
<1>2. CASE (\E kind \in {"event", "schedule"} : Trigger(kind))
           \/ \E d \in Delegations : ToggleDelegation(d)
  <2>1. UNCHANGED <<steps, run, thread, request, verdicts, done, edited>>
    BY <1>2 DEF Trigger, ToggleDelegation, rows, history
  <2>2. QED
    BY <2>1 DEF PositionsOK, EffectsJustified
<1>3. CASE (\E p \in Processes : Crash(p)) \/ \E x \in Threads : FailJob(x)
  <2>1. UNCHANGED <<steps, run, request, verdicts, done, edited>>
    BY <1>3 DEF Crash, FailJob, rows, history
  <2>2. \A t \in Threads : thread'[t] = thread[t] \/ thread'[t] = IdleThread
    BY <1>3 DEF Crash, FailJob, Finish, Become, TypeOK
  <2>3. \A t \in Threads : ThreadPosition(thread'[t], verdicts)
    BY <2>2, IdleIsNowhere DEF PositionsOK
  <2>4. QED
    BY <2>1, <2>3 DEF PositionsOK, EffectsJustified
<1>4. QED
  BY <1>1, <1>2, <1>3

LEMMA PositionsStep ==
  ASSUME TypeOK, LocalsOK, PositionsOK, EffectsJustified, [Next]_vars
  PROVE  PositionsOK' /\ EffectsJustified'
<1>1. CASE UNCHANGED vars
  BY <1>1 DEF vars, rows, history, PositionsOK, EffectsJustified
<1>2. CASE Next /\ ~ edited
  BY <1>2, WorkerPositions, DecisionPositions, EnvironmentPositions DEF Next
<1>3. CASE Next /\ edited
  <2>1. edited' = TRUE
    <3>1. ASSUME NEW t \in Threads, WorkerStep(t) PROVE UNCHANGED edited
      BY <3>1 DEF WorkerStep, StartStep, AdvanceStep, Take, CheckActive, CreateRun,
         LoadRun, EvalCondition, RunAction, FailAction, OpenChain, OpenApproval,
         RecordGate, NotifyApprovers, RecordFailure, Complete, history
    <3>2. ASSUME NEW q \in Requests, Receive(q) \/ DecisionStep(q) \/ LoseRequest(q)
          PROVE  UNCHANGED edited
      BY <3>2 DEF Receive, DecisionStep, LoseRequest, ReceiveDecision, CheckApproval,
         WriteVerdict, CheckChain, CheckVoted, CastVote, CountVotes, CloseChain,
         MoveRun, EnqueueResume, history
    <3>3. QED
      BY <1>3, <3>1, <3>2 DEF Next, Trigger, EditRule, ToggleDelegation, Crash, FailJob, history, TypeOK, HistoryOK
  <2>2. QED
    BY <2>1 DEF PositionsOK, EffectsJustified
<1>4. QED
  BY <1>1, <1>2, <1>3

-----------------------------------------------------------------------------
(* Only decisions name a decider, and those check it is not the author.    *)
LEMMA DeciderStep ==
  ASSUME TypeOK, LocalsOK, NoSelfApproval, [Next]_vars
  PROVE  NoSelfApproval'
<1>1. ASSUME UNCHANGED approval PROVE NoSelfApproval'
  BY <1>1 DEF NoSelfApproval
<1>2. approval \in [ApprovalIds -> ApprovalRow]
  BY DEF TypeOK, TablesOK
<1>3. ASSUME NEW t \in Threads, WorkerStep(t) PROVE NoSelfApproval'
  <2>1. ASSUME NEW a \in ApprovalIds, OpenApproval(t, a) PROVE NoSelfApproval'
    <3>1. approval' = [approval EXCEPT ![a] = [NoApproval EXCEPT !.status = "PENDING"]]
      BY <2>1 DEF OpenApproval
    <3>2. approval'[a].by = None
      BY <1>2, <3>1 DEF NoApproval
    <3>3. None # Author
      BY ConstantsAssumption
    <3>4. QED
      BY <1>2, <3>1, <3>2, <3>3 DEF NoSelfApproval
  <2>2. UNCHANGED approval \/ \E a \in ApprovalIds : OpenApproval(t, a)
    BY <1>3 DEF WorkerStep, StartStep, AdvanceStep, Take, CheckActive, CreateRun,
       LoadRun, EvalCondition, RunAction, FailAction, OpenChain,
       RecordGate, NotifyApprovers, RecordFailure, Complete, rows
  <2>3. QED
    BY <1>1, <2>1, <2>2
<1>4. ASSUME NEW q \in Requests, Receive(q) \/ DecisionStep(q) \/ LoseRequest(q)
      PROVE  NoSelfApproval'
  <2> DEFINE c == request[q]
  <2>1. RequestOK(c)
    BY DEF LocalsOK
  <2>2. ASSUME WriteVerdict(q) PROVE NoSelfApproval'
    <3>1. c.user # Author
      BY <2>1, <2>2 DEF WriteVerdict, RequestOK
    <3>2. \/ UNCHANGED approval
          \/ approval' = [approval EXCEPT ![c.row.approval].status = c.decision,
                                          ![c.row.approval].by = c.user]
      BY <2>2 DEF WriteVerdict
    <3>3. QED
      BY <1>1, <1>2, <3>1, <3>2 DEF NoSelfApproval, ApprovalRow
  <2>3. ASSUME NEW a \in ApprovalIds, CastVote(q, a) PROVE NoSelfApproval'
    <3>1. c.user # Author
      BY <2>1, <2>3 DEF CastVote, RequestOK
    <3>2. \/ UNCHANGED approval
          \/ approval' = [approval EXCEPT ![a] =
               [status |-> c.decision, by |-> c.user, chain |-> c.row.chain]]
      BY <2>3 DEF CastVote
    <3>3. QED
      BY <1>1, <1>2, <3>1, <3>2 DEF NoSelfApproval
  <2>4. UNCHANGED approval \/ WriteVerdict(q) \/ \E a \in ApprovalIds : CastVote(q, a)
    BY <1>4 DEF Receive, DecisionStep, LoseRequest, ReceiveDecision, CheckApproval,
       CheckChain, CheckVoted, CountVotes, CloseChain, MoveRun, EnqueueResume, rows
  <2>5. QED
    BY <1>1, <2>2, <2>3, <2>4
<1>5. CASE UNCHANGED vars
  BY <1>1, <1>5 DEF vars, rows
<1>6. CASE Next
  BY <1>1, <1>3, <1>4, <1>6 DEF Next, Trigger, EditRule, ToggleDelegation, Crash, FailJob, rows
<1>7. QED
  BY <1>5, <1>6

-----------------------------------------------------------------------------
LEMMA JustifiedInit == Init => JustifiedInv
<1> SUFFICES ASSUME Init PROVE JustifiedInv
  OBVIOUS
<1>1. TypeOK /\ LocalsOK
  BY TypeInit
<1>2. NoSelfApproval
  BY ConstantsAssumption DEF Init, NoApproval, NoSelfApproval
<1>3. PositionsOK
  BY DEF Init, NoRun, IdleThread, IdleRequest, PositionsOK, RunPosition,
         ThreadPosition, RequestPosition, Active
<1>4. EffectsJustified
  BY DEF Init, EffectsJustified
<1>5. QED
  BY <1>1, <1>2, <1>3, <1>4 DEF JustifiedInv

(* The inductive invariant: positions, effects and deciders of the engine  *)
(* stay justified through every step of every handler.                     *)
THEOREM Justified == Spec => []JustifiedInv
<1>1. JustifiedInv /\ [Next]_vars => JustifiedInv'
  BY TypeStep, PositionsStep, DeciderStep DEF JustifiedInv
<1>2. QED
  BY <1>1, JustifiedInit, PTL DEF Spec

(* No action of an unedited workflow takes effect without the recorded     *)
(* verdicts of the gates in front of it, whatever crashes, redeliveries    *)
(* and concurrent deciders do (advanceRun and the decide*Gate handlers).   *)
THEOREM EffectsNeedVerdicts == Spec => []EffectsJustified
<1>1. JustifiedInv => EffectsJustified
  BY DEF JustifiedInv
<1>2. QED
  BY <1>1, Justified, PTL

(* The author of a rule never decides one of its gates                     *)
(* (decideSingleGate, decideChainedGate).                                  *)
THEOREM SegregationOfDuties == Spec => []NoSelfApproval
<1>1. JustifiedInv => NoSelfApproval
  BY DEF JustifiedInv
<1>2. QED
  BY <1>1, Justified, PTL

-----------------------------------------------------------------------------
(* Quorum.  A count is taken before the chain is closed, and others act in *)
(* between.  That is harmless because a vote is never taken back: votes go *)
(* into rows of their own, and the decision on a single gate writes only   *)
(* to rows that belong to no chain.                                        *)

(* Of the two tables ap (approvals) and ch (approval_chains).              *)
Ballots(c, ap) == {a \in ApprovalIds : ap[a].chain = c /\ ap[a].status = "APPROVED"}
Full(c, ap, ch) == Cardinality(Ballots(c, ap)) >= ch[c].required

(* What a request about to write has seen of them.                         *)
Counted(l, ap, ch) ==
  /\ l.pc = "write" =>
       ap[l.row.approval].status # "ABSENT" /\ ap[l.row.approval].chain = None
  /\ l.pc \in {"voted", "vote", "count", "close"} => ch[l.row.chain].status # "ABSENT"
  /\ l.pc = "close" /\ l.decision = "APPROVED" => Full(l.row.chain, ap, ch)

RowsOK(ap, ch) ==
  /\ \A a \in ApprovalIds : ap[a].status = "PENDING" => ap[a].chain = None
  /\ \A c \in ChainIds : ch[c].status = "APPROVED" => Full(c, ap, ch)

QuorumInv ==
  RowsOK(approval, chain) /\ \A q \in Requests : Counted(request[q], approval, chain)

(* What no step does to rows that exist: open a chain anew, take a vote    *)
(* back, turn the row of a single gate into a vote.                        *)
Settled(ap, ch) ==
  /\ \A c \in ChainIds : chain[c].status # "ABSENT" =>
       ch[c].status # "ABSENT" /\ ch[c].required = chain[c].required
  /\ \A a \in ApprovalIds : approval[a].status # "ABSENT" =>
       /\ ap[a].status # "ABSENT" /\ ap[a].chain = approval[a].chain
       /\ approval[a].chain # None => ap[a] = approval[a]

-----------------------------------------------------------------------------
LEMMA FullStays ==
  ASSUME NEW ap, NEW ch, Settled(ap, ch), NEW c \in ChainIds,
         chain[c].status # "ABSENT", chain[c].required \in Nat, ch[c].required \in Nat,
         Full(c, approval, chain)
  PROVE  Full(c, ap, ch)
<1>1. Ballots(c, approval) \subseteq Ballots(c, ap)
  BY ConstantsAssumption DEF Ballots, Settled
<1>2. IsFiniteSet(Ballots(c, ap)) /\ IsFiniteSet(Ballots(c, approval))
  BY ConstantsAssumption, FS_Subset DEF Ballots
<1>3. Cardinality(Ballots(c, approval)) <= Cardinality(Ballots(c, ap))
  BY <1>1, <1>2, FS_Subset
<1>4. Cardinality(Ballots(c, approval)) \in Nat /\ Cardinality(Ballots(c, ap)) \in Nat
  BY <1>2, FS_CardinalityType
<1> QED
  BY <1>3, <1>4 DEF Full, Settled

(* What a request has seen stays true as long as the tables are settled.   *)
LEMMA CountedStays ==
  ASSUME TypeOK, NEW ap, NEW ch \in [ChainIds -> ChainRow], Settled(ap, ch),
         NEW l, RequestOK(l), Counted(l, approval, chain)
  PROVE  Counted(l, ap, ch)
<1>1. ASSUME l.pc = "write"
      PROVE  ap[l.row.approval].status # "ABSENT" /\ ap[l.row.approval].chain = None
  BY <1>1 DEF RequestOK, Counted, Settled
<1>2. ASSUME l.pc \in {"voted", "vote", "count", "close"}
      PROVE  ch[l.row.chain].status # "ABSENT"
  BY <1>2 DEF RequestOK, Counted, Settled
<1>3. ASSUME l.pc = "close", l.decision = "APPROVED"
      PROVE  Full(l.row.chain, ap, ch)
  <2>1. /\ l.row.chain \in ChainIds /\ chain[l.row.chain].status # "ABSENT"
        /\ Full(l.row.chain, approval, chain)
    BY <1>3 DEF RequestOK, Counted
  <2>2. chain[l.row.chain].required \in Nat /\ ch[l.row.chain].required \in Nat
    BY <2>1 DEF TypeOK, TablesOK, ChainRow
  <2> QED
    BY <2>1, <2>2, FullStays
<1> QED
  BY <1>1, <1>2, <1>3 DEF Counted

(* A step that settles rows, and leaves each request where it was or with  *)
(* something it has just seen, keeps the invariant.                        *)
LEMMA QuorumStays ==
  ASSUME TypeOK, LocalsOK, QuorumInv, chain' \in [ChainIds -> ChainRow],
         Settled(approval', chain'),
         \A a \in ApprovalIds : approval'[a].status = "PENDING" =>
           approval'[a].chain = None,
         \A c \in ChainIds : chain'[c].status = "APPROVED" =>
           chain[c].status = "APPROVED" \/ Full(c, approval', chain'),
         \A q \in Requests :
           request'[q] = request[q] \/ Counted(request'[q], approval', chain')
  PROVE  QuorumInv'
<1>1. ASSUME NEW c \in ChainIds, chain'[c].status = "APPROVED"
      PROVE  Full(c, approval', chain')
  <2>1. chain[c].required \in Nat /\ chain'[c].required \in Nat
    BY DEF TypeOK, TablesOK, ChainRow
  <2>2. CASE chain[c].status = "APPROVED"
    <3>1. Full(c, approval, chain)
      BY <2>2 DEF QuorumInv, RowsOK
    <3> QED
      BY <2>1, <2>2, <3>1, FullStays
  <2> QED
    BY <1>1, <2>2
<1>2. ASSUME NEW q \in Requests
      PROVE  Counted(request'[q], approval', chain')
  <2>1. CASE request'[q] = request[q]
    <3>1. RequestOK(request[q]) /\ Counted(request[q], approval, chain)
      BY DEF LocalsOK, QuorumInv
    <3>2. Counted(request[q], approval', chain')
      BY <3>1, CountedStays
    <3> QED
      BY <2>1, <3>2
  <2> QED
    BY <2>1
<1>3. RowsOK(approval', chain')
  BY <1>1 DEF RowsOK
<1> QED
  BY <1>2, <1>3 DEF QuorumInv

LEMMA QuorumInit == Init => QuorumInv
BY DEF Init, QuorumInv, RowsOK, Counted, NoApproval, NoChain, IdleRequest

LEMMA IdleHasSeenNothing == \A ap, ch : Counted(IdleRequest, ap, ch)
BY DEF IdleRequest, Counted

LEMMA Unsettling ==
  ASSUME TypeOK, UNCHANGED <<approval, chain>>
  PROVE  Settled(approval', chain')
BY DEF Settled

(* Steps that leave both tables alone, whoever goes idle by them.          *)
LEMMA QuietStep ==
  ASSUME TypeOK, LocalsOK, QuorumInv, UNCHANGED <<approval, chain>>,
         \A q \in Requests :
           request'[q] = request[q] \/ Counted(request'[q], approval', chain')
  PROVE  QuorumInv'
<1>1. /\ chain' \in [ChainIds -> ChainRow]
      /\ \A a \in ApprovalIds : approval'[a].status = "PENDING" => approval'[a].chain = None
      /\ \A c \in ChainIds : chain'[c].status = "APPROVED" => chain[c].status = "APPROVED"
  BY DEF TypeOK, TablesOK, QuorumInv, RowsOK
<1> QED
  BY <1>1, Unsettling, QuorumStays

-----------------------------------------------------------------------------
(* A consumer opens rows that were absent and votes on nothing.            *)
LEMMA WorkerKeepsQuorum ==
  ASSUME TypeOK, LocalsOK, QuorumInv, NEW t \in Threads, WorkerStep(t), chain' \in [ChainIds -> ChainRow]
  PROVE  QuorumInv'
<1> USE ConstantsAssumption
<1>1. UNCHANGED request
  BY DEF WorkerStep, StartStep, AdvanceStep, Take, CheckActive, CreateRun,
     LoadRun, EvalCondition, RunAction, FailAction, OpenChain, OpenApproval,
     RecordGate, NotifyApprovers, RecordFailure, Complete
<1>2. ASSUME NEW c \in ChainIds, OpenChain(t, c)
      PROVE  QuorumInv'
  <2>1. /\ chain' = [chain EXCEPT ![c] = [status |-> "PENDING",
                                          required |-> CurrentStep(t).required]]
        /\ chain[c].status = "ABSENT" /\ UNCHANGED approval
    BY <1>2 DEF OpenChain
  <2>2. Settled(approval', chain')
    BY <2>1 DEF Settled, TypeOK, TablesOK
  <2>3. \A d \in ChainIds : chain'[d].status = "APPROVED" => chain[d].status = "APPROVED"
    BY <2>1 DEF TypeOK, TablesOK
  <2>4. \A a \in ApprovalIds : approval'[a].status = "PENDING" => approval'[a].chain = None
    BY <2>1 DEF QuorumInv, RowsOK
  <2> QED
    BY <1>1, <2>2, <2>3, <2>4, QuorumStays
<1>3. ASSUME NEW a \in ApprovalIds, OpenApproval(t, a)
      PROVE  QuorumInv'
  <2>1. /\ approval' = [approval EXCEPT ![a] = [NoApproval EXCEPT !.status = "PENDING"]]
        /\ approval[a].status = "ABSENT" /\ UNCHANGED chain
    BY <1>3 DEF OpenApproval
  <2>2. Settled(approval', chain')
    BY <2>1 DEF Settled, TypeOK, TablesOK
  <2>3. \A b \in ApprovalIds : approval'[b].status = "PENDING" => approval'[b].chain = None
    BY <2>1 DEF QuorumInv, RowsOK, TypeOK, TablesOK, NoApproval
  <2> QED
    BY <1>1, <2>1, <2>2, <2>3, QuorumStays
<1>4. UNCHANGED <<approval, chain>>
      \/ (\E c \in ChainIds : OpenChain(t, c)) \/ (\E a \in ApprovalIds : OpenApproval(t, a))
  BY DEF WorkerStep, StartStep, AdvanceStep, Take, CheckActive, CreateRun,
     LoadRun, EvalCondition, RunAction, FailAction,
     RecordGate, NotifyApprovers, RecordFailure, Complete, rows
<1> QED
  BY <1>1, <1>2, <1>3, <1>4, QuietStep

(* A request that only looks, or moves the run, or is over.                *)
LEMMA LookingKeepsQuorum ==
  ASSUME TypeOK, LocalsOK, QuorumInv, NEW q \in Requests,
         \/ Receive(q) \/ LoseRequest(q) \/ CheckApproval(q) \/ CheckChain(q)
         \/ CheckVoted(q) \/ CountVotes(q) \/ MoveRun(q) \/ EnqueueResume(q)
  PROVE  QuorumInv'
<1> DEFINE c == request[q]
<1>1. c \in RequestState /\ RequestOK(c) /\ request \in [Requests -> RequestState]
  BY DEF TypeOK, LocalsOK
<1>2. Counted(c, approval, chain)
  BY DEF QuorumInv
<1>3. UNCHANGED <<approval, chain>>
  BY DEF Receive, LoseRequest, ReceiveDecision, CheckApproval, CheckChain, CheckVoted,
     CountVotes, MoveRun, EnqueueResume, rows
<1>4. ASSUME NEW l, request' = [request EXCEPT ![q] = l], Counted(l, approval, chain)
      PROVE  QuorumInv'
  BY <1>1, <1>3, <1>4, QuietStep
<1>5. ASSUME Return(q) PROVE QuorumInv'
  BY <1>4, <1>5, IdleHasSeenNothing DEF Return
<1>6. ASSUME NEW u \in Users, NEW r \in RunIds, NEW d \in Verdict, ReceiveDecision(q, u, r, d)
      PROVE  QuorumInv'
  <2> DEFINE l == [pc |-> IF run[r].chain # None THEN "chain" ELSE "single",
                   user |-> u, decision |-> d, run |-> r, row |-> run[r], steps |-> steps]
  <2>1. Counted(l, approval, chain)
    BY DEF Counted
  <2>2. request' = [request EXCEPT ![q] = l]
    BY <1>6 DEF ReceiveDecision
  <2> HIDE DEF l
  <2> QED
    BY <1>1, <1>3, <2>1, <2>2, QuietStep
<1>7. ASSUME NEW pc, Now(q, pc), Counted([c EXCEPT !.pc = pc], approval, chain)
      PROVE  QuorumInv'
  BY <1>1, <1>3, <1>7, QuietStep DEF Now
<1>8. ASSUME CheckApproval(q) PROVE QuorumInv'
  <2>1. CASE Now(q, "write")
    <3>1. c.row.approval \in ApprovalIds /\ c.pc = "single"
      BY <1>1, <1>8 DEF CheckApproval, RequestOK
    <3>2. CASE approval[c.row.approval].status = "PENDING"
      BY <1>1, <1>7, <2>1, <3>1, <3>2 DEF Counted, RequestState, QuorumInv, RowsOK
    <3>3. CASE approval[c.row.approval].status # "PENDING"
      BY <1>5, <1>8, <3>3 DEF CheckApproval
    <3> QED
      BY <3>2, <3>3
  <2> QED
    BY <1>5, <1>8, <2>1 DEF CheckApproval
<1>9. ASSUME CheckChain(q) PROVE QuorumInv'
  <2>1. CASE chain[c.row.chain].status = "PENDING" /\ c.user # Author
    <3>1. Counted([c EXCEPT !.pc = "voted"], approval, chain)
      BY <1>1, <2>1 DEF Counted, RequestState
    <3> QED
      BY <1>7, <1>9, <2>1, <3>1 DEF CheckChain
  <2> QED
    BY <1>5, <1>9, <2>1 DEF CheckChain
<1>10. ASSUME CheckVoted(q) PROVE QuorumInv'
  <2>1. Counted([c EXCEPT !.pc = "vote"], approval, chain)
    BY <1>1, <1>2, <1>10 DEF Counted, RequestState, CheckVoted
  <2> QED
    BY <1>5, <1>7, <1>10, <2>1 DEF CheckVoted
<1>11. ASSUME CountVotes(q) PROVE QuorumInv'
  <2> DEFINE k == c.row.chain
             seen == VisibleVotes(c.user, c.run, k)
  <2>1. c.pc = "count" /\ k \in ChainIds
    BY <1>1, <1>11 DEF CountVotes, RequestOK
  <2>2. CASE Cardinality(seen) < chain[k].required
    BY <1>5, <1>11, <2>2 DEF CountVotes
  <2>3. CASE ~ (Cardinality(seen) < chain[k].required)
    <3>1. seen \subseteq Ballots(k, approval)
      BY DEF VisibleVotes, Votes, Ballots
    <3>2. IsFiniteSet(Ballots(k, approval))
      BY ConstantsAssumption, FS_Subset DEF Ballots
    <3>3. /\ Cardinality(seen) <= Cardinality(Ballots(k, approval))
          /\ IsFiniteSet(seen)
      BY <3>1, <3>2, FS_Subset
    <3>4. Cardinality(seen) \in Nat /\ Cardinality(Ballots(k, approval)) \in Nat
      BY <3>2, <3>3, FS_CardinalityType
    <3>5. chain[k].required \in Nat
      BY <2>1 DEF TypeOK, TablesOK, ChainRow
    <3> HIDE DEF seen
    <3>6. Full(k, approval, chain)
      BY <2>3, <3>3, <3>4, <3>5 DEF Full
    <3>7. Counted([c EXCEPT !.pc = "close"], approval, chain)
      BY <1>1, <1>2, <2>1, <3>6 DEF Counted, RequestState
    <3> USE DEF seen
    <3> QED
      BY <1>7, <1>11, <2>3, <3>7 DEF CountVotes
  <2> QED
    BY <2>2, <2>3
<1>12. ASSUME MoveRun(q) PROVE QuorumInv'
  <2>1. Counted([c EXCEPT !.pc = "enqueue"], approval, chain)
    BY <1>1 DEF Counted, RequestState
  <2>2. Return(q) \/ Now(q, "enqueue")
    BY <1>12 DEF MoveRun
  <2> QED
    BY <1>5, <1>7, <2>1, <2>2
<1> QED
  BY <1>5, <1>6, <1>8, <1>9, <1>10, <1>11, <1>12 DEF Receive, LoseRequest, EnqueueResume

(* The decision on a single gate writes a row that is no vote.             *)
LEMMA VerdictKeepsQuorum ==
  ASSUME TypeOK, LocalsOK, QuorumInv, NEW q \in Requests, WriteVerdict(q)
  PROVE  QuorumInv'
<1> DEFINE c == request[q]
           a == c.row.approval
<1>1. /\ c \in RequestState /\ RequestOK(c) /\ request \in [Requests -> RequestState]
      /\ approval \in [ApprovalIds -> ApprovalRow] /\ chain \in [ChainIds -> ChainRow]
  BY DEF TypeOK, TablesOK, LocalsOK
<1>2. /\ c.pc = "write" /\ a \in ApprovalIds /\ c.decision \in Verdict
      /\ approval[a].status # "ABSENT" /\ approval[a].chain = None
      /\ UNCHANGED chain
  BY <1>1 DEF QuorumInv, Counted, WriteVerdict, RequestOK
<1>3. CASE Return(q) /\ UNCHANGED approval
  BY <1>1, <1>2, <1>3, IdleHasSeenNothing, QuietStep DEF Return
<1>4. CASE /\ approval' = [approval EXCEPT ![a].status = c.decision, ![a].by = c.user]
           /\ Now(q, "move")
  <2>1. /\ \A b \in ApprovalIds : b # a => approval'[b] = approval[b]
        /\ approval'[a].status = c.decision /\ approval'[a].chain = None
    BY <1>1, <1>2, <1>4 DEF ApprovalRow
  <2>2. Settled(approval', chain')
    BY <1>2, <2>1 DEF Settled, Verdict
  <2>3. \A b \in ApprovalIds : approval'[b].status = "PENDING" => approval'[b].chain = None
    BY <2>1 DEF QuorumInv, RowsOK
  <2>4. Counted([c EXCEPT !.pc = "move"], approval', chain')
    BY <1>1 DEF Counted, RequestState
  <2>5. \A x \in Requests :
          request'[x] = request[x] \/ Counted(request'[x], approval', chain')
    BY <1>1, <1>4, <2>4 DEF Now
  <2> QED
    BY <1>1, <1>2, <2>2, <2>3, <2>5, QuorumStays
<1> QED
  BY <1>3, <1>4 DEF WriteVerdict

(* A vote goes into a row of its own.                                      *)
LEMMA VoteKeepsQuorum ==
  ASSUME TypeOK, LocalsOK, QuorumInv, NEW q \in Requests, NEW a \in ApprovalIds,
         CastVote(q, a)
  PROVE  QuorumInv'
<1> DEFINE c == request[q]
           pc == IF c.decision = "APPROVED" THEN "count" ELSE "close"
<1>1. /\ c \in RequestState /\ RequestOK(c) /\ request \in [Requests -> RequestState]
      /\ approval \in [ApprovalIds -> ApprovalRow] /\ chain \in [ChainIds -> ChainRow]
  BY DEF TypeOK, TablesOK, LocalsOK
<1>2. /\ c.pc = "vote" /\ c.row.chain \in ChainIds /\ c.decision \in Verdict
      /\ chain[c.row.chain].status # "ABSENT"
      /\ approval[a].status = "ABSENT" /\ UNCHANGED chain
  BY <1>1 DEF QuorumInv, Counted, CastVote, RequestOK
<1>3. CASE Return(q) /\ UNCHANGED approval
  BY <1>1, <1>2, <1>3, IdleHasSeenNothing, QuietStep DEF Return
<1>4. CASE /\ approval' = [approval EXCEPT ![a] =
                [status |-> c.decision, by |-> c.user, chain |-> c.row.chain]]
           /\ Now(q, pc)
  <2>1. /\ \A b \in ApprovalIds : b # a => approval'[b] = approval[b]
        /\ approval'[a].status = c.decision
    BY <1>1, <1>4
  <2>2. Settled(approval', chain')
    BY <1>2, <2>1 DEF Settled
  <2>3. \A b \in ApprovalIds : approval'[b].status = "PENDING" => approval'[b].chain = None
    BY <1>2, <2>1 DEF QuorumInv, RowsOK, Verdict
  <2>4. Counted([c EXCEPT !.pc = pc], approval', chain')
    BY <1>1, <1>2 DEF Counted, RequestState
  <2>5. \A x \in Requests :
          request'[x] = request[x] \/ Counted(request'[x], approval', chain')
    BY <1>1, <1>4, <2>4 DEF Now
  <2> QED
    BY <1>1, <1>2, <2>2, <2>3, <2>5, QuorumStays
<1> QED
  BY <1>3, <1>4 DEF CastVote

(* A chain is closed as approved by who has counted a quorum, or rejected. *)
LEMMA CloseKeepsQuorum ==
  ASSUME TypeOK, LocalsOK, QuorumInv, NEW q \in Requests, CloseChain(q)
  PROVE  QuorumInv'
<1> DEFINE c == request[q]
           k == c.row.chain
<1>1. /\ c \in RequestState /\ RequestOK(c) /\ request \in [Requests -> RequestState]
      /\ approval \in [ApprovalIds -> ApprovalRow] /\ chain \in [ChainIds -> ChainRow]
  BY DEF TypeOK, TablesOK, LocalsOK
<1>2. /\ c.pc = "close" /\ k \in ChainIds /\ c.decision \in Verdict
      /\ c.decision = "APPROVED" => Full(k, approval, chain)
      /\ chain' = [chain EXCEPT ![k].status = c.decision]
      /\ Now(q, "move") /\ UNCHANGED approval
  BY <1>1 DEF QuorumInv, Counted, CloseChain, RequestOK
<1>3. /\ chain' \in [ChainIds -> ChainRow]
      /\ \A d \in ChainIds : d # k => chain'[d] = chain[d]
      /\ chain'[k].status = c.decision /\ chain'[k].required = chain[k].required
  BY <1>1, <1>2 DEF ChainRow
<1>4. Settled(approval', chain')
  BY <1>2, <1>3 DEF Settled, Verdict
<1>5. \A d \in ChainIds : chain'[d].status = "APPROVED" =>
        chain[d].status = "APPROVED" \/ Full(d, approval', chain')
  BY <1>2, <1>3 DEF Full
<1>6. \A x \in Requests :
        request'[x] = request[x] \/ Counted(request'[x], approval', chain')
  <2>1. Counted([c EXCEPT !.pc = "move"], approval', chain')
    BY <1>1 DEF Counted, RequestState
  <2> QED
    BY <1>1, <1>2, <2>1 DEF Now
<1>7. \A b \in ApprovalIds : approval'[b].status = "PENDING" => approval'[b].chain = None
  BY <1>2 DEF QuorumInv, RowsOK
<1> QED
  BY <1>3, <1>4, <1>5, <1>6, <1>7, QuorumStays

LEMMA StepKeepsQuorum == TypeOK /\ LocalsOK /\ QuorumInv /\ [Next]_vars => QuorumInv'
<1> SUFFICES ASSUME TypeOK, LocalsOK, QuorumInv, [Next]_vars PROVE QuorumInv'
  OBVIOUS
<1>1. chain' \in [ChainIds -> ChainRow]
  BY TypeStep DEF TypeOK, TablesOK
<1>2. ASSUME UNCHANGED <<approval, chain, request>> PROVE QuorumInv'
  BY <1>2, QuietStep
<1>3. ASSUME NEW t \in Threads, WorkerStep(t) \/ FailJob(t) PROVE QuorumInv'
  BY <1>1, <1>2, <1>3, WorkerKeepsQuorum DEF FailJob, rows
<1>4. ASSUME NEW q \in Requests, Receive(q) \/ DecisionStep(q) \/ LoseRequest(q)
      PROVE  QuorumInv'
  BY <1>4, LookingKeepsQuorum, VerdictKeepsQuorum, VoteKeepsQuorum, CloseKeepsQuorum
     DEF DecisionStep
<1>5. CASE UNCHANGED vars
  BY <1>2, <1>5 DEF vars, rows
<1>6. CASE Next
  BY <1>2, <1>3, <1>4, <1>6 DEF Next, Trigger, EditRule, ToggleDelegation, Crash, rows
<1> QED
  BY <1>5, <1>6

(* An approved chain has its quorum of stored votes, however many requests *)
(* vote, count and close at once (decideChainedGate).                      *)
THEOREM QuorumIsStored == Spec => []QuorumStored
<1>1. TypeOK /\ LocalsOK /\ QuorumInv /\ [Next]_vars
        => (TypeOK /\ LocalsOK /\ QuorumInv)'
  BY TypeStep, StepKeepsQuorum
<1>2. Init => TypeOK /\ LocalsOK /\ QuorumInv
  BY TypeInit, QuorumInit
<1>3. QuorumInv => QuorumStored
  BY DEF QuorumInv, RowsOK, Full, Ballots, QuorumStored, Votes
<1> QED
  BY <1>1, <1>2, <1>3, PTL DEF Spec

-----------------------------------------------------------------------------
(* WorkflowEngine implements GatedWorkflow, for every rule, every number   *)
(* of consumers and requests and any number of faults.                     *)

(* Both modules mean the same by "reachable".                              *)
LEMMA SameGraph ==
  ASSUME NEW s, NEW v, NEW i, Reachable(s, v, i)
  PROVE  Gated!Reachable(s, v, i)
<1>1. \A goto, o : Gated!Jump(s, goto, o) = Jump(s, goto, o)
  BY DEF Jump, Gated!Jump, IsStepId, Gated!IsStepId, IndexOf, Gated!IndexOf
<1>2. \A k : Gated!Successors(s, v, k) = Successors(s, v, k)
  BY <1>1 DEF Successors, Gated!Successors
<1>3. \A S : Gated!ClosedUnder(s, v, S) = ClosedUnder(s, v, S)
  BY <1>2 DEF ClosedUnder, Gated!ClosedUnder
<1>4. QED
  BY <1>3 DEF Reachable, Gated!Reachable

LEMMA InitGated == Init => Gated!Init
<1> SUFFICES ASSUME Init PROVE Gated!Init
  OBVIOUS
<1>1. \A r \in RunIds, s \in StepIds : ~ (done[r][s] > 0)
  BY DEF Init
<1>2. Effects = [r \in RunIds |-> {}]
  BY <1>1 DEF Effects
<1>3. QED
  BY <1>2 DEF Init, Gated!Init

(* The edit flag is never taken back.                                      *)
LEMMA EditedStays ==
  ASSUME [Next]_vars, edited PROVE edited'
<1>1. ASSUME NEW t \in Threads, WorkerStep(t) PROVE UNCHANGED edited
  BY <1>1 DEF WorkerStep, StartStep, AdvanceStep, Take, CheckActive, CreateRun,
     LoadRun, EvalCondition, RunAction, FailAction, OpenChain, OpenApproval,
     RecordGate, NotifyApprovers, RecordFailure, Complete, history
<1>2. ASSUME NEW q \in Requests, Receive(q) \/ DecisionStep(q) \/ LoseRequest(q)
      PROVE  UNCHANGED edited
  BY <1>2 DEF Receive, DecisionStep, LoseRequest, ReceiveDecision, CheckApproval,
     WriteVerdict, CheckChain, CheckVoted, CastVote, CountVotes, CloseChain,
     MoveRun, EnqueueResume, history
<1>3. QED
  BY <1>1, <1>2 DEF Next, Trigger, EditRule, ToggleDelegation, Crash, FailJob, vars, history

(* Executing an action is the abstract Perform at the position held.       *)
LEMMA PerformStep ==
  ASSUME JustifiedInv, ~ edited, NEW t \in Threads, RunAction(t)
  PROVE  \E r \in RunIds, i \in DOMAIN Published : Gated!Perform(r, i)
<1> DEFINE l == thread[t]
           id == Published[l.index].id
<1>1. ThreadOK(l) /\ ThreadPosition(l, verdicts) /\ TypeOK
  BY DEF JustifiedInv, LocalsOK, PositionsOK
<1>2. /\ l.pc = "step" /\ l.index \in DOMAIN Published /\ l.steps = Published
      /\ Published[l.index].type = "ACTION" /\ l.run \in RunIds
      /\ Reachable(Published, verdicts[l.run], l.index)
  BY <1>1 DEF RunAction, AtStep, ThreadPosition, ThreadOK
<1>3. id \in StepIds
  <2>1. Published[l.index] \in Step
    BY <1>2, ConstantsAssumption
  <2>2. QED
    BY <2>1 DEF Step
<1>4. \A r \in RunIds : \A s \in StepIds :
        done'[r][s] > 0 <=> (done[r][s] > 0 \/ (r = l.run /\ s = id))
  <2>1. done' = [done EXCEPT ![l.run][id] = IF @ < 2 THEN @ + 1 ELSE @]
    BY <1>2 DEF RunAction, CurrentStep
  <2>2. done \in [RunIds -> [StepIds -> Nat]]
    BY <1>1 DEF TypeOK, HistoryOK
  <2>3. done[l.run][id] \in Nat /\ done'[l.run][id] > 0
    BY <1>2, <1>3, <2>1, <2>2
  <2>4. \A r \in RunIds : \A s \in StepIds :
          ~ (r = l.run /\ s = id) => done'[r][s] = done[r][s]
    BY <1>2, <1>3, <2>1, <2>2
  <2>5. QED
    BY <2>3, <2>4
<1>5. Effects' = [Effects EXCEPT ![l.run] = @ \cup {id}]
  <2> DEFINE Ran(r) == {s \in StepIds : done[r][s] > 0}
             RanNext(r) == {s \in StepIds : done'[r][s] > 0}
  <2>1. RanNext(l.run) = Ran(l.run) \cup {id}
    BY <1>2, <1>3, <1>4
  <2>2. \A r \in RunIds \ {l.run} : RanNext(r) = Ran(r)
    BY <1>4
  <2>3. Effects = [r \in RunIds |-> Ran(r)] /\ Effects' = [r \in RunIds |-> RanNext(r)]
    BY DEF Effects
  <2> HIDE DEF Ran, RanNext, id
  <2>4. QED
    BY <1>2, <2>1, <2>2, <2>3
<1>6. UNCHANGED <<verdicts, edited>>
  BY DEF RunAction
<1>7. Gated!Perform(l.run, l.index)
  BY <1>2, <1>5, <1>6, SameGraph DEF Gated!Perform
<1>8. QED
  BY <1>2, <1>7

(* Storing a verdict is the abstract Decide at the gate the run waited at. *)
LEMMA DecideStep ==
  ASSUME JustifiedInv, ~ edited, NEW q \in Requests, UNCHANGED Effects,
         WriteVerdict(q) \/ CloseChain(q)
  PROVE  \/ UNCHANGED <<Effects, verdicts, edited>>
         \/ \E r \in RunIds, i \in DOMAIN Published, d \in {"APPROVED", "REJECTED"} :
              Gated!Decide(r, i, d)
<1> DEFINE c == request[q]
<1>1. RequestOK(c) /\ RequestPosition(c, verdicts)
  BY DEF JustifiedInv, LocalsOK, PositionsOK
<1>2. /\ c.run \in RunIds /\ c.decision \in {"APPROVED", "REJECTED"}
      /\ IsGate(c.row.index) /\ Reachable(Published, verdicts[c.run], c.row.index)
  BY <1>1 DEF WriteVerdict, CloseChain, RequestOK, RequestPosition, Verdict
<1>3. UNCHANGED edited
  BY DEF WriteVerdict, CloseChain
<1>4. \/ UNCHANGED verdicts
      \/ verdicts' = [verdicts EXCEPT ![c.run] = @ \cup {<<c.row.index, c.decision>>}]
  BY DEF WriteVerdict, CloseChain
<1>5. CASE verdicts' = [verdicts EXCEPT ![c.run] = @ \cup {<<c.row.index, c.decision>>}]
  <2>1. Gated!Decide(c.run, c.row.index, c.decision)
    BY <1>2, <1>3, <1>5, SameGraph DEF Gated!Decide, IsGate
  <2>2. QED
    BY <1>2, <2>1 DEF IsGate
<1>6. QED
  BY <1>3, <1>4, <1>5

LEMMA StepGated ==
  ASSUME JustifiedInv, [Next]_vars
  PROVE  [Gated!Next]_<<Effects, verdicts, edited>>
<1> DEFINE Goal == [Gated!Next]_<<Effects, verdicts, edited>>
<1>1. ASSUME UNCHANGED done PROVE UNCHANGED Effects
  BY <1>1 DEF Effects
<1>2. CASE edited'
  <2>1. edited' = TRUE \/ UNCHANGED <<done, verdicts, edited>>
    BY <1>2 DEF Next, Trigger, EditRule, ToggleDelegation, JustifiedInv, TypeOK, HistoryOK,
       Crash, FailJob, vars, history, WorkerStep, StartStep, AdvanceStep, Take, CheckActive,
       CreateRun, LoadRun, EvalCondition, RunAction, FailAction, OpenChain, OpenApproval,
       RecordGate, NotifyApprovers, RecordFailure, Complete, Receive, DecisionStep, LoseRequest,
       ReceiveDecision, CheckApproval, WriteVerdict, CheckChain, CheckVoted, CastVote,
       CountVotes, CloseChain, MoveRun, EnqueueResume
  <2>2. QED
    BY <1>1, <2>1 DEF Gated!Next, Gated!Edit
<1>3. CASE ~ edited'
  <2>1. ~ edited
    BY <1>3, EditedStays
  <2>2. ASSUME NEW t \in Threads, WorkerStep(t) PROVE Goal
    <3>1. CASE RunAction(t)
      BY <2>1, <3>1, PerformStep DEF Gated!Next
    <3>2. CASE ~ RunAction(t)
      <4>1. UNCHANGED <<done, verdicts, edited>>
        BY <2>2, <3>2 DEF WorkerStep, StartStep, AdvanceStep, Take, CheckActive, CreateRun,
           LoadRun, EvalCondition, FailAction, OpenChain, OpenApproval,
           RecordGate, NotifyApprovers, RecordFailure, Complete, history
      <4>2. QED
        BY <1>1, <4>1
    <3>3. QED
      BY <3>1, <3>2
  <2>3. ASSUME NEW q \in Requests, Receive(q) \/ DecisionStep(q) \/ LoseRequest(q)
        PROVE  Goal
    <3>1. UNCHANGED Effects
      <4>1. UNCHANGED done
        BY <2>3 DEF Receive, DecisionStep, LoseRequest, ReceiveDecision, CheckApproval,
           WriteVerdict, CheckChain, CheckVoted, CastVote, CountVotes, CloseChain,
           MoveRun, EnqueueResume, history
      <4>2. QED
        BY <1>1, <4>1
    <3>2. CASE WriteVerdict(q) \/ CloseChain(q)
      BY <2>1, <3>1, <3>2, DecideStep DEF Gated!Next
    <3>3. CASE ~ (WriteVerdict(q) \/ CloseChain(q))
      <4>1. UNCHANGED <<verdicts, edited>>
        BY <2>3, <3>3 DEF Receive, DecisionStep, LoseRequest, ReceiveDecision, CheckApproval,
           CheckChain, CheckVoted, CastVote, CountVotes, MoveRun, EnqueueResume, history
      <4>2. QED
        BY <3>1, <4>1
    <3>4. QED
      BY <3>2, <3>3
  <2>4. CASE UNCHANGED vars
    BY <1>1, <2>4 DEF vars, history
  <2>5. CASE \/ \E kind \in {"event", "schedule"} : Trigger(kind)
             \/ \E d \in Delegations : ToggleDelegation(d)
             \/ \E p \in Processes : Crash(p)
             \/ \E t \in Threads : FailJob(t)
    BY <1>1, <2>5 DEF Trigger, ToggleDelegation, Crash, FailJob, history
  <2>6. CASE \E e \in Editions : EditRule(e)
    BY <1>3, <2>6 DEF EditRule
  <2>7. QED
    BY <2>2, <2>3, <2>4, <2>5, <2>6 DEF Next
<1>4. QED
  BY <1>2, <1>3

(* The engine implements the gated workflow: with all its rows, jobs,      *)
(* crashes and races, an effect or a decision happens only where the       *)
(* abstract workflow has one (advanceRun, decideAutomationRun).            *)
THEOREM EngineImplementsGated == Spec => ImplementsGated
<1>1. Init => Gated!Init
  BY InitGated
<1>2. JustifiedInv /\ [Next]_vars => [Gated!Next]_<<Effects, verdicts, edited>>
  BY StepGated
<1>3. QED
  BY <1>1, <1>2, Justified, PTL DEF Spec, ImplementsGated, Gated!Spec

=============================================================================
