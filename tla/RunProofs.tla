------------------------------ MODULE RunProofs ------------------------------
(***************************************************************************)
(* Proofs about the life of a run, for any number of runs, consumers and   *)
(* requests: who owns it, who may write its row, that it is walked by one  *)
(* consumer at a time, executes a step once, waits only where it can be    *)
(* decided, and is the only active one of its starter.                     *)
(*                                                                         *)
(* Conditions the code does not ensure by itself are named and stand in    *)
(* the ASSUME of the theorem: of the steps (GotosExist, ForwardOnly,       *)
(* GatesAlike, InStages, NoEdits) and of the consumers (OneResumer: one    *)
(* worker process).                                                        *)
(***************************************************************************)
EXTENDS WorkflowProofs

-----------------------------------------------------------------------------
(* What the steps of one consumer leave alone.                             *)
LEMMA WorkerFrame ==
  ASSUME TypeOK, NEW t \in Threads, WorkerStep(t)
  PROVE  /\ UNCHANGED <<steps, standIn, request, triggers, faults, verdicts,
                        overlapped, edited, stranded>>
         /\ \A s \in Threads : s # t => thread'[s] = thread[s]
         /\ (\E j \in Jobs : Take(t, j)) \/ UNCHANGED queue
<1>1. ASSUME NEW j \in Jobs, Take(t, j)
      PROVE  UNCHANGED <<steps, standIn, request, triggers, faults, verdicts, overlapped,
                         edited, stranded>>
  BY <1>1 DEF Take, history
<1>2. ASSUME StartStep(t)
      PROVE  UNCHANGED <<steps, standIn, request, triggers, faults, verdicts, overlapped,
                         edited, stranded, queue>>
  BY <1>2 DEF StartStep, CheckActive, CreateRun, history
<1>3. ASSUME AdvanceStep(t)
      PROVE  UNCHANGED <<steps, standIn, request, triggers, faults, verdicts, overlapped,
                         edited, stranded, queue>>
  BY <1>3 DEF AdvanceStep, LoadRun, EvalCondition, RunAction, FailAction, OpenChain,
     OpenApproval, RecordGate, NotifyApprovers, RecordFailure, Complete, history
<1>4. \E l : Become(t, l)
  <2>1. ASSUME NEW j \in Jobs, Take(t, j) PROVE \E l : Become(t, l)
    BY <2>1 DEF Take
  <2>2. ASSUME StartStep(t) PROVE \E l : Become(t, l)
    BY <2>2 DEF StartStep, CheckActive, CreateRun, Finish
  <2>3. ASSUME AdvanceStep(t) PROVE \E l : Become(t, l)
    <3>1. ASSUME EvalCondition(t) PROVE \E l : Become(t, l)
      BY <3>1 DEF EvalCondition, Finish
    <3> QED
      BY <2>3, <3>1 DEF AdvanceStep, LoadRun, RunAction, FailAction, OpenChain,
         OpenApproval, RecordGate, NotifyApprovers, RecordFailure, Complete, Finish
  <2> QED
    BY <2>1, <2>2, <2>3 DEF WorkerStep
<1>5. \A s \in Threads : s # t => thread'[s] = thread[s]
  BY <1>4 DEF Become, TypeOK
<1> QED
  BY <1>1, <1>2, <1>3, <1>5 DEF WorkerStep

(* What the steps of one request leave alone.                              *)
LEMMA RequestFrame ==
  ASSUME TypeOK, NEW q \in Requests, Receive(q) \/ DecisionStep(q) \/ LoseRequest(q)
  PROVE  /\ UNCHANGED <<steps, standIn, thread, triggers, edited, done>>
         /\ \A p \in Requests : p # q => request'[p] = request[p]
         /\ EnqueueResume(q) \/ UNCHANGED queue
         /\ MoveRun(q) \/ UNCHANGED run
         /\ LoseRequest(q) \/ UNCHANGED faults
         /\ WriteVerdict(q) \/ CloseChain(q) \/ UNCHANGED overlapped
         /\ WriteVerdict(q) \/ (\E a \in ApprovalIds : CastVote(q, a)) \/ UNCHANGED approval
         /\ CloseChain(q) \/ UNCHANGED chain
<1>1. UNCHANGED <<steps, standIn, thread, triggers, edited, done>>
  BY DEF Receive, LoseRequest, ReceiveDecision, DecisionStep, CheckApproval, WriteVerdict,
     CheckChain, CheckVoted, CastVote, CountVotes, CloseChain, MoveRun, EnqueueResume, history
<1>2. \E l : request' = [request EXCEPT ![q] = l]
  BY DEF Receive, LoseRequest, ReceiveDecision, DecisionStep, CheckApproval, WriteVerdict,
     CheckChain, CheckVoted, CastVote, CountVotes, CloseChain, MoveRun, EnqueueResume, Now, Return
<1>3. \A p \in Requests : p # q => request'[p] = request[p]
  BY <1>2 DEF TypeOK
<1>4. /\ EnqueueResume(q) \/ UNCHANGED queue
      /\ LoseRequest(q) \/ UNCHANGED faults
      /\ WriteVerdict(q) \/ CloseChain(q) \/ UNCHANGED overlapped
  BY DEF Receive, LoseRequest, ReceiveDecision, DecisionStep, CheckApproval, WriteVerdict,
     CheckChain, CheckVoted, CastVote, CountVotes, CloseChain, MoveRun, EnqueueResume, history
<1>5. /\ MoveRun(q) \/ UNCHANGED run
      /\ WriteVerdict(q) \/ (\E a \in ApprovalIds : CastVote(q, a)) \/ UNCHANGED approval
      /\ CloseChain(q) \/ UNCHANGED chain
  BY DEF Receive, LoseRequest, ReceiveDecision, DecisionStep, CheckApproval, WriteVerdict,
     CheckChain, CheckVoted, CastVote, CountVotes, CloseChain, MoveRun, EnqueueResume, rows
<1> QED
  BY <1>1, <1>3, <1>4, <1>5

(* What a consumer turns to, action by action.                             *)
SameRun(n, l) == n.run = l.run /\ n.job = l.job
SameWalk(n, l) == SameRun(n, l) /\ n.steps = l.steps

WorkerTurn(t, l, n) ==
  \/ n = IdleThread /\ UNCHANGED queue
  \/ \E j \in Jobs : /\ Take(t, j) /\ SameRun(n, [run |-> j.run, job |-> j])
                     /\ n.pc = IF j.kind = "resume" THEN "load" ELSE "check"
  \/ CheckActive(t) /\ l.pc = "check" /\ n.pc = "create" /\ SameRun(n, l)
  \/ \E r \in RunIds : /\ CreateRun(t, r) /\ l.pc = "create"
                       /\ n.pc = "load" /\ n.run = r /\ n.job = l.job
  \/ /\ LoadRun(t) /\ l.pc = "load" /\ run[l.run].status = "RUNNING"
     /\ n.pc = "step" /\ SameRun(n, l) /\ n.steps = steps /\ n.index = run[l.run].index
  \/ /\ EvalCondition(t) \/ RunAction(t)
     /\ l.pc = "step" /\ n.pc = "step" /\ SameWalk(n, l)
  \/ /\ FailAction(t) /\ l.pc = "step" /\ n.pc = "fail" /\ SameWalk(n, l)
     /\ n.index = l.index
  \/ /\ \/ \E c \in ChainIds : OpenChain(t, c) /\ n.opened = c
        \/ \E a \in ApprovalIds : OpenApproval(t, a) /\ n.opened = a
     /\ l.pc = "step" /\ n.pc = "gate" /\ SameWalk(n, l) /\ n.index = l.index
  \/ RecordGate(t) /\ l.pc = "gate" /\ n.pc = "notify" /\ SameWalk(n, l)

LEMMA WorkerTurns ==
  ASSUME TypeOK, LocalsOK, NEW t \in Threads, WorkerStep(t)
  PROVE  WorkerTurn(t, thread[t], thread'[t])
<1> DEFINE l == thread[t]
           n == thread'[t]
<1>1. l \in ThreadState /\ IdleThread \in ThreadState
  BY DEF TypeOK, IdleThread, ThreadState
<1>2. ASSUME NEW m, Become(t, m) PROVE n = m
  BY <1>2 DEF Become, TypeOK
<1>3. ASSUME NEW j \in Jobs, Take(t, j)
      PROVE  /\ SameRun(n, [run |-> j.run, job |-> j])
             /\ n.pc = IF j.kind = "resume" THEN "load" ELSE "check"
  BY <1>1, <1>2, <1>3 DEF Take, SameRun, IdleThread
<1>4. ASSUME CheckActive(t)
      PROVE  n = IdleThread \/ (l.pc = "check" /\ n.pc = "create" /\ SameRun(n, l))
  BY <1>1, <1>2, <1>4 DEF CheckActive, SameRun, ThreadState, Finish
<1>5. ASSUME NEW r \in RunIds, CreateRun(t, r)
      PROVE  l.pc = "create" /\ n.pc = "load" /\ n.run = r /\ n.job = l.job
  BY <1>1, <1>2, <1>5 DEF CreateRun, ThreadState
<1>6. ASSUME LoadRun(t)
      PROVE  \/ n = IdleThread
             \/ /\ l.pc = "load" /\ run[l.run].status = "RUNNING"
                /\ n.pc = "step" /\ SameRun(n, l) /\ n.steps = steps /\ n.index = run[l.run].index
  <2>1. CASE run[l.run].status # "RUNNING"
    BY <1>2, <1>6, <2>1 DEF LoadRun, Finish
  <2>2. CASE run[l.run].status = "RUNNING"
    <3>1. Become(t, [l EXCEPT !.pc = "step", !.steps = steps, !.index = run[l.run].index])
      BY <1>6, <2>2 DEF LoadRun
    <3>2. n = [l EXCEPT !.pc = "step", !.steps = steps, !.index = run[l.run].index]
      BY <1>2, <3>1
    <3> QED
      BY <1>1, <1>6, <2>2, <3>2 DEF LoadRun, SameRun, ThreadState
  <2> QED
    BY <2>1, <2>2
<1>7. ASSUME EvalCondition(t) \/ RunAction(t)
      PROVE  n = IdleThread \/ (l.pc = "step" /\ n.pc = "step" /\ SameWalk(n, l))
  <2>1. l.pc = "step"
    BY <1>7 DEF EvalCondition, RunAction, AtStep
  <2>2. Finish(t) \/ \E i : Become(t, [l EXCEPT !.index = i])
    BY <1>7 DEF EvalCondition, RunAction
  <2>3. n = IdleThread \/ \E i : n = [l EXCEPT !.index = i]
    BY <1>2, <2>2 DEF Finish
  <2> QED
    BY <1>1, <2>1, <2>3 DEF SameWalk, SameRun, ThreadState
<1>8. ASSUME FailAction(t)
      PROVE  l.pc = "step" /\ n.pc = "fail" /\ SameWalk(n, l) /\ n.index = l.index
  BY <1>1, <1>2, <1>8 DEF FailAction, AtStep, SameWalk, SameRun, ThreadState
<1>9. ASSUME NEW x, Become(t, [l EXCEPT !.pc = "gate", !.opened = x]), l.pc = "step"
      PROVE  n.opened = x /\ n.pc = "gate" /\ SameWalk(n, l) /\ n.index = l.index
  BY <1>1, <1>2, <1>9 DEF SameWalk, SameRun, ThreadState
<1>10. ASSUME NEW c \in ChainIds, OpenChain(t, c)
       PROVE  n.opened = c /\ l.pc = "step" /\ n.pc = "gate" /\ SameWalk(n, l) /\ n.index = l.index
  BY <1>9, <1>10 DEF OpenChain, AtStep
<1>11. ASSUME NEW a \in ApprovalIds, OpenApproval(t, a)
       PROVE  n.opened = a /\ l.pc = "step" /\ n.pc = "gate" /\ SameWalk(n, l) /\ n.index = l.index
  BY <1>9, <1>11 DEF OpenApproval, AtStep
<1>12. ASSUME RecordGate(t)
       PROVE  l.pc = "gate" /\ n.pc = "notify" /\ SameWalk(n, l)
  BY <1>1, <1>2, <1>12 DEF RecordGate, SameWalk, SameRun, ThreadState
<1>13. ASSUME NotifyApprovers(t) \/ RecordFailure(t) \/ Complete(t) PROVE n = IdleThread
  BY <1>2, <1>13 DEF NotifyApprovers, RecordFailure, Complete, Finish
<1>14. (\E j \in Jobs : Take(t, j)) \/ UNCHANGED queue
  BY WorkerFrame
<1>15. CASE StartStep(t)
  BY <1>4, <1>5, <1>15 DEF StartStep, CheckActive, WorkerTurn
<1>16. CASE AdvanceStep(t)
  <2>1. UNCHANGED queue
    BY <1>16 DEF AdvanceStep, LoadRun, EvalCondition, RunAction, FailAction, OpenChain,
       OpenApproval, RecordGate, NotifyApprovers, RecordFailure, Complete
  <2> QED
    BY <1>6, <1>7, <1>8, <1>10, <1>11, <1>12, <1>13, <1>16, <2>1
       DEF AdvanceStep, WorkerTurn
<1> QED
  BY <1>3, <1>15, <1>16 DEF WorkerStep, WorkerTurn

(* What a request turns to.                                                *)
SameCall(d, c) ==
  /\ d.user = c.user /\ d.decision = c.decision /\ d.run = c.run
  /\ d.row = c.row /\ d.steps = c.steps

RequestTurn(q, c, d) ==
  \/ d = IdleRequest
  \/ \E u \in Users, r \in RunIds, v \in Verdict :
       /\ ReceiveDecision(q, u, r, v)
       /\ d = [pc |-> IF run[r].chain # None THEN "chain" ELSE "single",
               user |-> u, decision |-> v, run |-> r, row |-> run[r], steps |-> steps]
  \/ /\ SameCall(d, c)
     /\ \/ /\ CheckApproval(q) /\ c.pc = "single" /\ d.pc = "write" /\ c.user # Author
           /\ approval[c.row.approval].status = "PENDING"
        \/ WriteVerdict(q) /\ c.pc = "write" /\ d.pc = "move"
        \/ /\ CheckChain(q) /\ c.pc = "chain" /\ d.pc = "voted" /\ c.user # Author
           /\ chain[c.row.chain].status = "PENDING"
        \/ CheckVoted(q) /\ c.pc = "voted" /\ d.pc = "vote"
        \/ /\ \E a \in ApprovalIds : CastVote(q, a)
           /\ c.pc = "vote" /\ d.pc \in {"count", "close"}
        \/ CountVotes(q) /\ c.pc = "count" /\ d.pc = "close"
        \/ CloseChain(q) /\ c.pc = "close" /\ d.pc = "move"
        \/ MoveRun(q) /\ c.pc = "move" /\ d.pc = "enqueue"

LEMMA RequestTurns ==
  ASSUME TypeOK, LocalsOK, NEW q \in Requests, Receive(q) \/ DecisionStep(q) \/ LoseRequest(q)
  PROVE  RequestTurn(q, request[q], request'[q])
<1> DEFINE c == request[q]
           d == request'[q]
<1>1. c \in RequestState /\ request \in [Requests -> RequestState]
  BY DEF TypeOK
<1>2. ASSUME Return(q) PROVE d = IdleRequest
  BY <1>1, <1>2 DEF Return
<1>3. ASSUME NEW pc, Now(q, pc) PROVE d.pc = pc /\ SameCall(d, c)
  <2>1. d = [c EXCEPT !.pc = pc]
    BY <1>1, <1>3 DEF Now
  <2> QED
    BY <1>1, <2>1 DEF SameCall, RequestState
<1>4. ASSUME Receive(q)
      PROVE  \E u \in Users, r \in RunIds, v \in Verdict :
              /\ ReceiveDecision(q, u, r, v)
              /\ d = [pc |-> IF run[r].chain # None THEN "chain" ELSE "single",
                      user |-> u, decision |-> v, run |-> r, row |-> run[r], steps |-> steps]
  <2>1. PICK u \in Users, r \in RunIds, v \in Verdict : ReceiveDecision(q, u, r, v)
    BY <1>4 DEF Receive
  <2> DEFINE m == [pc |-> IF run[r].chain # None THEN "chain" ELSE "single",
                   user |-> u, decision |-> v, run |-> r, row |-> run[r], steps |-> steps]
  <2>2. request' = [request EXCEPT ![q] = m]
    BY <2>1 DEF ReceiveDecision
  <2> HIDE DEF m
  <2>3. d = m
    BY <1>1, <2>2
  <2> USE DEF m
  <2> QED
    BY <2>1, <2>3
<1>5. ASSUME CheckApproval(q)
      PROVE  \/ d = IdleRequest
             \/ /\ SameCall(d, c) /\ c.pc = "single" /\ d.pc = "write" /\ c.user # Author
                /\ approval[c.row.approval].status = "PENDING"
  BY <1>2, <1>3, <1>5 DEF CheckApproval
<1>6. ASSUME WriteVerdict(q)
      PROVE  d = IdleRequest \/ (SameCall(d, c) /\ c.pc = "write" /\ d.pc = "move")
  BY <1>2, <1>3, <1>6 DEF WriteVerdict
<1>7. ASSUME CheckChain(q)
      PROVE  \/ d = IdleRequest
             \/ /\ SameCall(d, c) /\ c.pc = "chain" /\ d.pc = "voted" /\ c.user # Author
                /\ chain[c.row.chain].status = "PENDING"
  BY <1>2, <1>3, <1>7 DEF CheckChain
<1>8. ASSUME CheckVoted(q)
      PROVE  d = IdleRequest \/ (SameCall(d, c) /\ c.pc = "voted" /\ d.pc = "vote")
  BY <1>2, <1>3, <1>8 DEF CheckVoted
<1>9. ASSUME NEW a \in ApprovalIds, CastVote(q, a)
      PROVE  d = IdleRequest \/ (SameCall(d, c) /\ c.pc = "vote" /\ d.pc \in {"count", "close"})
  BY <1>2, <1>3, <1>9 DEF CastVote
<1>10. ASSUME CountVotes(q)
       PROVE  d = IdleRequest \/ (SameCall(d, c) /\ c.pc = "count" /\ d.pc = "close")
  BY <1>2, <1>3, <1>10 DEF CountVotes
<1>11. ASSUME CloseChain(q)
       PROVE  SameCall(d, c) /\ c.pc = "close" /\ d.pc = "move"
  BY <1>3, <1>11 DEF CloseChain
<1>12. ASSUME MoveRun(q)
       PROVE  d = IdleRequest \/ (SameCall(d, c) /\ c.pc = "move" /\ d.pc = "enqueue")
  BY <1>2, <1>3, <1>12 DEF MoveRun
<1>13. ASSUME EnqueueResume(q) \/ LoseRequest(q) PROVE d = IdleRequest
  BY <1>2, <1>13 DEF EnqueueResume, LoseRequest
<1>14. CASE DecisionStep(q)
  BY <1>5, <1>6, <1>7, <1>8, <1>9, <1>10, <1>11, <1>12, <1>13, <1>14 DEF DecisionStep, RequestTurn
<1> QED
  BY <1>4, <1>13, <1>14 DEF RequestTurn

-----------------------------------------------------------------------------
(* Every list of steps in anyone's hands is one the rule has had.          *)
Stored == Editions \cup {Published}
Midway == {"step", "gate", "fail"}
Keeps(l) == l.pc \in Midway => l.steps \in Stored

StoredInv ==
  /\ steps \in Stored
  /\ \A t \in Threads : Keeps(thread[t])
  /\ \A q \in Requests : request[q].pc # "idle" => request[q].steps \in Stored

LEMMA StoredInit == Init => StoredInv
BY DEF Init, StoredInv, Stored, Keeps, Midway, IdleThread, IdleRequest

LEMMA StoredStep ==
  ASSUME TypeOK, LocalsOK, StoredInv, [Next]_vars
  PROVE  StoredInv'
<1>1. ASSUME UNCHANGED <<steps, thread, request>> PROVE StoredInv'
  BY <1>1 DEF StoredInv, Keeps
<1>2. Keeps(IdleThread)
  BY DEF Keeps, Midway, IdleThread
<1>3. ASSUME NEW t \in Threads, UNCHANGED <<steps, request>>, Keeps(thread'[t]),
             \A s \in Threads : s # t => thread'[s] = thread[s]
      PROVE  StoredInv'
  BY <1>3 DEF StoredInv
<1>4. ASSUME NEW t \in Threads, WorkerStep(t) PROVE StoredInv'
  <2>1. Keeps(thread'[t])
    <3> DEFINE l == thread[t]
               n == thread'[t]
    <3>1. Keeps(l) /\ steps \in Stored
      BY DEF StoredInv
    <3>2. n = IdleThread \/ n.pc \notin Midway \/ n.steps = steps \/ (l.pc \in Midway /\ n.steps = l.steps)
      <4>1. WorkerTurn(t, l, n)
        BY <1>4, WorkerTurns
      <4> HIDE DEF l, n
      <4> QED
        BY <4>1 DEF WorkerTurn, Midway, SameWalk
    <3> QED
      BY <1>2, <3>1, <3>2 DEF Keeps
  <2> QED
    BY <1>3, <1>4, <2>1, WorkerFrame
<1>5. ASSUME NEW q \in Requests, Receive(q) \/ DecisionStep(q) \/ LoseRequest(q)
      PROVE  StoredInv'
  <2> DEFINE c == request[q]
             d == request'[q]
  <2>1. d.pc # "idle" => d.steps = steps \/ (c.pc # "idle" /\ d.steps = c.steps)
    <3>1. RequestTurn(q, c, d)
      BY <1>5, RequestTurns
    <3> HIDE DEF c, d
    <3> QED
      BY <3>1 DEF RequestTurn, SameCall, IdleRequest
  <2> QED
    BY <1>5, <2>1, RequestFrame DEF StoredInv, Keeps
<1>6. ASSUME NEW t \in Threads, FailJob(t) PROVE StoredInv'
  <2>1. UNCHANGED <<steps, request>> /\ Become(t, IdleThread)
    BY <1>6 DEF FailJob, Finish
  <2> QED
    BY <1>2, <1>3, <2>1 DEF Become, TypeOK
<1>7. ASSUME NEW p \in Processes, Crash(p) PROVE StoredInv'
  <2>1. UNCHANGED <<steps, request>> /\ \A t \in Threads : thread'[t] \in {IdleThread, thread[t]}
    BY <1>7 DEF Crash
  <2> QED
    BY <1>2, <2>1 DEF StoredInv
<1>8. ASSUME NEW e \in Editions, EditRule(e) PROVE StoredInv'
  BY <1>8 DEF EditRule, StoredInv, Stored, Keeps
<1>9. CASE UNCHANGED vars
  BY <1>1, <1>9 DEF vars
<1>10. CASE Next
  BY <1>1, <1>4, <1>5, <1>6, <1>7, <1>8, <1>10 DEF Next, Trigger, ToggleDelegation
<1> QED
  BY <1>9, <1>10

-----------------------------------------------------------------------------
(* A RUNNING run has an owner: a consumer that walks it, or a resume job   *)
(* that is queued or about to be.                                          *)
Walks(l, r) == l.run = r /\ (l.pc = "load" \/ l.pc \in Midway)
Owned(r) ==
  \/ \E t \in Threads : Walks(thread[t], r)
  \/ queue[ResumeJob(r)] > 0
  \/ \E q \in Requests : request[q].pc = "enqueue" /\ request[q].run = r
OwnedInv == faults = 0 => \A r \in RunIds : run[r].status = "RUNNING" => Owned(r)

(* Every goto leads to a step, in every list of steps the rule may have.   *)
(* The editor does not see to that: where it fails, a condition ends the   *)
(* job and leaves its run without an owner.                                *)
LeadsOn(s) == \A i \in DOMAIN s : \A g \in {s[i].yes, s[i].no} : g = None \/ IsStepId(s, g)
GotosExist == \A s \in Stored : LeadsOn(s)

LEMMA OwnedInit == Init => OwnedInv
BY DEF Init, OwnedInv, NoRun

(* A consumer's step leaves a run with its owner, unless it ends it.       *)
LEMMA WorkerKeepsOwned ==
  ASSUME GotosExist, TypeOK, LocalsOK, StoredInv, OwnedInv, NEW t \in Threads, WorkerStep(t)
  PROVE  OwnedInv'
<1> DEFINE l == thread[t]
           n == thread'[t]
<1>1. /\ UNCHANGED <<request, faults>> /\ \A s \in Threads : s # t => thread'[s] = thread[s]
      /\ (\E j \in Jobs : Take(t, j)) \/ UNCHANGED queue
  BY WorkerFrame
<1>2. l \in ThreadState /\ ThreadOK(l) /\ run \in [RunIds -> RunRow]
      /\ queue \in [Jobs -> Nat]
  BY DEF TypeOK, TablesOK, LocalsOK
<1>3. SUFFICES ASSUME faults = 0, NEW r \in RunIds, run'[r].status = "RUNNING"
               PROVE  Owned(r)'
  BY <1>1 DEF OwnedInv
<1>4. ASSUME Walks(n, r) PROVE Owned(r)'
  BY <1>4 DEF Owned
<1>5. ASSUME run[r].status = "RUNNING", Walks(l, r) => Walks(n, r), UNCHANGED queue
      PROVE  Owned(r)'
  <2>1. Owned(r)
    BY <1>3, <1>5 DEF OwnedInv
  <2> QED
    BY <1>1, <1>5, <2>1 DEF Owned
<1>6. ASSUME NEW j \in Jobs, Take(t, j) PROVE Owned(r)'
  <2>1. /\ l.pc = "idle" /\ UNCHANGED run /\ queue' = [queue EXCEPT ![j] = @ - 1]
        /\ n.run = j.run /\ (j.kind = "resume" => n.pc = "load")
    <3>1. n = [IdleThread EXCEPT !.job = j, !.run = j.run,
                  !.pc = IF j.kind = "resume" THEN "load" ELSE "check"]
      BY <1>6 DEF Take, Become, TypeOK
    <3> QED
      BY <1>6, <3>1 DEF Take, rows, IdleThread
  <2>2. ResumeJob(r) \in Jobs
    BY DEF ResumeJob, Jobs
  <2>3. CASE j = ResumeJob(r)
    <3>1. j.kind = "resume" /\ j.run = r
      BY <2>3 DEF ResumeJob
    <3> QED
      BY <1>4, <2>1, <3>1 DEF Walks
  <2>4. CASE j # ResumeJob(r)
    <3>1. queue'[ResumeJob(r)] = queue[ResumeJob(r)]
      BY <1>2, <2>1, <2>2, <2>4
    <3>2. Owned(r)
      BY <1>3, <2>1 DEF OwnedInv
    <3>3. ~ Walks(l, r)
      BY <2>1 DEF Walks, Midway
    <3> QED
      BY <1>1, <3>1, <3>2, <3>3 DEF Owned
  <2> QED
    BY <2>3, <2>4
<1>7. ASSUME CheckActive(t) PROVE Owned(r)'
  <2>1. UNCHANGED <<run, queue>> /\ ~ Walks(l, r)
    BY <1>7 DEF CheckActive, rows, Walks, Midway
  <2> QED
    BY <1>3, <1>5, <2>1
<1>8. ASSUME NEW k \in RunIds, CreateRun(t, k) PROVE Owned(r)'
  <2>1. /\ run' = [run EXCEPT ![k] = [NoRun EXCEPT !.status = "RUNNING"]]
        /\ l.pc = "create" /\ UNCHANGED queue
    BY <1>8 DEF CreateRun
  <2>2. n = [l EXCEPT !.pc = "load", !.run = k]
    BY <1>8 DEF CreateRun, Become, TypeOK
  <2>3. CASE r = k
    <3>1. Walks(n, r)
      BY <1>2, <2>2, <2>3 DEF ThreadState, Walks
    <3> QED
      BY <1>4, <3>1
  <2>4. CASE r # k
    <3>1. run[r].status = "RUNNING" /\ ~ Walks(l, r)
      BY <1>2, <1>3, <2>1, <2>4 DEF Walks, Midway
    <3> QED
      BY <1>5, <2>1, <3>1
  <2> QED
    BY <2>3, <2>4
<1>9. ASSUME LoadRun(t) PROVE Owned(r)'
  <2>1. UNCHANGED <<run, queue>> /\ l.pc = "load"
    BY <1>9 DEF LoadRun, rows
  <2>2. CASE l.run = r
    <3>1. n = [l EXCEPT !.pc = "step", !.steps = steps, !.index = run[r].index]
      BY <1>3, <1>9, <2>1, <2>2 DEF LoadRun, Become, TypeOK
    <3>2. Walks(n, r)
      BY <1>2, <2>2, <3>1 DEF ThreadState, Walks, Midway
    <3> QED
      BY <1>4, <3>2
  <2>3. CASE l.run # r
    BY <1>3, <1>5, <2>1, <2>3 DEF Walks
  <2> QED
    BY <2>2, <2>3
<1>10. ASSUME EvalCondition(t) PROVE Owned(r)'
  <2>1. /\ l.pc = "step" /\ l.index \in DOMAIN l.steps /\ UNCHANGED <<run, queue>>
    BY <1>10 DEF EvalCondition, AtStep, rows
  <2>2. l.steps \in Stored
    BY <2>1 DEF StoredInv, Keeps, Midway
  <2>3. \A g \in {CurrentStep(t).yes, CurrentStep(t).no} : g = None \/ IsStepId(l.steps, g)
    BY <2>1, <2>2 DEF GotosExist, LeadsOn, CurrentStep
  <2>4. \E i : Become(t, [l EXCEPT !.index = i])
    BY <1>10, <2>3 DEF EvalCondition
  <2>5. \E i : n = [l EXCEPT !.index = i]
    BY <2>4 DEF Become, TypeOK
  <2>6. Walks(l, r) => Walks(n, r)
    BY <1>2, <2>5 DEF ThreadState, Walks
  <2> QED
    BY <1>3, <1>5, <2>1, <2>6
<1>11. ASSUME \/ RunAction(t) \/ FailAction(t) \/ \E c \in ChainIds : OpenChain(t, c)
              \/ \E a \in ApprovalIds : OpenApproval(t, a)
       PROVE  Owned(r)'
  <2>1. l.pc = "step" /\ UNCHANGED <<run, queue>>
    BY <1>11 DEF RunAction, FailAction, OpenChain, OpenApproval, AtStep, rows
  <2>2. \/ \E i : Become(t, [l EXCEPT !.index = i])
        \/ Become(t, [l EXCEPT !.pc = "fail"])
        \/ \E x : Become(t, [l EXCEPT !.pc = "gate", !.opened = x])
    BY <1>11 DEF RunAction, FailAction, OpenChain, OpenApproval
  <2>3. \/ \E i : n = [l EXCEPT !.index = i]
        \/ n = [l EXCEPT !.pc = "fail"]
        \/ \E x : n = [l EXCEPT !.pc = "gate", !.opened = x]
    BY <2>2 DEF Become, TypeOK
  <2>4. Walks(l, r) => Walks(n, r)
    BY <1>2, <2>1, <2>3 DEF ThreadState, Walks, Midway
  <2> QED
    BY <1>3, <1>5, <2>1, <2>4
<1>12. ASSUME RecordGate(t) \/ RecordFailure(t) \/ Complete(t) PROVE Owned(r)'
  <2>1. UNCHANGED queue /\ l.run \in RunIds
    BY <1>2, <1>12 DEF RecordGate, RecordFailure, Complete, ThreadOK
  <2>2. \A k \in RunIds : k # l.run => run'[k] = run[k]
    BY <1>2, <1>12 DEF RecordGate, RecordFailure, Complete
  <2>3. run'[l.run].status # "RUNNING"
    <3>1. CASE RecordGate(t)
      <4>1. PICK allow : run' = [run EXCEPT ![l.run] = WaitAt(@, CurrentStep(t), l.opened,
                                                              l.index, allow)]
        BY <3>1 DEF RecordGate
      <4>2. run'[l.run].status = "WAITING_APPROVAL"
        BY <1>2, <2>1, <4>1 DEF WaitAt, RunRow
      <4> QED
        BY <4>2
    <3>2. CASE RecordFailure(t) \/ Complete(t)
      BY <1>2, <2>1, <3>2 DEF RecordFailure, Complete, RunRow
    <3> QED
      BY <1>12, <3>1, <3>2
  <2> QED
    BY <1>3, <1>5, <2>1, <2>2, <2>3 DEF Walks
<1>13. ASSUME NotifyApprovers(t) PROVE Owned(r)'
  <2>1. UNCHANGED <<run, queue>> /\ ~ Walks(l, r)
    BY <1>13 DEF NotifyApprovers, rows, Walks, Midway
  <2> QED
    BY <1>3, <1>5, <2>1
<1> QED
  BY <1>6, <1>7, <1>8, <1>9, <1>10, <1>11, <1>12, <1>13 DEF WorkerStep, StartStep, AdvanceStep

(* A request that sets a run RUNNING owns it until its job is queued.      *)
LEMMA RequestKeepsOwned ==
  ASSUME TypeOK, LocalsOK, OwnedInv, NEW q \in Requests,
         Receive(q) \/ DecisionStep(q)
  PROVE  OwnedInv'
<1> DEFINE c == request[q]
           d == request'[q]
<1>1. /\ UNCHANGED <<thread, faults>> /\ \A p \in Requests : p # q => request'[p] = request[p]
      /\ EnqueueResume(q) \/ UNCHANGED queue
      /\ MoveRun(q) \/ UNCHANGED run
  <2>1. UNCHANGED faults
    BY DEF Receive, ReceiveDecision, DecisionStep, CheckApproval, WriteVerdict,
     CheckChain, CheckVoted, CastVote, CountVotes, CloseChain, MoveRun, EnqueueResume
  <2> QED
    BY <2>1, RequestFrame
<1>2. c \in RequestState /\ RequestOK(c) /\ run \in [RunIds -> RunRow]
      /\ queue \in [Jobs -> Nat] /\ request \in [Requests -> RequestState]
  BY DEF TypeOK, TablesOK, LocalsOK
<1>3. SUFFICES ASSUME faults = 0, NEW r \in RunIds, run'[r].status = "RUNNING"
               PROVE  Owned(r)'
  BY <1>1 DEF OwnedInv
<1>4. ASSUME run[r].status = "RUNNING", c.pc # "enqueue", UNCHANGED queue PROVE Owned(r)'
  <2>1. Owned(r)
    BY <1>3, <1>4 DEF OwnedInv
  <2> QED
    BY <1>1, <1>4, <2>1 DEF Owned
<1>5. ASSUME EnqueueResume(q) PROVE Owned(r)'
  <2>1. /\ queue' = [queue EXCEPT ![ResumeJob(c.run)] = @ + 1] /\ c.run \in RunIds
        /\ UNCHANGED run
    BY <1>2, <1>5 DEF EnqueueResume, Enqueued, RequestOK, rows
  <2>2. Owned(r)
    BY <1>3, <2>1 DEF OwnedInv
  <2>3. ResumeJob(r) \in Jobs /\ ResumeJob(c.run) \in Jobs
    BY <2>1 DEF ResumeJob, Jobs
  <2>4. queue'[ResumeJob(r)] >= queue[ResumeJob(r)]
        /\ (c.run = r => queue'[ResumeJob(r)] > 0)
    BY <1>2, <2>1, <2>3
  <2>5. queue[ResumeJob(r)] \in Nat /\ queue'[ResumeJob(r)] \in Nat
    BY <1>2, <2>1, <2>3
  <2>6. CASE c.run = r
    BY <2>4, <2>6 DEF Owned
  <2>7. CASE c.run # r
    <3>1. queue[ResumeJob(r)] > 0 => queue'[ResumeJob(r)] > 0
      BY <2>4, <2>5
    <3> QED
      BY <1>1, <2>2, <2>7, <3>1 DEF Owned
  <2> QED
    BY <2>6, <2>7
<1>6. ASSUME MoveRun(q) PROVE Owned(r)'
  <2>1. c.pc = "move" /\ c.run \in RunIds /\ UNCHANGED queue
    BY <1>2, <1>6 DEF MoveRun, RequestOK
  <2>2. \A k \in RunIds : k # c.run => run'[k] = run[k]
    BY <1>2, <1>6 DEF MoveRun
  <2>3. \/ run'[c.run].status = "FAILED" \/ UNCHANGED run
        \/ Now(q, "enqueue")
    BY <1>2, <1>6, <2>1 DEF MoveRun, RunRow
  <2>4. CASE Now(q, "enqueue") /\ c.run = r
    <3>1. d = [c EXCEPT !.pc = "enqueue"]
      BY <1>2, <2>4 DEF Now
    <3>2. d.pc = "enqueue" /\ d.run = r
      BY <1>2, <2>4, <3>1 DEF RequestState
    <3> QED
      BY <3>2 DEF Owned
  <2>5. CASE run[r].status = "RUNNING"
    BY <1>4, <2>1, <2>5
  <2> QED
    BY <1>3, <2>2, <2>3, <2>4, <2>5
<1>7. CASE UNCHANGED <<run, queue>> /\ c.pc # "enqueue"
  BY <1>3, <1>4, <1>7
<1>8. c.pc = "enqueue" => EnqueueResume(q)
  BY DEF Receive, ReceiveDecision, DecisionStep, CheckApproval, WriteVerdict,
     CheckChain, CheckVoted, CastVote, CountVotes, CloseChain, MoveRun
<1> QED
  BY <1>1, <1>5, <1>6, <1>7, <1>8

LEMMA OwnedStep ==
  ASSUME GotosExist, TypeOK, LocalsOK, StoredInv, OwnedInv, [Next]_vars
  PROVE  OwnedInv'
<1>1. ASSUME UNCHANGED <<run, thread, request, faults>>, NEW k,
             k # "resume", UNCHANGED queue \/ \E j \in Jobs : j.kind = k /\ queue' = Enqueued(j)
      PROVE  OwnedInv'
  <2>1. queue \in [Jobs -> Nat]
    BY DEF TypeOK
  <2>2. \A r \in RunIds : ResumeJob(r) \in Jobs /\ ResumeJob(r).kind = "resume"
    BY DEF ResumeJob, Jobs
  <2>3. \A r \in RunIds : queue'[ResumeJob(r)] = queue[ResumeJob(r)]
    BY <1>1, <2>1, <2>2 DEF Enqueued
  <2> QED
    BY <1>1, <2>3 DEF OwnedInv, Owned
<1>2. ASSUME faults' = faults + 1 PROVE OwnedInv'
  BY <1>2 DEF OwnedInv, TypeOK, HistoryOK
<1>3. ASSUME NEW kind \in {"event", "schedule"}, Trigger(kind) PROVE OwnedInv'
  <2> DEFINE j == [kind |-> kind, run |-> None, retried |-> FALSE]
  <2>1. j \in Jobs /\ j.kind = kind /\ queue' = Enqueued(j)
    BY <1>3 DEF Trigger, Jobs
  <2>2. UNCHANGED <<run, thread, request, faults>>
    BY <1>3 DEF Trigger, rows
  <2> HIDE DEF j
  <2> QED
    BY <1>1, <2>1, <2>2
<1>4. CASE UNCHANGED vars
  BY <1>1, <1>4 DEF vars, rows
<1>5. ASSUME NEW e \in Editions, EditRule(e) PROVE OwnedInv'
  BY <1>1, <1>5 DEF EditRule, rows
<1>6. ASSUME NEW d \in Delegations, ToggleDelegation(d) PROVE OwnedInv'
  BY <1>1, <1>6 DEF ToggleDelegation, rows
<1>7. CASE Next
  BY <1>2, <1>3, <1>5, <1>6, <1>7, WorkerKeepsOwned, RequestKeepsOwned
     DEF Next, FailJob, Crash, LoseRequest
<1> QED
  BY <1>4, <1>7

(* As long as nothing fails, no run is left RUNNING without anyone to      *)
(* advance it, for any number of consumers and requests, provided that     *)
(* every goto leads to a step (advanceRun, decide*Gate).                   *)
THEOREM RunningRunsAreOwned ==
  ASSUME GotosExist
  PROVE  Spec => []RunningIsOwned
<1>1. TypeOK /\ LocalsOK /\ StoredInv /\ OwnedInv /\ [Next]_vars
        => (TypeOK /\ LocalsOK /\ StoredInv /\ OwnedInv)'
  BY TypeStep, StoredStep, OwnedStep
<1>2. Init => TypeOK /\ LocalsOK /\ StoredInv /\ OwnedInv
  BY TypeInit, StoredInit, OwnedInit
<1>3. OwnedInv => RunningIsOwned
  <2> SUFFICES ASSUME NEW r \in RunIds, Owned(r) PROVE OnItsWay(r)
    BY DEF OwnedInv, RunningIsOwned
  <2>1. ResumeJob(r) \in Jobs /\ ResumeJob(r).run = r
    BY DEF ResumeJob, Jobs
  <2>2. \A t \in Threads : Walks(thread[t], r) => thread[t].pc # "idle" /\ thread[t].run = r
    BY DEF Walks, Midway
  <2> QED
    BY <2>1, <2>2 DEF Owned, OnItsWay
<1> QED
  BY <1>1, <1>2, <1>3, PTL DEF Spec

-----------------------------------------------------------------------------
(* Who writes the row of a run: the consumer that walks it, the one that   *)
(* creates it, the request that moves it.                                  *)
LEMMA WorkerWrites ==
  ASSUME TypeOK, LocalsOK, NEW t \in Threads, WorkerStep(t), NEW r \in RunIds
  PROVE  \/ run'[r] = run[r]
         \/ CreateRun(t, r) /\ run[r].status = "ABSENT" /\ run'[r].status = "RUNNING"
         \/ /\ thread[t].run = r /\ thread[t].pc \in Midway
            /\ thread'[t].pc \in {"notify", "idle"}
            /\ run'[r].status \in {"WAITING_APPROVAL", "COMPLETED", "FAILED"}
<1> DEFINE l == thread[t]
<1>1. l \in ThreadState /\ ThreadOK(l) /\ run \in [RunIds -> RunRow]
  BY DEF TypeOK, TablesOK, LocalsOK
<1>2. ASSUME NEW k \in RunIds, CreateRun(t, k)
      PROVE  /\ r # k => run'[r] = run[r]
             /\ r = k => run[r].status = "ABSENT" /\ run'[r].status = "RUNNING"
  BY <1>1, <1>2 DEF CreateRun, NoRun
<1>3. ASSUME RecordGate(t) \/ RecordFailure(t) \/ Complete(t), run'[r] # run[r]
      PROVE  /\ l.run = r /\ l.pc \in Midway /\ thread'[t].pc \in {"notify", "idle"}
             /\ run'[r].status \in {"WAITING_APPROVAL", "COMPLETED", "FAILED"}
  <2>1. l.run \in RunIds /\ l.pc \in Midway
    BY <1>1, <1>3 DEF RecordGate, RecordFailure, Complete, ThreadOK, Midway
  <2>2. l.run = r
    BY <1>1, <1>3 DEF RecordGate, RecordFailure, Complete
  <2>3. thread'[t].pc \in {"notify", "idle"}
    BY <1>1, <1>3 DEF RecordGate, RecordFailure, Complete, Become, Finish, TypeOK,
       ThreadState, IdleThread
  <2>4. CASE RecordGate(t)
    <3>1. PICK allow : run' = [run EXCEPT ![l.run] = WaitAt(@, CurrentStep(t), l.opened,
                                                            l.index, allow)]
      BY <2>4 DEF RecordGate
    <3>2. run'[r].status = "WAITING_APPROVAL"
      BY <1>1, <2>1, <2>2, <3>1 DEF WaitAt, RunRow
    <3> QED
      BY <2>1, <2>2, <2>3, <3>2
  <2>5. CASE RecordFailure(t) \/ Complete(t)
    <3>1. run'[r].status \in {"COMPLETED", "FAILED"}
      BY <1>1, <2>2, <2>5 DEF RecordFailure, Complete, RunRow
    <3> QED
      BY <2>1, <2>2, <2>3, <3>1
  <2> QED
    BY <1>3, <2>4, <2>5
<1>4. \/ UNCHANGED run \/ (\E k \in RunIds : CreateRun(t, k))
      \/ RecordGate(t) \/ RecordFailure(t) \/ Complete(t)
  BY DEF WorkerStep, StartStep, AdvanceStep, Take, CheckActive, LoadRun, EvalCondition,
     RunAction, FailAction, OpenChain, OpenApproval, NotifyApprovers, rows
<1> QED
  BY <1>2, <1>3, <1>4

LEMMA RequestWrites ==
  ASSUME TypeOK, LocalsOK, NEW q \in Requests,
         Receive(q) \/ DecisionStep(q) \/ LoseRequest(q), NEW r \in RunIds
  PROVE  \/ run'[r] = run[r]
         \/ /\ MoveRun(q) /\ request[q].pc = "move" /\ request[q].run = r
            /\ run'[r].status \in {"RUNNING", "FAILED"}
<1> DEFINE c == request[q]
<1>1. RequestOK(c) /\ run \in [RunIds -> RunRow]
  BY DEF TypeOK, TablesOK, LocalsOK
<1>2. ASSUME MoveRun(q), run'[r] # run[r]
      PROVE  c.pc = "move" /\ c.run = r /\ run'[r].status \in {"RUNNING", "FAILED"}
  <2>1. c.pc = "move" /\ c.run \in RunIds
    BY <1>1, <1>2 DEF MoveRun, RequestOK
  <2>2. c.run = r
    BY <1>1, <1>2 DEF MoveRun
  <2>3. run'[r].status \in {"RUNNING", "FAILED"}
    BY <1>1, <1>2, <2>2 DEF MoveRun, RunRow
  <2> QED
    BY <2>1, <2>2, <2>3
<1> QED
  BY <1>2, RequestFrame

(* A job that is delivered again was somebody's.                           *)
LEMMA RedeliveredJob ==
  ASSUME LocalsOK, NEW p \in Processes, NEW j \in Jobs, Redelivered(j, p) # 0
  PROVE  \E t \in Threads : thread[t].pc # "idle" /\ thread[t].job.run = j.run
<1> DEFINE D == {t \in Threads : /\ Host[t] = p /\ thread[t].pc # "idle"
                                 /\ ~ thread[t].job.retried
                                 /\ j = [thread[t].job EXCEPT !.retried = TRUE]}
<1>1. D # {}
  <2>1. Cardinality(D) # 0
    BY DEF Redelivered
  <2> HIDE DEF D
  <2> QED
    BY <2>1, FS_EmptySet
<1>2. PICK t \in Threads : thread[t].pc # "idle" /\ j = [thread[t].job EXCEPT !.retried = TRUE]
  BY <1>1
<1>3. thread[t].job \in Jobs
  BY <1>2 DEF LocalsOK, ThreadOK
<1>4. j.run = thread[t].job.run
  BY <1>2, <1>3 DEF Jobs
<1> QED
  BY <1>2, <1>4

-----------------------------------------------------------------------------
(* Whoever refers to a run refers to one that exists, and a consumer that  *)
(* walks a run it has just created is the only one to know of it.          *)
Holds(l, r) == l.pc # "idle" /\ l.run = r
QueuedFor(j, r) == queue[j] > 0 /\ j.run = r
Starter(t) == Serves[t] # "resume"

JobOK(t, l) ==
  l.pc # "idle" =>
    IF Starter(t) THEN l.job.run = None
    ELSE l.run = l.job.run /\ l.pc \notin {"check", "create"}
Known ==
  \A r \in RunIds :
    \/ \E t \in Threads : Holds(thread[t], r)
    \/ \E q \in Requests : Holds(request[q], r)
    \/ \E j \in Jobs : QueuedFor(j, r)
    => run[r].status # "ABSENT"
Alone(t, r) ==
  /\ run[r].status = "RUNNING"
  /\ \A s \in Threads : Holds(thread[s], r) => s = t
  /\ \A q \in Requests : ~ Holds(request[q], r)
  /\ \A j \in Jobs : ~ QueuedFor(j, r)
FirstWalks ==
  \A t \in Threads, r \in RunIds : Starter(t) /\ Walks(thread[t], r) => Alone(t, r)
FirstInv == (\A t \in Threads : JobOK(t, thread[t])) /\ Known /\ FirstWalks

LEMMA FirstInit == Init => FirstInv
BY DEF Init, FirstInv, JobOK, Known, FirstWalks, IdleThread, IdleRequest, Holds, QueuedFor,
   Walks, Midway

(* A step by which nobody comes to refer to a run in a way it was not      *)
(* referred to before, and which writes no row under a first walk.         *)
LEMMA FirstStays ==
  ASSUME FirstInv,
         \A t \in Threads : JobOK(t, thread'[t]),
         \A r \in RunIds : run[r].status # "ABSENT" => run'[r].status # "ABSENT",
         \A t \in Threads, r \in RunIds : Holds(thread'[t], r) =>
           Holds(thread[t], r) \/ \E j \in Jobs : QueuedFor(j, r),
         \A t \in Threads, r \in RunIds :
           Starter(t) /\ Walks(thread'[t], r) => Walks(thread[t], r),
         \A q \in Requests, r \in RunIds : Holds(request'[q], r) =>
           Holds(request[q], r) \/ run[r].status = "WAITING_APPROVAL",
         \A j \in Jobs, r \in RunIds : QueuedFor(j, r)' =>
           \/ \E i \in Jobs : QueuedFor(i, r)
           \/ \E q \in Requests : Holds(request[q], r)
           \/ \E t \in Threads : ~ Starter(t) /\ Holds(thread[t], r),
         \A t \in Threads, r \in RunIds :
           Starter(t) /\ Walks(thread'[t], r) /\ Alone(t, r) => run'[r] = run[r]
  PROVE  FirstInv'
<1>1. ASSUME NEW r \in RunIds,
             \/ \E t \in Threads : Holds(thread'[t], r)
             \/ \E q \in Requests : Holds(request'[q], r)
             \/ \E j \in Jobs : QueuedFor(j, r)'
      PROVE  run'[r].status # "ABSENT"
  <2>1. \/ \E t \in Threads : Holds(thread[t], r)
        \/ \E q \in Requests : Holds(request[q], r)
        \/ \E j \in Jobs : QueuedFor(j, r)
        \/ run[r].status = "WAITING_APPROVAL"
    BY <1>1
  <2>2. run[r].status # "ABSENT"
    BY <2>1 DEF FirstInv, Known
  <2> QED
    BY <2>2
<1>2. ASSUME NEW t \in Threads, NEW r \in RunIds, Starter(t), Walks(thread'[t], r)
      PROVE  Alone(t, r)'
  <2>1. Alone(t, r)
    BY <1>2 DEF FirstInv, FirstWalks
  <2>2. run'[r].status = "RUNNING"
    BY <1>2, <2>1 DEF Alone
  <2>3. \A s \in Threads : Holds(thread'[s], r) => s = t
    BY <2>1 DEF Alone
  <2>4. \A q \in Requests : ~ Holds(request'[q], r)
    BY <2>1 DEF Alone
  <2>5. \A j \in Jobs : ~ QueuedFor(j, r)'
    BY <1>2, <2>1 DEF Alone
  <2> QED
    BY <2>2, <2>3, <2>4, <2>5 DEF Alone
<1>3. Known'
  BY <1>1 DEF Known
<1>4. FirstWalks'
  BY <1>2 DEF FirstWalks
<1> QED
  BY <1>3, <1>4 DEF FirstInv

(* Creating a run is the one step by which somebody new refers to a run.   *)
LEMMA CreateKeepsFirst ==
  ASSUME TypeOK, LocalsOK, FirstInv, NEW t \in Threads, NEW k \in RunIds, CreateRun(t, k)
  PROVE  FirstInv'
<1> DEFINE l == thread[t]
           n == thread'[t]
<1>1. /\ UNCHANGED <<request, queue>> /\ \A s \in Threads : s # t => thread'[s] = thread[s]
      /\ l \in ThreadState /\ run \in [RunIds -> RunRow]
  BY DEF CreateRun, Become, TypeOK, TablesOK
<1>2. /\ l.pc = "create" /\ n.pc = "load" /\ n.run = k /\ n.job = l.job
      /\ run[k].status = "ABSENT" /\ run' = [run EXCEPT ![k] = [NoRun EXCEPT !.status = "RUNNING"]]
  BY <1>1 DEF CreateRun, Become, TypeOK, ThreadState
<1>3. \A s \in Threads : JobOK(s, thread'[s])
  <2>1. JobOK(t, l)
    BY DEF FirstInv
  <2>2. JobOK(t, n)
    BY <1>2, <2>1 DEF JobOK
  <2> QED
    BY <1>1, <2>2 DEF FirstInv
<1>4. /\ run'[k].status = "RUNNING" /\ \A r \in RunIds : r # k => run'[r] = run[r]
  BY <1>1, <1>2 DEF NoRun
<1>5. /\ \A s \in Threads : ~ Holds(thread[s], k)
      /\ \A q \in Requests : ~ Holds(request[q], k)
      /\ \A j \in Jobs : ~ QueuedFor(j, k)
  BY <1>2 DEF FirstInv, Known
<1>6. Alone(t, k)'
  <2>1. \A s \in Threads : Holds(thread'[s], k) => s = t
    BY <1>1, <1>5
  <2>2. \A q \in Requests : ~ Holds(request'[q], k)
    BY <1>1, <1>5
  <2>3. \A j \in Jobs : ~ QueuedFor(j, k)'
    BY <1>1, <1>5 DEF QueuedFor
  <2> QED
    BY <1>4, <2>1, <2>2, <2>3 DEF Alone
<1>7. ASSUME NEW r \in RunIds, r # k
      PROVE  /\ \A s \in Threads : Holds(thread'[s], r) => Holds(thread[s], r)
             /\ \A s \in Threads : Walks(thread'[s], r) => Walks(thread[s], r)
  BY <1>1, <1>2, <1>7 DEF Holds, Walks
<1>8. Known'
  <2> SUFFICES ASSUME NEW r \in RunIds, r # k,
                      \/ \E s \in Threads : Holds(thread'[s], r)
                      \/ \E q \in Requests : Holds(request'[q], r)
                      \/ \E j \in Jobs : QueuedFor(j, r)'
               PROVE  run'[r].status # "ABSENT"
    BY <1>4 DEF Known
  <2>1. \/ \E s \in Threads : Holds(thread[s], r)
        \/ \E q \in Requests : Holds(request[q], r)
        \/ \E j \in Jobs : QueuedFor(j, r)
    BY <1>1, <1>7 DEF QueuedFor
  <2> QED
    BY <1>4, <2>1 DEF FirstInv, Known
<1>9. FirstWalks'
  <2> SUFFICES ASSUME NEW s \in Threads, NEW r \in RunIds, Starter(s), Walks(thread'[s], r)
               PROVE  Alone(s, r)'
    BY DEF FirstWalks
  <2>1. CASE r = k
    <3>1. Holds(thread'[s], k)
      BY <2>1 DEF Walks, Midway, Holds
    <3>2. s = t
      BY <3>1, <1>6 DEF Alone
    <3> QED
      BY <1>6, <2>1, <3>2
  <2>2. CASE r # k
    <3>1. Alone(s, r)
      BY <1>7, <2>2 DEF FirstInv, FirstWalks
    <3>2. \A x \in Threads : Holds(thread'[x], r) => x = s
      BY <1>7, <2>2, <3>1 DEF Alone
    <3> QED
      BY <1>1, <1>4, <2>2, <3>1, <3>2 DEF Alone, QueuedFor
  <2> QED
    BY <2>1, <2>2
<1> QED
  BY <1>3, <1>8, <1>9 DEF FirstInv

LEMMA WorkerKeepsFirst ==
  ASSUME TypeOK, LocalsOK, FirstInv, NEW t \in Threads, WorkerStep(t)
  PROVE  FirstInv'
<1> DEFINE l == thread[t]
           n == thread'[t]
<1>1. WorkerTurn(t, l, n) /\ JobOK(t, l)
  BY WorkerTurns DEF FirstInv
<1>2. /\ UNCHANGED request /\ \A s \in Threads : s # t => thread'[s] = thread[s]
      /\ (\E j \in Jobs : Take(t, j)) \/ UNCHANGED queue
  BY WorkerFrame
<1>3. SUFFICES ASSUME \A k \in RunIds : ~ CreateRun(t, k) PROVE FirstInv'
  BY CreateKeepsFirst
<1>4. ASSUME NEW j \in Jobs, Take(t, j)
      PROVE  /\ Serves[t] = j.kind /\ queue[j] > 0
             /\ queue[j] \in Nat /\ queue' = [queue EXCEPT ![j] = @ - 1]
             /\ j.kind # "resume" => j.run = None
             /\ j.kind = "resume" => j.run \in RunIds
  BY <1>4 DEF Take, TypeOK, Jobs
<1>5. JobOK(t, n) /\ \A r \in RunIds : Starter(t) /\ Walks(n, r) => Walks(l, r)
  <2>1. CASE \E j \in Jobs : Take(t, j)
    <3>1. PICK j \in Jobs : Take(t, j)
      BY <2>1
    <3>2. n = [IdleThread EXCEPT !.job = j, !.run = j.run,
                 !.pc = IF j.kind = "resume" THEN "load" ELSE "check"]
      BY <3>1 DEF Take, Become, TypeOK
    <3>3. n.job = j /\ n.run = j.run /\ n.pc = IF j.kind = "resume" THEN "load" ELSE "check"
      BY <3>2 DEF IdleThread
    <3> HIDE DEF n
    <3> QED
      BY <1>4, <3>1, <3>3 DEF JobOK, Starter, Walks, Midway
  <2>2. CASE ~ \E j \in Jobs : Take(t, j)
    <3>1. n.pc = "idle" \/ (SameRun(n, l) /\ l.pc # "idle" /\ n.pc # "check"
                            /\ (n.pc = "create" => l.pc = "check")
                            /\ (n.pc \in Midway => l.pc \in {"load", "step"}) /\ n.pc # "load")
      <4>1. IdleThread.pc = "idle"
        BY DEF IdleThread
      <4> HIDE DEF l, n
      <4> QED
        BY <1>1, <1>3, <2>2, <4>1 DEF WorkerTurn, SameWalk, Midway
    <3> HIDE DEF l, n
    <3> QED
      BY <1>1, <3>1 DEF JobOK, SameRun, Walks, Midway
  <2> QED
    BY <2>1, <2>2
<1>6. ASSUME NEW r \in RunIds, Holds(n, r)
      PROVE  Holds(l, r) \/ \E j \in Jobs : QueuedFor(j, r)
  <2>1. CASE \E j \in Jobs : Take(t, j)
    <3>1. PICK j \in Jobs : Take(t, j)
      BY <2>1
    <3>2. n = [IdleThread EXCEPT !.job = j, !.run = j.run,
                 !.pc = IF j.kind = "resume" THEN "load" ELSE "check"]
      BY <3>1 DEF Take, Become, TypeOK
    <3>3. n.run = j.run
      BY <3>2 DEF IdleThread
    <3> QED
      BY <1>4, <1>6, <3>1, <3>3 DEF Holds, QueuedFor
  <2>2. CASE ~ \E j \in Jobs : Take(t, j)
    <3> HIDE DEF l, n
    <3> QED
      BY <1>1, <1>3, <1>6, <2>2 DEF WorkerTurn, SameWalk, SameRun, IdleThread, Holds
  <2> QED
    BY <2>1, <2>2
<1>7. \A j \in Jobs, r \in RunIds : QueuedFor(j, r)' => QueuedFor(j, r)
  BY <1>2, <1>4 DEF QueuedFor, TypeOK
<1>8. \A r \in RunIds : run[r].status # "ABSENT" => run'[r].status # "ABSENT"
  BY WorkerWrites
<1>9. ASSUME NEW s \in Threads, NEW r \in RunIds, Starter(s), Walks(thread'[s], r), Alone(s, r)
      PROVE  run'[r] = run[r]
  <2>1. SUFFICES ASSUME l.run = r, l.pc \in Midway, n.pc \in {"notify", "idle"} PROVE FALSE
    BY <1>3, WorkerWrites
  <2>2. Holds(l, r)
    BY <2>1 DEF Holds, Midway
  <2>3. t = s
    BY <1>9, <2>2 DEF Alone
  <2> QED
    BY <1>9, <2>1, <2>3 DEF Walks, Midway
<1> QED
  BY <1>2, <1>5, <1>6, <1>7, <1>8, <1>9, FirstStays DEF FirstInv

LEMMA RequestKeepsFirst ==
  ASSUME TypeOK, LocalsOK, FirstInv, NEW q \in Requests,
         Receive(q) \/ DecisionStep(q) \/ LoseRequest(q)
  PROVE  FirstInv'
<1> DEFINE c == request[q]
           d == request'[q]
<1>1. RequestTurn(q, c, d) /\ RequestOK(c)
  BY RequestTurns DEF LocalsOK
<1>2. /\ UNCHANGED thread /\ \A p \in Requests : p # q => request'[p] = request[p]
      /\ EnqueueResume(q) \/ UNCHANGED queue
  BY RequestFrame
<1>3. ASSUME NEW r \in RunIds, Holds(d, r)
      PROVE  Holds(c, r) \/ run[r].status = "WAITING_APPROVAL"
  <2>1. ASSUME NEW u \in Users, NEW k \in RunIds, NEW v \in Verdict, ReceiveDecision(q, u, k, v)
        PROVE  run[k].status = "WAITING_APPROVAL"
    BY <2>1 DEF ReceiveDecision
  <2> HIDE DEF c, d
  <2> QED
    BY <1>1, <1>3, <2>1 DEF RequestTurn, SameCall, IdleRequest, Holds
<1>4. ASSUME NEW j \in Jobs, NEW r \in RunIds, QueuedFor(j, r)'
      PROVE  QueuedFor(j, r) \/ Holds(c, r)
  <2>1. CASE UNCHANGED queue
    BY <1>4, <2>1 DEF QueuedFor
  <2>2. CASE EnqueueResume(q)
    <3>1. c.pc = "enqueue" /\ queue' = [queue EXCEPT ![ResumeJob(c.run)] = @ + 1]
      BY <2>2 DEF EnqueueResume, Enqueued
    <3>2. CASE j = ResumeJob(c.run)
      BY <1>4, <3>1, <3>2 DEF ResumeJob, QueuedFor, Holds
    <3>3. CASE j # ResumeJob(c.run)
      BY <1>4, <3>1, <3>3 DEF QueuedFor, TypeOK
    <3> QED
      BY <3>2, <3>3
  <2> QED
    BY <1>2, <2>1, <2>2
<1>5. \A r \in RunIds : run[r].status # "ABSENT" => run'[r].status # "ABSENT"
  BY RequestWrites
<1>6. ASSUME NEW s \in Threads, NEW r \in RunIds, Alone(s, r) PROVE run'[r] = run[r]
  <2>1. c.pc = "move" /\ c.run = r => Holds(c, r)
    BY DEF Holds
  <2> QED
    BY <1>6, <2>1, RequestWrites DEF Alone
<1> QED
  BY <1>2, <1>3, <1>4, <1>5, <1>6, FirstStays DEF FirstInv

LEMMA FirstStep ==
  ASSUME TypeOK, LocalsOK, FirstInv, [Next]_vars
  PROVE  FirstInv'
<1>1. queue \in [Jobs -> Nat]
      /\ \A t \in Threads : JobOK(t, thread[t]) /\ JobOK(t, IdleThread)
  BY DEF TypeOK, FirstInv, JobOK, IdleThread
<1>2. \A r \in RunIds : ~ Holds(IdleThread, r) /\ ~ Walks(IdleThread, r)
  BY DEF Holds, Walks, Midway, IdleThread
(* Consumers go idle at most, jobs without a run or for a run that was     *)
(* walked are queued.                                                      *)
<1>3. ASSUME UNCHANGED <<run, request>>,
             \A t \in Threads : thread'[t] \in {IdleThread, thread[t]},
             \A j \in Jobs, r \in RunIds : QueuedFor(j, r)' =>
               QueuedFor(j, r) \/ \E t \in Threads : ~ Starter(t) /\ Holds(thread[t], r)
      PROVE  FirstInv'
  <2>1. \A t \in Threads : JobOK(t, thread'[t])
    BY <1>1, <1>3
  <2>2. \A t \in Threads, r \in RunIds :
          /\ Holds(thread'[t], r) => Holds(thread[t], r)
          /\ Walks(thread'[t], r) => Walks(thread[t], r)
    BY <1>2, <1>3
  <2> QED
    BY <1>3, <2>1, <2>2, FirstStays
<1>4. ASSUME UNCHANGED <<run, request, thread, queue>> PROVE FirstInv'
  <2>1. \A j \in Jobs, r \in RunIds : QueuedFor(j, r)' => QueuedFor(j, r)
    BY <1>4 DEF QueuedFor
  <2> QED
    BY <1>3, <1>4, <2>1
<1>5. ASSUME NEW kind \in {"event", "schedule"}, Trigger(kind) PROVE FirstInv'
  <2> DEFINE j == [kind |-> kind, run |-> None, retried |-> FALSE]
  <2>1. j \in Jobs /\ j.run = None /\ queue' = [queue EXCEPT ![j] = @ + 1]
        /\ UNCHANGED <<run, request, thread>>
    BY <1>5 DEF Trigger, Jobs, Enqueued, rows
  <2> HIDE DEF j
  <2>2. None \notin RunIds
    BY ConstantsAssumption
  <2>3. \A i \in Jobs, r \in RunIds : QueuedFor(i, r)' => QueuedFor(i, r)
    BY <1>1, <2>1, <2>2 DEF QueuedFor
  <2> QED
    BY <1>3, <2>1, <2>3
<1>6. ASSUME NEW t \in Threads, FailJob(t) PROVE FirstInv'
  <2>1. UNCHANGED <<run, request, queue>> /\ thread' = [thread EXCEPT ![t] = IdleThread]
    BY <1>6 DEF FailJob, Finish, Become, rows
  <2>2. \A s \in Threads : thread'[s] \in {IdleThread, thread[s]}
    BY <2>1 DEF TypeOK
  <2>3. \A j \in Jobs, r \in RunIds : QueuedFor(j, r)' => QueuedFor(j, r)
    BY <2>1 DEF QueuedFor
  <2> QED
    BY <1>3, <2>1, <2>2, <2>3
<1>7. ASSUME NEW p \in Processes, Crash(p) PROVE FirstInv'
  <2>1. UNCHANGED <<run, request>> /\ queue' = [j \in Jobs |-> queue[j] + Redelivered(j, p)]
        /\ \A t \in Threads : thread'[t] \in {IdleThread, thread[t]}
    BY <1>7 DEF Crash, rows
  <2>2. ASSUME NEW j \in Jobs, NEW r \in RunIds, QueuedFor(j, r)', ~ QueuedFor(j, r)
        PROVE  \E t \in Threads : ~ Starter(t) /\ Holds(thread[t], r)
    <3>1. j.run = r /\ Redelivered(j, p) # 0
      BY <1>1, <2>1, <2>2 DEF QueuedFor
    <3>2. PICK t \in Threads : thread[t].pc # "idle" /\ thread[t].job.run = r
      BY <3>1, RedeliveredJob
    <3>3. None \notin RunIds
      BY ConstantsAssumption
    <3> QED
      BY <1>1, <3>2, <3>3 DEF JobOK, Holds
  <2> QED
    BY <1>3, <2>1, <2>2
<1>8. CASE UNCHANGED vars
  BY <1>4, <1>8 DEF vars, rows
<1>9. CASE Next
  BY <1>4, <1>5, <1>6, <1>7, <1>9, WorkerKeepsFirst, RequestKeepsFirst
     DEF Next, EditRule, ToggleDelegation, rows
<1> QED
  BY <1>8, <1>9

-----------------------------------------------------------------------------
(* The rows of approvals and chains: once there they stay, and once        *)
(* decided they are never pending again.                                   *)
RowsStay ==
  /\ \A a \in ApprovalIds : approval[a].status # "ABSENT" =>
       /\ approval'[a].status # "ABSENT"
       /\ approval'[a].status = "PENDING" => approval[a].status = "PENDING"
  /\ \A c \in ChainIds : chain[c].status # "ABSENT" =>
       /\ chain'[c].status # "ABSENT"
       /\ chain'[c].status = "PENDING" => chain[c].status = "PENDING"

LEMMA RowsStayStep == TypeOK /\ LocalsOK /\ [Next]_vars => RowsStay
<1> SUFFICES ASSUME TypeOK, LocalsOK, [Next]_vars PROVE RowsStay
  OBVIOUS
<1>1. approval \in [ApprovalIds -> ApprovalRow] /\ chain \in [ChainIds -> ChainRow]
      /\ \A q \in Requests : RequestOK(request[q])
  BY DEF TypeOK, TablesOK, LocalsOK
<1>2. ASSUME UNCHANGED <<approval, chain>> PROVE RowsStay
  BY <1>2 DEF RowsStay
<1>3. ASSUME NEW t \in Threads, WorkerStep(t) PROVE RowsStay
  <2>1. ASSUME NEW c \in ChainIds, OpenChain(t, c) PROVE RowsStay
    BY <1>1, <2>1 DEF OpenChain, RowsStay
  <2>2. ASSUME NEW a \in ApprovalIds, OpenApproval(t, a) PROVE RowsStay
    BY <1>1, <2>2 DEF OpenApproval, RowsStay
  <2>3. \/ UNCHANGED <<approval, chain>> \/ (\E c \in ChainIds : OpenChain(t, c))
        \/ \E a \in ApprovalIds : OpenApproval(t, a)
    BY <1>3 DEF WorkerStep, StartStep, AdvanceStep, Take, CheckActive, CreateRun, LoadRun,
       EvalCondition, RunAction, FailAction, RecordGate, NotifyApprovers, RecordFailure,
       Complete, rows
  <2> QED
    BY <1>2, <2>1, <2>2, <2>3
<1>4. ASSUME NEW q \in Requests, Receive(q) \/ DecisionStep(q) \/ LoseRequest(q) PROVE RowsStay
  <2>1. ASSUME WriteVerdict(q) PROVE RowsStay
    <3>1. request[q].decision \in Verdict /\ UNCHANGED chain
      BY <1>1, <2>1 DEF WriteVerdict, RequestOK
    <3>2. \/ UNCHANGED approval
          \/ \A a \in ApprovalIds :
               \/ approval'[a] = approval[a] \/ approval'[a].status = request[q].decision
      BY <1>1, <2>1 DEF WriteVerdict, ApprovalRow
    <3> QED
      BY <3>1, <3>2 DEF RowsStay, Verdict
  <2>2. ASSUME NEW a \in ApprovalIds, CastVote(q, a) PROVE RowsStay
    <3>1. approval[a].status = "ABSENT" /\ UNCHANGED chain
      BY <2>2 DEF CastVote
    <3>2. \A b \in ApprovalIds : b # a => approval'[b] = approval[b]
      BY <1>1, <2>2 DEF CastVote
    <3> QED
      BY <3>1, <3>2 DEF RowsStay
  <2>3. ASSUME CloseChain(q) PROVE RowsStay
    <3>1. request[q].decision \in Verdict /\ UNCHANGED approval
      BY <1>1, <2>3 DEF CloseChain, RequestOK
    <3>2. \A c \in ChainIds : chain'[c] = chain[c] \/ chain'[c].status = request[q].decision
      BY <1>1, <2>3 DEF CloseChain, ChainRow
    <3> QED
      BY <3>1, <3>2 DEF RowsStay, Verdict
  <2> QED
    BY <1>2, <1>4, <2>1, <2>2, <2>3, RequestFrame
<1>5. CASE UNCHANGED vars
  BY <1>2, <1>5 DEF vars, rows
<1>6. CASE Next
  BY <1>2, <1>3, <1>4, <1>6 DEF Next, Trigger, EditRule, ToggleDelegation, FailJob, Crash, rows
<1> QED
  BY <1>5, <1>6

(* Whoever refers to a row refers to one that is there.                    *)
Rooted(row) ==
  /\ row.approval # None => approval[row.approval].status # "ABSENT"
  /\ row.chain # None => chain[row.chain].status # "ABSENT"
OpenedRow(l) ==
  l.pc = "gate" =>
    /\ l.steps[l.index].required > 1 => chain[l.opened].status # "ABSENT"
    /\ l.steps[l.index].required <= 1 => approval[l.opened].status # "ABSENT"
CallRow(c) ==
  c.pc # "idle" => Rooted(c.row) /\ (c.pc \in {"single", "write"} => c.row.chain = None)
RootInv ==
  /\ \A r \in RunIds : Rooted(run[r])
  /\ \A t \in Threads : OpenedRow(thread[t])
  /\ \A q \in Requests : CallRow(request[q])

LEMMA RootInit == Init => RootInv
BY DEF Init, RootInv, Rooted, OpenedRow, CallRow, NoRun, IdleThread, IdleRequest

LEMMA RootedStays ==
  ASSUME RowsStay, NEW row \in RunRow, Rooted(row)
  PROVE  Rooted(row)'
BY DEF RowsStay, Rooted, RunRow

LEMMA OpenedStays ==
  ASSUME RowsStay, NEW l \in ThreadState, ThreadOK(l), OpenedRow(l)
  PROVE  OpenedRow(l)'
<1> SUFFICES ASSUME l.pc = "gate"
             PROVE  /\ l.steps[l.index].required > 1 => chain'[l.opened].status # "ABSENT"
                    /\ l.steps[l.index].required <= 1 => approval'[l.opened].status # "ABSENT"
  BY DEF OpenedRow
<1> QED
  BY DEF RowsStay, ThreadOK, OpenedRow

LEMMA CallStays ==
  ASSUME RowsStay, NEW c \in RequestState, CallRow(c)
  PROVE  CallRow(c)'
BY RootedStays DEF CallRow, RequestState

(* A step after which each run row, consumer and request is as it was or   *)
(* refers to rows that are there.                                          *)
LEMMA RootStays ==
  ASSUME TypeOK, LocalsOK, RowsStay, RootInv,
         \A r \in RunIds : Rooted(run[r])' \/ UNCHANGED (run[r])
                           \/ (run'[r].approval = run[r].approval /\ run'[r].chain = run[r].chain),
         \A t \in Threads : OpenedRow(thread[t])' \/ UNCHANGED (thread[t]),
         \A q \in Requests : CallRow(request[q])' \/ UNCHANGED (request[q])
  PROVE  RootInv'
<1>1. ASSUME NEW r \in RunIds PROVE Rooted(run[r])'
  <2>1. run[r] \in RunRow /\ Rooted(run[r])
    BY DEF TypeOK, TablesOK, RootInv
  <2> DEFINE row == run[r]
  <2>2. /\ row.approval # None => approval'[row.approval].status # "ABSENT"
        /\ row.chain # None => chain'[row.chain].status # "ABSENT"
    BY <2>1 DEF RowsStay, Rooted, RunRow
  <2> QED
    BY <2>2 DEF Rooted
<1>2. ASSUME NEW t \in Threads PROVE OpenedRow(thread[t])'
  <2>1. thread[t] \in ThreadState /\ ThreadOK(thread[t]) /\ OpenedRow(thread[t])
    BY DEF TypeOK, LocalsOK, RootInv
  <2>2. CASE thread'[t] = thread[t]
    <3>1. PICK l : l = thread[t]
      OBVIOUS
    <3>2. OpenedRow(l)'
      BY <2>1, <3>1, OpenedStays
    <3> QED
      BY <2>2, <3>1, <3>2 DEF OpenedRow
  <2> QED
    BY <2>2
<1>3. ASSUME NEW q \in Requests PROVE CallRow(request[q])'
  <2>1. request[q] \in RequestState /\ CallRow(request[q])
    BY DEF TypeOK, RootInv
  <2>2. CASE request'[q] = request[q]
    <3>1. PICK c : c = request[q]
      OBVIOUS
    <3>2. CallRow(c)'
      BY <2>1, <3>1, CallStays
    <3> QED
      BY <2>2, <3>1, <3>2 DEF CallRow, Rooted
  <2> QED
    BY <2>2
<1> QED
  BY <1>1, <1>2, <1>3 DEF RootInv

LEMMA WorkerKeepsRoots ==
  ASSUME TypeOK, LocalsOK, TypeOK', LocalsOK', RowsStay, RootInv,
         NEW t \in Threads, WorkerStep(t)
  PROVE  RootInv'
<1> DEFINE l == thread[t]
           n == thread'[t]
<1>1. WorkerTurn(t, l, n)
  BY WorkerTurns
<1>2. UNCHANGED request /\ \A s \in Threads : s # t => thread'[s] = thread[s]
  BY WorkerFrame
<1>3. /\ l \in ThreadState /\ ThreadOK(l) /\ OpenedRow(l) /\ run \in [RunIds -> RunRow]
      /\ n \in ThreadState /\ ThreadOK(n)
      /\ approval \in [ApprovalIds -> ApprovalRow] /\ chain \in [ChainIds -> ChainRow]
  BY DEF TypeOK, TablesOK, LocalsOK, RootInv
<1>4. OpenedRow(thread[t])'
  <2>1. SUFFICES ASSUME n.pc = "gate"
                 PROVE  /\ n.steps[n.index].required > 1 => chain'[n.opened].status # "ABSENT"
                        /\ n.steps[n.index].required <= 1 => approval'[n.opened].status # "ABSENT"
    BY DEF OpenedRow
  <2>2. /\ \/ \E c \in ChainIds : OpenChain(t, c) /\ n.opened = c
           \/ \E a \in ApprovalIds : OpenApproval(t, a) /\ n.opened = a
        /\ n.steps = l.steps /\ n.index = l.index
    <3>1. IdleThread.pc = "idle"
      BY DEF IdleThread
    <3> HIDE DEF l, n
    <3> QED
      BY <1>1, <2>1, <3>1 DEF WorkerTurn, SameWalk
  <2>3. n.steps[n.index].required \in Nat
    <3>1. n.steps \in Seq(Step) /\ n.index \in DOMAIN n.steps
      BY <1>3, <2>1 DEF ThreadState, ThreadOK
    <3>2. n.steps[n.index] \in Step
      BY <3>1
    <3> QED
      BY <3>2 DEF Step
  <2>4. ASSUME NEW c \in ChainIds, OpenChain(t, c), n.opened = c
        PROVE  chain'[n.opened].status # "ABSENT" /\ n.steps[n.index].required > 1
    BY <1>3, <2>2, <2>4 DEF OpenChain, CurrentStep
  <2>5. ASSUME NEW a \in ApprovalIds, OpenApproval(t, a), n.opened = a
        PROVE  approval'[n.opened].status # "ABSENT" /\ n.steps[n.index].required <= 1
    BY <1>3, <2>2, <2>5 DEF OpenApproval, CurrentStep, NoApproval
  <2> QED
    BY <2>2, <2>3, <2>4, <2>5
<1>5. ASSUME NEW r \in RunIds
      PROVE  \/ Rooted(run[r])' \/ run'[r] = run[r]
             \/ run'[r].approval = run[r].approval /\ run'[r].chain = run[r].chain
  <2>1. ASSUME NEW k \in RunIds, CreateRun(t, k)
        PROVE  Rooted(run[r])' \/ run'[r] = run[r]
    <3>1. run' = [run EXCEPT ![k] = [NoRun EXCEPT !.status = "RUNNING"]]
      BY <2>1 DEF CreateRun
    <3>2. r = k => run'[r].approval = None /\ run'[r].chain = None
      BY <1>3, <3>1 DEF NoRun
    <3> QED
      BY <1>3, <3>1, <3>2 DEF Rooted
  <2>2. ASSUME RecordFailure(t) \/ Complete(t)
        PROVE  run'[r].approval = run[r].approval /\ run'[r].chain = run[r].chain
    BY <1>3, <2>2 DEF RecordFailure, Complete, RunRow
  <2>3. ASSUME RecordGate(t), r = l.run
        PROVE  Rooted(run[r])'
    <3> DEFINE gate == l.steps[l.index]
    <3>1. l.pc = "gate"
      BY <2>3 DEF RecordGate
    <3>2. PICK allow : run' = [run EXCEPT ![l.run] = WaitAt(@, gate, l.opened, l.index, allow)]
      BY <2>3 DEF RecordGate, CurrentStep
    <3>3. gate.required \in Nat
      <4>1. l.steps \in Seq(Step) /\ l.index \in DOMAIN l.steps
        BY <1>3, <3>1 DEF ThreadState, ThreadOK
      <4>2. gate \in Step
        BY <4>1
      <4> QED
        BY <4>2 DEF Step
    <3>4. run[r] \in RunRow /\ Rooted(run[r])
      BY DEF RootInv, TypeOK, TablesOK
    <3>5. run'[r] = WaitAt(run[r], gate, l.opened, l.index, allow)
      BY <1>3, <2>3, <3>2
    <3>6. CASE gate.required > 1
      <4>1. run'[r].chain = l.opened /\ run'[r].approval = run[r].approval
        BY <3>4, <3>5, <3>6 DEF WaitAt, RunRow
      <4>2. chain[l.opened].status # "ABSENT" /\ l.opened \in ChainIds
        BY <1>3, <3>1, <3>6 DEF OpenedRow, ThreadOK
      <4>3. chain'[run'[r].chain].status # "ABSENT"
        BY <4>1, <4>2 DEF RowsStay
      <4>4. run'[r].approval # None => approval'[run'[r].approval].status # "ABSENT"
        BY <3>4, <4>1 DEF RowsStay, Rooted, RunRow
      <4> QED
        BY <4>3, <4>4 DEF Rooted
    <3>7. CASE ~ (gate.required > 1)
      <4>1. run'[r].chain = run[r].chain /\ run'[r].approval = l.opened
        BY <3>4, <3>5, <3>7 DEF WaitAt, RunRow
      <4>2. gate.required <= 1
        BY <3>3, <3>7
      <4>3. approval[l.opened].status # "ABSENT" /\ l.opened \in ApprovalIds
        BY <1>3, <3>1, <4>2 DEF OpenedRow, ThreadOK
      <4>4. approval'[run'[r].approval].status # "ABSENT"
        BY <4>1, <4>3 DEF RowsStay
      <4>5. run'[r].chain # None => chain'[run'[r].chain].status # "ABSENT"
        BY <3>4, <4>1 DEF RowsStay, Rooted, RunRow
      <4> QED
        BY <4>4, <4>5 DEF Rooted
    <3> QED
      BY <3>6, <3>7
  <2>4. ASSUME RecordGate(t), r # l.run PROVE run'[r] = run[r]
    BY <1>3, <2>4 DEF RecordGate
  <2>5. \/ UNCHANGED run \/ (\E k \in RunIds : CreateRun(t, k))
        \/ RecordGate(t) \/ RecordFailure(t) \/ Complete(t)
    BY DEF WorkerStep, StartStep, AdvanceStep, Take, CheckActive, LoadRun, EvalCondition,
       RunAction, FailAction, OpenChain, OpenApproval, NotifyApprovers, rows
  <2> QED
    BY <2>1, <2>2, <2>3, <2>4, <2>5
<1> QED
  BY <1>2, <1>4, <1>5, RootStays

LEMMA RequestKeepsRoots ==
  ASSUME TypeOK, LocalsOK, TypeOK', RowsStay, RootInv, NEW q \in Requests,
         Receive(q) \/ DecisionStep(q) \/ LoseRequest(q)
  PROVE  RootInv'
<1> DEFINE c == request[q]
           d == request'[q]
<1>1. RequestTurn(q, c, d)
  BY RequestTurns
<1>2. UNCHANGED thread /\ \A p \in Requests : p # q => request'[p] = request[p]
  BY RequestFrame
<1>3. /\ c \in RequestState /\ RequestOK(c) /\ CallRow(c) /\ run \in [RunIds -> RunRow]
  BY DEF TypeOK, TablesOK, LocalsOK, RootInv
<1>4. ASSUME NEW row \in RunRow, Rooted(row), d.row = row,
             d.pc \in {"single", "write"} => row.chain = None
      PROVE  CallRow(request[q])'
  <2>1. /\ row.approval # None => approval'[row.approval].status # "ABSENT"
        /\ row.chain # None => chain'[row.chain].status # "ABSENT"
    BY <1>4 DEF RowsStay, Rooted, RunRow
  <2> QED
    BY <1>4, <2>1 DEF CallRow, Rooted
<1>5. CallRow(request[q])'
  <2>1. CASE d.pc = "idle"
    BY <2>1 DEF CallRow
  <2>2. ASSUME NEW k \in RunIds, d.row = run[k],
               d.pc = IF run[k].chain # None THEN "chain" ELSE "single"
        PROVE  CallRow(request[q])'
    <3>1. run[k] \in RunRow /\ Rooted(run[k])
      BY <1>3 DEF RootInv
    <3> QED
      BY <1>4, <2>2, <3>1
  <2>3. CASE c.pc # "idle" /\ d.row = c.row /\ (d.pc \in {"single", "write"} => c.pc = "single")
    <3>1. c.row \in RunRow /\ Rooted(c.row) /\ (c.pc = "single" => c.row.chain = None)
      BY <1>3, <2>3 DEF CallRow, RequestState
    <3> QED
      BY <1>4, <2>3, <3>1
  <2>4. \/ d.pc = "idle"
        \/ \E k \in RunIds : d.row = run[k] /\ d.pc = IF run[k].chain # None THEN "chain" ELSE "single"
        \/ c.pc # "idle" /\ d.row = c.row /\ (d.pc \in {"single", "write"} => c.pc = "single")
    <3>1. IdleRequest.pc = "idle"
      BY DEF IdleRequest
    <3> HIDE DEF c, d
    <3> QED
      BY <1>1, <3>1 DEF RequestTurn, SameCall
  <2> QED
    BY <2>1, <2>2, <2>3, <2>4
<1>6. ASSUME NEW r \in RunIds
      PROVE  run'[r].approval = run[r].approval /\ run'[r].chain = run[r].chain
  <2>1. CASE MoveRun(q)
    BY <1>3, <2>1 DEF MoveRun, RunRow
  <2>2. CASE UNCHANGED run
    BY <2>2
  <2> QED
    BY <2>1, <2>2, RequestFrame
<1> QED
  BY <1>2, <1>5, <1>6, RootStays

LEMMA RootStep ==
  ASSUME TypeOK, LocalsOK, RootInv, [Next]_vars
  PROVE  RootInv'
<1>1. TypeOK' /\ LocalsOK' /\ RowsStay
  BY TypeStep, RowsStayStep
<1>2. ASSUME UNCHANGED <<run, request>>, \A t \in Threads : thread'[t] \in {IdleThread, thread[t]}
      PROVE  RootInv'
  <2>1. \A t \in Threads : OpenedRow(thread[t])' \/ UNCHANGED (thread[t])
    BY <1>2 DEF OpenedRow, IdleThread
  <2> QED
    BY <1>1, <1>2, <2>1, RootStays
<1>3. ASSUME NEW t \in Threads, FailJob(t) PROVE RootInv'
  BY <1>2, <1>3 DEF FailJob, Finish, Become, TypeOK, rows
<1>4. CASE UNCHANGED vars
  BY <1>2, <1>4 DEF vars, rows
<1>5. ASSUME NEW p \in Processes, Crash(p) PROVE RootInv'
  BY <1>2, <1>5 DEF Crash, rows
<1>6. ASSUME UNCHANGED <<rows, thread, request>> PROVE RootInv'
  BY <1>2, <1>6 DEF rows
<1>7. CASE Next
  BY <1>1, <1>3, <1>5, <1>6, <1>7, WorkerKeepsRoots, RequestKeepsRoots
     DEF Next, Trigger, EditRule, ToggleDelegation
<1> QED
  BY <1>4, <1>7

-----------------------------------------------------------------------------
(* One resume consumer, which is what one worker process has.              *)
OneResumer == \A s, t \in Threads : ~ Starter(s) /\ ~ Starter(t) => s = t

(* A run no decision on which was written over another is walked only      *)
(* while RUNNING, and moved only while it waits at the very gate the       *)
(* mover has decided.                                                      *)
WalkOK(l) ==
  \A r \in RunIds :
    l.run = r /\ l.pc \in Midway /\ ~ overlapped[r] => run[r].status = "RUNNING"
Deciding(c) ==
  c.pc # "idle" /\ ~ overlapped[c.run] =>
    /\ c.row.status = "WAITING_APPROVAL"
    /\ GateOpen(c.row) => run[c.run] = c.row
    /\ c.pc = "move" => run[c.run] = c.row
    /\ c.pc \in {"move", "enqueue"} => ~ GateOpen(c.row)
OneMover ==
  \A p, q \in Requests :
    request[p].pc = "move" /\ request[q].pc = "move" /\ request[p].run = request[q].run
      => p = q \/ overlapped[request[p].run]
SoloInv ==
  /\ \A t \in Threads : WalkOK(thread[t])
  /\ \A q \in Requests : Deciding(request[q])
  /\ OneMover
RunInv == TypeOK /\ LocalsOK /\ FirstInv /\ RootInv /\ SoloInv

LEMMA SoloInit == Init => SoloInv
BY DEF Init, SoloInv, WalkOK, Deciding, OneMover, Midway, IdleThread, IdleRequest

LEMMA OneWalker ==
  ASSUME OneResumer, FirstInv, NEW s \in Threads, NEW t \in Threads, NEW r \in RunIds,
         Walks(thread[s], r), Walks(thread[t], r)
  PROVE  s = t
<1>1. Holds(thread[s], r) /\ Holds(thread[t], r)
  BY DEF Walks, Midway, Holds
<1>2. CASE Starter(s)
  BY <1>1, <1>2 DEF FirstInv, FirstWalks, Alone
<1>3. CASE Starter(t)
  BY <1>1, <1>3 DEF FirstInv, FirstWalks, Alone
<1> QED
  BY <1>2, <1>3 DEF OneResumer

LEMMA ShutStays ==
  ASSUME RowsStay, NEW row \in RunRow, Rooted(row), GateOpen(row)'
  PROVE  GateOpen(row)
<1>1. CASE row.chain # None
  BY <1>1 DEF GateOpen, Rooted, RowsStay, RunRow
<1>2. CASE row.chain = None
  BY <1>2 DEF GateOpen, Rooted, RowsStay, RunRow
<1> QED
  BY <1>1, <1>2

(* A request that stays where it was, or gets no further than its gate.    *)
LEMMA DecidingStays ==
  ASSUME RowsStay, NEW c \in RequestState, RequestOK(c), CallRow(c), Deciding(c),
         NEW d, SameCall(d, c), c.pc # "idle",
         d.pc = "move" => c.pc = "move", d.pc = "enqueue" => c.pc \in {"move", "enqueue"},
         overlapped[c.run] => overlapped'[c.run],
         run'[c.run] = run[c.run] \/ (~ overlapped[c.run] => ~ GateOpen(c.row) /\ d.pc # "move")
  PROVE  Deciding(d)'
<1>1. SUFFICES ASSUME ~ overlapped[c.run]
               PROVE  /\ c.row.status = "WAITING_APPROVAL"
                      /\ GateOpen(c.row)' => run'[c.run] = c.row
                      /\ d.pc = "move" => run'[c.run] = c.row
                      /\ d.pc \in {"move", "enqueue"} => ~ GateOpen(c.row)'
  BY DEF Deciding, SameCall, GateOpen
<1>2. c.row \in RunRow /\ Rooted(c.row)
  BY DEF CallRow, RequestState
<1>3. GateOpen(c.row)' => GateOpen(c.row)
  BY <1>2, ShutStays
<1> QED
  BY <1>1, <1>3 DEF Deciding

LEMMA WorkerKeepsSolo ==
  ASSUME OneResumer, RunInv, RowsStay, NEW t \in Threads, WorkerStep(t)
  PROVE  SoloInv'
<1> DEFINE l == thread[t]
           n == thread'[t]
<1>1. WorkerTurn(t, l, n) /\ TypeOK /\ LocalsOK /\ FirstInv
  BY WorkerTurns DEF RunInv
<1>2. UNCHANGED <<request, overlapped>> /\ \A s \in Threads : s # t => thread'[s] = thread[s]
  BY <1>1, WorkerFrame
<1>3. \A s \in Threads : WalkOK(thread[s])
  BY DEF RunInv, SoloInv
<1>4. ASSUME NEW r \in RunIds, ~ overlapped[r], run'[r] # run[r]
      PROVE  \/ run[r].status = "ABSENT"
             \/ /\ run[r].status = "RUNNING" /\ l.run = r /\ l.pc \in Midway
                /\ n.pc \in {"notify", "idle"}
  <2>1. CASE run[r].status = "ABSENT"
    BY <2>1
  <2>2. CASE l.run = r /\ l.pc \in Midway /\ n.pc \in {"notify", "idle"}
    BY <1>3, <1>4, <2>2 DEF WalkOK
  <2> QED
    BY <1>1, <1>4, <2>1, <2>2, WorkerWrites
<1>5. ASSUME NEW s \in Threads, NEW r \in RunIds, ~ overlapped[r],
             thread'[s].run = r, thread'[s].pc \in Midway
      PROVE  run'[r].status = "RUNNING"
  <2>1. CASE s # t
    <3>1. thread[s].run = r /\ thread[s].pc \in Midway
      BY <1>2, <1>5, <2>1
    <3>2. run[r].status = "RUNNING"
      BY <1>3, <1>5, <3>1 DEF WalkOK
    <3>3. ~ (l.run = r /\ l.pc \in Midway)
      BY <1>1, <2>1, <3>1, OneWalker DEF Walks
    <3> QED
      BY <1>4, <1>5, <3>2, <3>3
  <2>2. CASE s = t
    <3>1. /\ n.run = r /\ n.pc \in Midway
      BY <1>5, <2>2
    <3>2. \/ l.run = r /\ l.pc = "step"
          \/ l.run = r /\ run[l.run].status = "RUNNING"
      <4>1. IdleThread.pc = "idle"
        BY DEF IdleThread
      <4> HIDE DEF l, n
      <4> QED
        BY <1>1, <3>1, <4>1 DEF WorkerTurn, SameWalk, SameRun, Midway
    <3>3. run[r].status = "RUNNING"
      BY <1>3, <1>5, <3>2 DEF WalkOK, Midway
    <3>4. n.pc \notin {"notify", "idle"}
      BY <3>1 DEF Midway
    <3> QED
      BY <1>4, <1>5, <3>3, <3>4
  <2> QED
    BY <2>1, <2>2
<1>6. ASSUME NEW q \in Requests PROVE Deciding(request[q])'
  <2>1. PICK c : c = request[q]
    OBVIOUS
  <2>2. c \in RequestState /\ RequestOK(c) /\ CallRow(c) /\ Deciding(c)
    BY <2>1 DEF RunInv, TypeOK, LocalsOK, RootInv, SoloInv
  <2>3. CASE c.pc = "idle"
    BY <1>2, <2>1, <2>3 DEF Deciding
  <2>4. CASE c.pc # "idle"
    <3>1. c.run \in RunIds
      BY <2>2, <2>4 DEF RequestOK
    <3>2. ~ overlapped[c.run] /\ (GateOpen(c.row) \/ c.pc = "move")
            => run[c.run].status = "WAITING_APPROVAL"
      BY <2>2, <2>4 DEF Deciding
    <3>3. run'[c.run] = run[c.run] \/ (~ overlapped[c.run] => ~ GateOpen(c.row) /\ c.pc # "move")
      BY <1>4, <3>1, <3>2
    <3>4. SameCall(c, c)
      BY DEF SameCall
    <3>5. Deciding(c)'
      BY <1>2, <2>2, <2>4, <3>3, <3>4, DecidingStays
    <3> QED
      BY <1>2, <2>1, <3>5 DEF Deciding, GateOpen
  <2> QED
    BY <2>3, <2>4
<1>7. OneMover'
  BY <1>2 DEF RunInv, SoloInv, OneMover
<1>8. ASSUME NEW s \in Threads PROVE WalkOK(thread[s])'
  BY <1>2, <1>5 DEF WalkOK
<1> QED
  BY <1>6, <1>7, <1>8 DEF SoloInv

(* A verdict is written over no other one only while the run still waits   *)
(* at the gate it was asked about, which is then open no more.             *)
LEMMA VerdictMovesOne ==
  ASSUME RunInv, NEW q \in Requests, WriteVerdict(q) \/ CloseChain(q),
         NEW c, c = request[q], request'[q].pc = "move", ~ overlapped'[c.run]
  PROVE  /\ ~ overlapped[c.run] /\ c.row.status = "WAITING_APPROVAL"
         /\ run[c.run] = c.row /\ GateOpen(c.row) /\ ~ GateOpen(c.row)'
<1>1. /\ c \in RequestState /\ RequestOK(c) /\ CallRow(c) /\ Deciding(c)
      /\ overlapped \in [RunIds -> BOOLEAN] /\ request \in [Requests -> RequestState]
      /\ approval \in [ApprovalIds -> ApprovalRow] /\ chain \in [ChainIds -> ChainRow]
  BY DEF RunInv, TypeOK, TablesOK, HistoryOK, LocalsOK, RootInv, SoloInv
<1>2. None \notin ApprovalIds /\ None \notin ChainIds
  BY ConstantsAssumption
<1>3. CASE WriteVerdict(q)
  <2> DEFINE a == c.row.approval
  <2>1. c.pc = "write" /\ a \in ApprovalIds /\ c.run \in RunIds /\ c.decision \in Verdict
        /\ c.row.chain = None
    BY <1>1, <1>3 DEF WriteVerdict, RequestOK, CallRow
  <2>2. ~ Return(q)
    <3>1. Return(q) => request'[q].pc = "idle"
      BY <1>1 DEF Return, IdleRequest
    <3> QED
      BY <3>1
  <2>3. /\ approval' = [approval EXCEPT ![a].status = c.decision, ![a].by = c.user]
        /\ overlapped' = [overlapped EXCEPT ![c.run] = @ \/ approval[a].status # "PENDING"]
    BY <1>3, <2>2 DEF WriteVerdict
  <2>4. overlapped'[c.run] = (overlapped[c.run] \/ approval[a].status # "PENDING")
    BY <1>1, <2>1, <2>3
  <2>5. ~ overlapped[c.run] /\ approval[a].status = "PENDING"
    BY <2>4
  <2>6. GateOpen(c.row)
    BY <1>2, <2>1, <2>5 DEF GateOpen
  <2>7. approval'[a].status = c.decision
    BY <1>1, <2>1, <2>3 DEF ApprovalRow
  <2>8. ~ GateOpen(c.row)'
    BY <2>1, <2>7 DEF GateOpen, Verdict
  <2> QED
    BY <1>1, <2>1, <2>5, <2>6, <2>8 DEF Deciding
<1>4. CASE CloseChain(q)
  <2> DEFINE k == c.row.chain
  <2>1. c.pc = "close" /\ k \in ChainIds /\ c.run \in RunIds /\ c.decision \in Verdict
    BY <1>1, <1>4 DEF CloseChain, RequestOK
  <2>2. /\ chain' = [chain EXCEPT ![k].status = c.decision]
        /\ overlapped' = [overlapped EXCEPT ![c.run] = @ \/ chain[k].status # "PENDING"]
    BY <1>4 DEF CloseChain
  <2>3. overlapped'[c.run] = (overlapped[c.run] \/ chain[k].status # "PENDING")
    BY <1>1, <2>1, <2>2
  <2>4. ~ overlapped[c.run] /\ chain[k].status = "PENDING"
    BY <2>3
  <2>5. GateOpen(c.row)
    BY <1>2, <2>1, <2>4 DEF GateOpen
  <2>6. chain'[k].status = c.decision
    BY <1>1, <2>1, <2>2 DEF ChainRow
  <2>7. ~ GateOpen(c.row)'
    BY <1>2, <2>1, <2>6 DEF GateOpen, Verdict
  <2> QED
    BY <1>1, <2>1, <2>4, <2>5, <2>7 DEF Deciding
<1> QED
  BY <1>3, <1>4

LEMMA OverlapStays ==
  ASSUME TypeOK, LocalsOK, NEW q \in Requests, Receive(q) \/ DecisionStep(q) \/ LoseRequest(q),
         NEW r \in RunIds, overlapped[r]
  PROVE  overlapped'[r]
<1>1. overlapped \in [RunIds -> BOOLEAN]
  BY DEF TypeOK, HistoryOK
<1>2. CASE UNCHANGED overlapped
  BY <1>2
<1>3. CASE WriteVerdict(q)
  BY <1>1, <1>3 DEF WriteVerdict
<1>4. CASE CloseChain(q)
  BY <1>1, <1>4 DEF CloseChain
<1> QED
  BY <1>2, <1>3, <1>4, RequestFrame

LEMMA RequestKeepsSolo ==
  ASSUME RunInv, RowsStay, NEW q \in Requests, Receive(q) \/ DecisionStep(q) \/ LoseRequest(q)
  PROVE  SoloInv'
<1> DEFINE c == request[q]
           d == request'[q]
<1>1. RequestTurn(q, c, d) /\ TypeOK /\ LocalsOK
  BY RequestTurns DEF RunInv
<1>2. UNCHANGED thread /\ \A p \in Requests : p # q => request'[p] = request[p]
  BY <1>1, RequestFrame
<1>3. /\ c \in RequestState /\ RequestOK(c) /\ CallRow(c) /\ Deciding(c)
  BY DEF RunInv, TypeOK, LocalsOK, RootInv, SoloInv
<1>4. ASSUME NEW r \in RunIds, ~ overlapped[r], run'[r] # run[r]
      PROVE  /\ MoveRun(q) /\ c.pc = "move" /\ c.run = r
             /\ run[r] = c.row /\ run[r].status = "WAITING_APPROVAL" /\ ~ GateOpen(c.row)
  <2>1. MoveRun(q) /\ c.pc = "move" /\ c.run = r
    BY <1>1, <1>4, RequestWrites
  <2> QED
    BY <1>3, <1>4, <2>1 DEF Deciding
<1>5. ASSUME NEW t \in Threads PROVE WalkOK(thread[t])'
  <2> SUFFICES ASSUME NEW r \in RunIds, thread[t].run = r, thread[t].pc \in Midway,
                      ~ overlapped'[r]
               PROVE  run'[r].status = "RUNNING"
    BY <1>2 DEF WalkOK
  <2>1. ~ overlapped[r]
    BY <1>1, OverlapStays
  <2>2. run[r].status = "RUNNING"
    BY <2>1 DEF RunInv, SoloInv, WalkOK
  <2> QED
    BY <1>4, <2>1, <2>2
<1>6. ASSUME NEW p \in Requests, p # q PROVE Deciding(request[p])'
  <2>1. PICK e : e = request[p]
    OBVIOUS
  <2>2. e \in RequestState /\ RequestOK(e) /\ CallRow(e) /\ Deciding(e)
    BY <2>1 DEF RunInv, TypeOK, LocalsOK, RootInv, SoloInv
  <2>3. CASE e.pc = "idle"
    BY <1>2, <1>6, <2>1, <2>3 DEF Deciding
  <2>4. CASE e.pc # "idle"
    <3>1. e.run \in RunIds
      BY <2>2, <2>4 DEF RequestOK
    <3>2. ASSUME ~ overlapped[e.run], run'[e.run] # run[e.run]
          PROVE  ~ GateOpen(e.row) /\ e.pc # "move"
      <4>1. MoveRun(q) /\ c.pc = "move" /\ c.run = e.run /\ run[e.run] = c.row /\ ~ GateOpen(c.row)
        BY <1>4, <3>1, <3>2
      <4>2. GateOpen(e.row) => run[e.run] = e.row
        BY <2>2, <2>4, <3>2 DEF Deciding
      <4>3. e.pc = "move" => p = q
        BY <2>1, <3>2, <4>1 DEF RunInv, SoloInv, OneMover
      <4> QED
        BY <1>6, <4>1, <4>2, <4>3
    <3>3. SameCall(e, e)
      BY DEF SameCall
    <3>4. overlapped[e.run] => overlapped'[e.run]
      BY <1>1, <3>1, OverlapStays
    <3>5. Deciding(e)'
      BY <2>2, <2>4, <3>2, <3>3, <3>4, DecidingStays
    <3> QED
      BY <1>2, <1>6, <2>1, <3>5 DEF Deciding, GateOpen
  <2> QED
    BY <2>3, <2>4
<1>7. Deciding(request[q])'
  <2>1. CASE d.pc = "idle"
    BY <2>1 DEF Deciding
  <2>2. ASSUME NEW u \in Users, NEW r \in RunIds, NEW v \in Verdict, ReceiveDecision(q, u, r, v),
               d.row = run[r], d.run = r, d.pc \in {"chain", "single"}
        PROVE  Deciding(request[q])'
    <3>1. UNCHANGED run /\ run[r].status = "WAITING_APPROVAL"
      BY <2>2 DEF ReceiveDecision, rows
    <3> QED
      BY <2>2, <3>1 DEF Deciding
  <2>3. CASE (WriteVerdict(q) \/ CloseChain(q)) /\ SameCall(d, c) /\ d.pc = "move"
    <3>1. SUFFICES ASSUME ~ overlapped'[c.run]
                   PROVE  /\ c.row.status = "WAITING_APPROVAL"
                          /\ run'[c.run] = c.row /\ ~ GateOpen(c.row)'
      BY <2>3 DEF Deciding, SameCall, GateOpen
    <3>2. UNCHANGED run
      BY <2>3 DEF WriteVerdict, CloseChain
    <3>3. PICK e : e = c
      OBVIOUS
    <3>4. e.row.status = "WAITING_APPROVAL" /\ run[e.run] = e.row /\ ~ GateOpen(e.row)'
      BY <2>3, <3>1, <3>3, VerdictMovesOne
    <3> QED
      BY <2>3, <3>2, <3>3, <3>4 DEF SameCall, GateOpen
  <2>4. CASE /\ SameCall(d, c) /\ c.pc # "idle" /\ d.pc # "move"
             /\ d.pc = "enqueue" => c.pc = "move"
    <3>1. c.run \in RunIds
      BY <1>3, <2>4 DEF RequestOK
    <3>2. run'[c.run] = run[c.run] \/ (~ overlapped[c.run] => ~ GateOpen(c.row) /\ d.pc # "move")
      BY <1>4, <2>4, <3>1
    <3>3. overlapped[c.run] => overlapped'[c.run]
      BY <1>1, <3>1, OverlapStays
    <3>4. PICK e, f : e = c /\ f = d
      OBVIOUS
    <3>5. Deciding(f)'
      BY <1>3, <2>4, <3>2, <3>3, <3>4, DecidingStays
    <3> QED
      BY <3>4, <3>5 DEF Deciding, GateOpen
  <2>5. \/ d.pc = "idle"
        \/ \E u \in Users, r \in RunIds, v \in Verdict :
             /\ ReceiveDecision(q, u, r, v)
             /\ d.row = run[r] /\ d.run = r /\ d.pc \in {"chain", "single"}
        \/ (WriteVerdict(q) \/ CloseChain(q)) /\ SameCall(d, c) /\ d.pc = "move"
        \/ /\ SameCall(d, c) /\ c.pc # "idle" /\ d.pc # "move"
           /\ d.pc = "enqueue" => c.pc = "move"
    <3>1. IdleRequest.pc = "idle"
      BY DEF IdleRequest
    <3> HIDE DEF c, d
    <3> QED
      BY <1>1, <3>1 DEF RequestTurn
  <2> QED
    BY <2>1, <2>2, <2>3, <2>4, <2>5
<1>8. OneMover'
  <2> SUFFICES ASSUME NEW p \in Requests, NEW s \in Requests, p # s,
                      request'[p].pc = "move", request'[s].pc = "move",
                      request'[p].run = request'[s].run, ~ overlapped'[request'[p].run]
               PROVE  FALSE
    BY DEF OneMover
  <2>1. ASSUME NEW x \in Requests, x # q, request[x].pc = "move", d.pc = "move",
               request[x].run = d.run, ~ overlapped'[d.run]
        PROVE  FALSE
    <3> DEFINE e == request[x]
    <3>1. RequestOK(e) /\ Deciding(e)
      BY DEF RunInv, LocalsOK, SoloInv
    <3>2. (WriteVerdict(q) \/ CloseChain(q)) /\ SameCall(d, c)
      <4>1. IdleRequest.pc = "idle"
        BY DEF IdleRequest
      <4> HIDE DEF c, d
      <4> QED
        BY <1>1, <2>1, <4>1 DEF RequestTurn
    <3>3. /\ ~ overlapped[c.run] /\ run[c.run] = c.row /\ GateOpen(c.row)
      BY <2>1, <3>2, VerdictMovesOne DEF SameCall
    <3>4. run[c.run] = e.row /\ ~ GateOpen(e.row)
      BY <2>1, <3>1, <3>2, <3>3 DEF Deciding, SameCall
    <3> QED
      BY <3>3, <3>4
  <2>2. CASE p = q
    BY <1>2, <2>1, <2>2
  <2>3. CASE s = q
    BY <1>2, <2>1, <2>3
  <2>4. CASE p # q /\ s # q
    <3>1. request[p].pc = "move" /\ request[s].pc = "move" /\ request[p].run = request[s].run
          /\ ~ overlapped'[request[p].run] /\ RequestOK(request[p])
      BY <1>2, <2>4 DEF RunInv, LocalsOK
    <3>2. ~ overlapped[request[p].run]
      BY <1>1, <3>1, OverlapStays DEF RequestOK
    <3> QED
      BY <3>1, <3>2 DEF RunInv, SoloInv, OneMover
  <2> QED
    BY <2>2, <2>3, <2>4
<1> QED
  BY <1>2, <1>5, <1>6, <1>7, <1>8 DEF SoloInv

LEMMA SoloStep ==
  ASSUME OneResumer, RunInv, RowsStay, [Next]_vars
  PROVE  SoloInv'
(* Consumers and requests stay where they are or go idle.                  *)
<1>1. ASSUME UNCHANGED <<rows, overlapped, request>>,
             \A t \in Threads : thread'[t] \in {IdleThread, thread[t]}
      PROVE  SoloInv'
  <2>1. \A t \in Threads : WalkOK(thread[t])'
    <3>1. IdleThread.pc \notin Midway
      BY DEF IdleThread, Midway
    <3> QED
      BY <1>1, <3>1 DEF RunInv, SoloInv, WalkOK, rows
  <2>2. \A q \in Requests : Deciding(request[q])'
    BY <1>1 DEF RunInv, SoloInv, Deciding, GateOpen, rows
  <2> QED
    BY <1>1, <2>1, <2>2 DEF RunInv, SoloInv, OneMover
<1>2. ASSUME NEW t \in Threads, FailJob(t) PROVE SoloInv'
  BY <1>1, <1>2 DEF FailJob, Finish, Become, RunInv, TypeOK, history
<1>3. ASSUME NEW p \in Processes, Crash(p) PROVE SoloInv'
  BY <1>1, <1>3 DEF Crash, history
<1>4. ASSUME UNCHANGED <<rows, overlapped, thread, request>> PROVE SoloInv'
  BY <1>1, <1>4
<1>5. CASE UNCHANGED vars
  BY <1>4, <1>5 DEF vars, history
<1>6. CASE Next
  BY <1>2, <1>3, <1>4, <1>6, WorkerKeepsSolo, RequestKeepsSolo
     DEF Next, Trigger, EditRule, ToggleDelegation, history
<1> QED
  BY <1>5, <1>6

LEMMA RunStep == ASSUME OneResumer PROVE RunInv /\ [Next]_vars => RunInv'
BY TypeStep, FirstStep, RowsStayStep, RootStep, SoloStep DEF RunInv

LEMMA RunInit == Init => RunInv
BY TypeInit, FirstInit, RootInit, SoloInit DEF RunInv

(* What a step may do to the row of a run with no overwritten decision.    *)
LEMMA RunGoesOn ==
  ASSUME RunInv, Next, NEW r \in RunIds, ~ overlapped'[r], run'[r] # run[r]
  PROVE  \/ run[r].status = "ABSENT" /\ \E t \in Threads : CreateRun(t, r)
         \/ run[r].status \in Active
<1>0. TypeOK /\ LocalsOK
  BY DEF RunInv
<1>1. ASSUME NEW t \in Threads, WorkerStep(t)
      PROVE  \/ run[r].status = "ABSENT" /\ CreateRun(t, r)
             \/ run[r].status \in Active
  <2>1. ~ overlapped[r]
    BY <1>0, <1>1, WorkerFrame
  <2>2. thread[t].run = r /\ thread[t].pc \in Midway => run[r].status = "RUNNING"
    BY <2>1 DEF RunInv, SoloInv, WalkOK
  <2> QED
    BY <1>0, <1>1, <2>2, WorkerWrites DEF Active
<1>2. ASSUME NEW q \in Requests, Receive(q) \/ DecisionStep(q) \/ LoseRequest(q)
      PROVE  run[r].status \in Active
  <2>1. ~ overlapped[r]
    BY <1>0, <1>2, OverlapStays
  <2>2. request[q].pc = "move" /\ request[q].run = r
    BY <1>0, <1>2, RequestWrites
  <2> QED
    BY <2>1, <2>2 DEF RunInv, SoloInv, Deciding, Active
<1> QED
  BY <1>1, <1>2 DEF Next, Trigger, EditRule, ToggleDelegation, FailJob, Crash, rows

(* With one resume consumer a finished run stays as it is, through         *)
(* crashes, redeliveries, edits and racing decisions, unless one of these  *)
(* was written over another (advanceRun, decide*Gate).                     *)
THEOREM FinishedRunsStay ==
  ASSUME OneResumer
  PROVE  Spec => FinishedIsFinal
<1> DEFINE Stays == \A r \in RunIds :
             run[r].status \in Terminal /\ ~ overlapped'[r] => run'[r] = run[r]
<1>1. RunInv /\ [Next]_vars => [Stays]_vars
  BY RunGoesOn DEF Active, Terminal
<1>2. RunInv /\ [Next]_vars => RunInv'
  BY RunStep
<1>3. Spec => [][Stays]_vars
  BY <1>1, <1>2, RunInit, PTL DEF Spec
<1> QED
  BY <1>3 DEF FinishedIsFinal

-----------------------------------------------------------------------------
(* A consumer that found no active run has none of its own when it         *)
(* creates one, whoever else has created theirs in between.                *)
CheckHolds ==
  \A t \in Threads : thread[t].pc = "create" =>
    \A r \in RunIds : run[r].status \in Active /\ starter[r] = t => overlapped[r]
StartInv == CheckHolds /\ OneActiveRunEach

LEMMA StartInit == Init => StartInv
BY DEF Init, StartInv, CheckHolds, OneActiveRunEach, IdleThread, NoRun, Active

(* Only the creation of a run says who started it.                         *)
LEMMA StarterStays ==
  ASSUME TypeOK
  PROVE  /\ \A t \in Threads : WorkerStep(t) /\ (\A k \in RunIds : ~ CreateRun(t, k))
               => UNCHANGED starter
         /\ \A q \in Requests : Receive(q) \/ DecisionStep(q) \/ LoseRequest(q)
               => UNCHANGED starter
<1>1. ASSUME NEW t \in Threads, WorkerStep(t), \A k \in RunIds : ~ CreateRun(t, k)
      PROVE  UNCHANGED starter
  BY <1>1 DEF WorkerStep, StartStep, AdvanceStep, Take, CheckActive, LoadRun, EvalCondition,
     RunAction, FailAction, OpenChain, OpenApproval, RecordGate, NotifyApprovers,
     RecordFailure, Complete, history
<1>2. ASSUME NEW q \in Requests, Receive(q) \/ DecisionStep(q) \/ LoseRequest(q)
      PROVE  UNCHANGED starter
  BY <1>2 DEF Receive, LoseRequest, ReceiveDecision, DecisionStep, CheckApproval, WriteVerdict,
     CheckChain, CheckVoted, CastVote, CountVotes, CloseChain, MoveRun, EnqueueResume, history
<1> QED
  BY <1>1, <1>2

LEMMA OneStartStep ==
  ASSUME RunInv, StartInv, [Next]_vars
  PROVE  StartInv'
<1>1. TypeOK /\ LocalsOK /\ FirstInv
  BY DEF RunInv
<1>2. ASSUME NEW r \in RunIds, run'[r].status \in Active, ~ overlapped'[r]
      PROVE  \/ run[r].status \in Active /\ ~ overlapped[r]
             \/ \E t \in Threads : CreateRun(t, r)
  <2>1. run'[r] # run[r] => run[r].status \in Active \/ \E t \in Threads : CreateRun(t, r)
    <3>1. UNCHANGED vars => run'[r] = run[r]
      BY DEF vars, rows
    <3> QED
      BY <1>2, <3>1, RunGoesOn
  <2>2. ~ overlapped[r]
    <3>1. ASSUME UNCHANGED overlapped PROVE ~ overlapped[r]
      BY <1>2, <3>1
    <3>2. CASE UNCHANGED vars
      BY <3>1, <3>2 DEF vars, history
    <3>3. CASE Next
      BY <1>1, <1>2, <3>1, <3>3, WorkerFrame, OverlapStays
         DEF Next, Trigger, EditRule, ToggleDelegation, FailJob, Crash, history
    <3> QED
      BY <3>2, <3>3
  <2> QED
    BY <1>2, <2>1, <2>2
<1>3. CASE \E t \in Threads, k \in RunIds : CreateRun(t, k)
  <2>1. PICK t \in Threads, k \in RunIds : CreateRun(t, k)
    BY <1>3
  <2>2. /\ thread[t].pc = "create" /\ run' = [run EXCEPT ![k] = [NoRun EXCEPT !.status = "RUNNING"]]
        /\ thread' = [thread EXCEPT ![t] = [thread[t] EXCEPT !.pc = "load", !.run = k]]
        /\ starter' = [starter EXCEPT ![k] = t]
        /\ UNCHANGED overlapped /\ thread[t] \in ThreadState
        /\ run \in [RunIds -> RunRow] /\ thread \in [Threads -> ThreadState]
        /\ starter \in [RunIds -> Threads \cup {None}]
    BY <1>1, <2>1 DEF CreateRun, Become, TypeOK, TablesOK, HistoryOK
  <2>3. /\ starter'[k] = t
        /\ \A r \in RunIds : r # k => run'[r] = run[r] /\ starter'[r] = starter[r]
    BY <2>2
  <2>4. ASSUME NEW r \in RunIds, r # k, run'[r].status \in Active, starter'[r] = t
        PROVE  overlapped'[r]
    BY <2>2, <2>3, <2>4 DEF StartInv, CheckHolds
  <2>5. OneActiveRunEach'
    <3> SUFFICES ASSUME NEW r1 \in RunIds, NEW r2 \in RunIds, r1 # r2,
                        run'[r1].status \in Active, run'[r2].status \in Active,
                        starter'[r1] = starter'[r2]
                 PROVE  overlapped'[r1] \/ overlapped'[r2]
      BY DEF OneActiveRunEach
    <3>1. CASE r1 = k
      BY <2>3, <2>4, <3>1
    <3>2. CASE r2 = k
      BY <2>3, <2>4, <3>2
    <3>3. CASE r1 # k /\ r2 # k
      BY <2>2, <2>3, <3>3 DEF StartInv, OneActiveRunEach
    <3> QED
      BY <3>1, <3>2, <3>3
  <2>6. ASSUME NEW s \in Threads, thread'[s].pc = "create",
               NEW r \in RunIds, run'[r].status \in Active, starter'[r] = s
        PROVE  overlapped'[r]
    <3>1. thread'[t].pc = "load"
      BY <2>2 DEF ThreadState
    <3>2. s # t /\ thread[s].pc = "create"
      BY <2>2, <2>6, <3>1
    <3>3. r # k
      BY <2>3, <2>6, <3>2
    <3> QED
      BY <2>2, <2>3, <2>6, <3>2, <3>3 DEF StartInv, CheckHolds
  <2> QED
    BY <2>5, <2>6 DEF StartInv, CheckHolds
<1>4. CASE ~ \E t \in Threads, k \in RunIds : CreateRun(t, k)
  <2>1. \A r \in RunIds : run'[r].status \in Active /\ ~ overlapped'[r] =>
          run[r].status \in Active /\ ~ overlapped[r]
    BY <1>2, <1>4
  <2>a. UNCHANGED starter
    <3>1. CASE UNCHANGED vars
      BY <3>1 DEF vars, history
    <3>2. CASE Next
      BY <1>1, <1>4, <3>2, StarterStays, RequestFrame
         DEF Next, Trigger, EditRule, ToggleDelegation, FailJob, Crash, history
    <3> QED
      BY <3>1, <3>2
  <2>2. OneActiveRunEach'
    <3> SUFFICES ASSUME NEW r1 \in RunIds, NEW r2 \in RunIds, r1 # r2,
                        run'[r1].status \in Active, run'[r2].status \in Active,
                        starter'[r1] = starter'[r2], ~ overlapped'[r1], ~ overlapped'[r2]
                 PROVE  FALSE
      BY DEF OneActiveRunEach
    <3> QED
      BY <2>1, <2>a DEF StartInv, OneActiveRunEach
  <2>3. ASSUME NEW t \in Threads, thread'[t].pc = "create", NEW r \in RunIds,
               run'[r].status \in Active, starter'[r] = t, ~ overlapped'[r]
        PROVE  FALSE
    <3>1. run[r].status \in Active /\ ~ overlapped[r] /\ starter[r] = t
      BY <2>1, <2>a, <2>3
    <3>2. thread[t].pc # "create"
      BY <3>1 DEF StartInv, CheckHolds
    <3>3. \/ thread'[t] = thread[t] \/ thread'[t] = IdleThread \/ WorkerStep(t)
      <4>1. CASE UNCHANGED vars
        BY <4>1 DEF vars
      <4>2. CASE Next
        BY <1>1, <4>2, WorkerFrame, RequestFrame
           DEF Next, Trigger, EditRule, ToggleDelegation, FailJob, Crash, Finish, Become, TypeOK
      <4> QED
        BY <4>1, <4>2
    <3>4. WorkerStep(t)
      BY <2>3, <3>2, <3>3 DEF IdleThread
    <3>5. CheckActive(t)
      <4>1. WorkerTurn(t, thread[t], thread'[t])
        BY <1>1, <3>4, WorkerTurns
      <4>2. IdleThread.pc # "create"
        BY DEF IdleThread
      <4> DEFINE l == thread[t]
                 n == thread'[t]
      <4>3. n.pc = "create" /\ WorkerTurn(t, l, n)
        BY <2>3, <4>1
      <4> HIDE DEF l, n
      <4> QED
        BY <4>2, <4>3 DEF WorkerTurn
    <3>6. thread'[t] = IdleThread
      BY <1>1, <3>1, <3>5 DEF CheckActive, Finish, Become, TypeOK
    <3> QED
      BY <2>3, <3>6 DEF IdleThread
  <2> QED
    BY <2>2, <2>3 DEF StartInv, CheckHolds
<1> QED
  BY <1>3, <1>4

(* Any number of consumers of both start queues, one that resumes runs:    *)
(* two active runs of a rule on a record were started by two consumers, or *)
(* a decision was written over another, whatever crashes (startRun,        *)
(* advanceRun, decide*Gate).                                               *)
THEOREM OneRunPerStarter ==
  ASSUME OneResumer
  PROVE  Spec => []OneActiveRunEach
<1>1. RunInv /\ StartInv /\ [Next]_vars => (RunInv /\ StartInv)'
  BY RunStep, OneStartStep
<1>2. Init => RunInv /\ StartInv
  BY RunInit, StartInit
<1>3. StartInv => OneActiveRunEach
  BY DEF StartInv
<1> QED
  BY <1>1, <1>2, <1>3, PTL DEF Spec

-----------------------------------------------------------------------------
(* The rule is never edited, and its gotos only lead on.                   *)
NoEdits == Editions \subseteq {Published}
ForwardOnly ==
  /\ \A i, j \in DOMAIN Published : Published[i].id = Published[j].id => i = j
  /\ \A i, j \in DOMAIN Published : Published[j].id \in {Published[i].yes, Published[i].no} => i < j
  /\ LeadsOn(Published)

(* What a run has executed lies before the place where it goes on: where   *)
(* its walker is, or where its row says it is.                             *)
Inside(l, r) == l.run = r /\ l.pc \in Midway
Below(r, n) == \A i \in DOMAIN Published : done[r][Published[i].id] > 0 => i < n
Progress(r) ==
  /\ \A s \in StepIds : done[r][s] <= 1
  /\ run[r].status = "ABSENT" => \A s \in StepIds : done[r][s] = 0
  /\ run[r].status \in Active =>
       /\ \A t \in Threads : Inside(thread[t], r) => Below(r, thread[t].index)
       /\ (\A t \in Threads : ~ Inside(thread[t], r)) => Below(r, run[r].index)
ProgressInv == faults = 0 => \A r \in RunIds : ~ overlapped[r] => Progress(r)

LEMMA ProgressInit == Init => ProgressInv
<1> SUFFICES ASSUME Init, NEW r \in RunIds PROVE Progress(r)
  BY DEF ProgressInv
<1>1. \A s \in StepIds : done[r][s] = 0
  BY DEF Init
<1>2. run[r].status = "ABSENT"
  BY DEF Init, NoRun
<1> QED
  BY <1>1, <1>2 DEF Progress, Active

(* The steps in the hands of whoever walks or decides are the published.   *)
LEMMA AllPublished ==
  ASSUME NoEdits, StoredInv
  PROVE  /\ steps = Published
         /\ \A t \in Threads : thread[t].pc \in Midway => thread[t].steps = Published
         /\ \A q \in Requests : request[q].pc # "idle" => request[q].steps = Published
BY DEF NoEdits, StoredInv, Stored, Keeps

LEMMA PublishedSteps ==
  /\ Published \in Seq(Step) /\ Len(Published) \in Nat
  /\ \A i \in DOMAIN Published :
       i \in Nat /\ i <= Len(Published) /\ Published[i].id \in StepIds
<1>1. Published \in Seq(Step)
  BY ConstantsAssumption
<1>2. Len(Published) \in Nat /\ \A i \in DOMAIN Published : i \in Nat /\ i <= Len(Published)
  BY <1>1
<1>3. \A i \in DOMAIN Published : Published[i] \in Step
  BY <1>1
<1>4. \A i \in DOMAIN Published : Published[i].id \in StepIds
  BY <1>3 DEF Step
<1> QED
  BY <1>1, <1>2, <1>4

(* A goto leads on.                                                        *)
LEMMA GotoLeadsOn ==
  ASSUME ForwardOnly, NEW i \in DOMAIN Published,
         NEW g \in {Published[i].yes, Published[i].no}, IsStepId(Published, g)
  PROVE  IndexOf(Published, g) \in DOMAIN Published /\ i < IndexOf(Published, g)
<1>1. Published \in Seq(Step)
  BY ConstantsAssumption
<1>2. IndexOf(Published, g) \in DOMAIN Published /\ Published[IndexOf(Published, g)].id = g
  BY <1>1, IndexOfStep
<1> QED
  BY <1>2 DEF ForwardOnly

LEMMA BelowMore ==
  ASSUME NEW r \in RunIds, NEW n \in Nat, NEW m \in Nat, n <= m,
         done'[r] = done[r], Below(r, n)
  PROVE  Below(r, m)'
<1> SUFFICES ASSUME NEW i \in DOMAIN Published, done[r][Published[i].id] > 0
             PROVE  i < m
  BY DEF Below
<1>1. i \in Nat
  BY PublishedSteps
<1>2. i < n
  BY DEF Below
<1> QED
  BY <1>1, <1>2

(* A walk only goes on.                                                    *)
LEMMA WalkGoesOn ==
  ASSUME ForwardOnly, TypeOK, NEW t \in Threads, EvalCondition(t) \/ RunAction(t),
         thread[t].steps = Published
  PROVE  /\ UNCHANGED run /\ thread[t].pc = "step" /\ thread[t].index \in DOMAIN Published
         /\ thread'[t].run = thread[t].run /\ thread'[t].pc = "step"
         /\ thread'[t].index \in Nat /\ thread[t].index <= thread'[t].index
<1> DEFINE l == thread[t]
<1>1. /\ UNCHANGED run /\ l.pc = "step" /\ l.index \in DOMAIN Published
      /\ l \in ThreadState /\ l.index \in Nat
  BY DEF EvalCondition, RunAction, AtStep, rows, TypeOK, ThreadState
<1>2. PICK i : i \in Nat /\ l.index <= i /\ Become(t, [l EXCEPT !.index = i])
  <2>1. CASE EvalCondition(t)
    <3> DEFINE S == Published[l.index]
    <3>1. PICK g \in {S.yes, S.no} :
            \/ g = None /\ Become(t, [l EXCEPT !.index = Len(Published) + 1])
            \/ IsStepId(Published, g) /\ Become(t, [l EXCEPT !.index = IndexOf(Published, g)])
            \/ g # None /\ ~ IsStepId(Published, g)
      BY <2>1 DEF EvalCondition, CurrentStep
    <3>2. g = None \/ IsStepId(Published, g)
      BY <1>1 DEF ForwardOnly, LeadsOn
    <3>3. /\ Len(Published) \in Nat
          /\ \A i \in DOMAIN Published : i \in Nat /\ i <= Len(Published)
      BY PublishedSteps
    <3>4. CASE g = None /\ Become(t, [l EXCEPT !.index = Len(Published) + 1])
      <4>1. Len(Published) + 1 \in Nat /\ l.index <= Len(Published) + 1
        BY <1>1, <3>3
      <4> QED
        BY <3>4, <4>1
    <3>5. CASE IsStepId(Published, g) /\ Become(t, [l EXCEPT !.index = IndexOf(Published, g)])
      <4>1. IndexOf(Published, g) \in DOMAIN Published /\ l.index < IndexOf(Published, g)
        BY <1>1, <3>5, GotoLeadsOn
      <4>2. IndexOf(Published, g) \in Nat /\ l.index <= IndexOf(Published, g)
        BY <1>1, <3>3, <4>1
      <4> QED
        BY <3>5, <4>2
    <3> QED
      BY <3>1, <3>2, <3>4, <3>5
  <2>2. CASE RunAction(t)
    <3>1. Become(t, [l EXCEPT !.index = l.index + 1])
      BY <2>2 DEF RunAction
    <3>2. l.index + 1 \in Nat /\ l.index <= l.index + 1
      BY <1>1
    <3> QED
      BY <3>1, <3>2
  <2> QED
    BY <2>1, <2>2
<1>3. thread'[t] = [l EXCEPT !.index = i]
  BY <1>2 DEF Become, TypeOK
<1>4. thread'[t].index = i /\ thread'[t].run = l.run /\ thread'[t].pc = l.pc
  BY <1>1, <1>3 DEF ThreadState
<1> QED
  BY <1>1, <1>2, <1>4

(* A decision moves a run on, and beyond the gate it was taken at.         *)
LEMMA MoveLeadsOn ==
  ASSUME ForwardOnly, TypeOK, NEW q \in Requests, MoveRun(q), NEW c, c = request[q],
         c.steps = Published
  PROVE  \/ \E m \in Nat :
              /\ run' = [run EXCEPT ![c.run].status = "RUNNING", ![c.run].index = m]
              /\ c.row.index <= m
              /\ c.row.index \in DOMAIN Published => c.row.index < m
         \/ run' = [run EXCEPT ![c.run].status = "FAILED"]
         \/ UNCHANGED run
<1>1. c.row.index \in Nat /\ Published \in Seq(Step)
  <2>1. c \in RequestState \/ c = IdleRequest
    BY DEF TypeOK
  <2> QED
    BY <2>1, PublishedSteps DEF RequestState, RunRow, IdleRequest, NoRun
<1>2. CASE /\ IsStepId(c.steps, GotoOf(c))
           /\ run' = [run EXCEPT ![c.run].status = "RUNNING",
                                 ![c.run].index = IndexOf(c.steps, GotoOf(c))]
  <2>1. CASE StandsAtGate(c)
    <3> DEFINE g == GotoOf(c)
    <3>1. g \in {Published[c.row.index].yes, Published[c.row.index].no}
      BY <2>1 DEF GotoOf, GateOf
    <3>a. c.row.index \in DOMAIN Published
      BY <2>1 DEF StandsAtGate
    <3> HIDE DEF g
    <3>2. IndexOf(Published, g) \in DOMAIN Published /\ c.row.index < IndexOf(Published, g)
      BY <1>2, <3>a, <3>1, GotoLeadsOn DEF g
    <3>3. IndexOf(Published, g) \in Nat /\ c.row.index <= IndexOf(Published, g)
      BY <1>1, <3>2, PublishedSteps
    <3> QED
      BY <1>2, <3>2, <3>3 DEF g
  <2>2. CASE ~ StandsAtGate(c)
    <3>1. GotoOf(c) = None
      BY <2>2 DEF GotoOf
    <3>2. ~ IsStepId(Published, None)
      BY <1>1, NoneIsNoStep
    <3> QED
      BY <1>2, <3>1, <3>2
  <2> QED
    BY <2>1, <2>2
<1>3. CASE run' = [run EXCEPT ![c.run].status = "RUNNING", ![c.run].index = c.row.index + 1]
  <2>1. c.row.index + 1 \in Nat /\ c.row.index <= c.row.index + 1 /\ c.row.index < c.row.index + 1
    BY <1>1
  <2> QED
    BY <1>3, <2>1
<1> QED
  BY <1>2, <1>3 DEF MoveRun

(* A step that leaves the run as it is and moves its walker on at most.    *)
LEMMA ProgressStays ==
  ASSUME TypeOK, NEW r \in RunIds, Progress(r), UNCHANGED <<run[r], done[r]>>,
         \A t \in Threads : Inside(thread[t], r) <=> Inside(thread'[t], r),
         \A t \in Threads : Inside(thread[t], r) =>
           thread'[t].index \in Nat /\ thread[t].index <= thread'[t].index
  PROVE  Progress(r)'
<1>1. \A s \in StepIds : done'[r][s] <= 1 /\ (run'[r].status = "ABSENT" => done'[r][s] = 0)
  BY DEF Progress
<1>2. ASSUME run'[r].status \in Active, NEW t \in Threads, Inside(thread'[t], r)
      PROVE  Below(r, thread[t].index)'
  <2>1. Inside(thread[t], r)
    BY <1>2
  <2>2. Below(r, thread[t].index)
    BY <1>2, <2>1 DEF Progress
  <2>3. thread[t].index \in Nat
    BY DEF TypeOK, ThreadState
  <2>4. thread'[t].index \in Nat /\ thread[t].index <= thread'[t].index
    BY <2>1
  <2>5. PICK n \in Nat, m \in Nat : n = thread[t].index /\ m = thread'[t].index
    BY <2>3, <2>4
  <2>6. Below(r, m)'
    BY <2>2, <2>4, <2>5, BelowMore
  <2> QED
    BY <2>5, <2>6 DEF Below
<1>3. ASSUME run'[r].status \in Active, \A t \in Threads : ~ Inside(thread'[t], r)
      PROVE  Below(r, run[r].index)'
  <2>1. Below(r, run[r].index)
    BY <1>3 DEF Progress
  <2> QED
    BY <2>1 DEF Below
<1> QED
  BY <1>1, <1>2, <1>3 DEF Progress, Inside

(* A run that is over stays as it is.                                      *)
LEMMA ProgressOver ==
  ASSUME NEW r \in RunIds, Progress(r), done'[r] = done[r],
         run'[r].status \notin Active, run'[r].status # "ABSENT"
  PROVE  Progress(r)'
BY DEF Progress

LEMMA WorkerProgress ==
  ASSUME NoEdits, ForwardOnly, OneResumer, RunInv, RunInv', StoredInv, ProgressInv,
         NEW t \in Threads, WorkerStep(t)
  PROVE  ProgressInv'
<1> DEFINE l == thread[t]
           n == thread'[t]
<1>1. /\ UNCHANGED <<faults, overlapped>> /\ \A s \in Threads : s # t => thread'[s] = thread[s]
      /\ TypeOK /\ LocalsOK /\ FirstInv
  BY WorkerFrame DEF RunInv
<1>2. SUFFICES ASSUME faults = 0, NEW r \in RunIds, ~ overlapped[r] PROVE Progress(r)'
  BY <1>1 DEF ProgressInv
<1>3. Progress(r)
  BY <1>2 DEF ProgressInv
<1>4. /\ l \in ThreadState /\ ThreadOK(l) /\ n \in ThreadState /\ ThreadOK(n)
      /\ run \in [RunIds -> RunRow] /\ done \in [RunIds -> [StepIds -> Nat]]
      /\ n.index \in Nat /\ l.index \in Nat
  BY DEF RunInv, TypeOK, TablesOK, HistoryOK, LocalsOK, ThreadState
<1>5. /\ l.pc \in Midway => l.steps = Published
      /\ Inside(l, r) => run[r].status = "RUNNING"
  BY <1>2, AllPublished DEF RunInv, SoloInv, WalkOK, Inside
(* No one else walks the run.                                              *)
<1>6. ASSUME Walks(l, r), NEW s \in Threads, s # t PROVE ~ Inside(thread[s], r)
  BY <1>1, <1>6, OneWalker DEF Walks, Inside
<1>7. ASSUME UNCHANGED <<run[r], done[r]>>, Inside(l, r) <=> Inside(n, r),
             Inside(l, r) => l.index <= n.index
      PROVE  Progress(r)'
  <2>1. \A s \in Threads : Inside(thread[s], r) <=> Inside(thread'[s], r)
    BY <1>1, <1>7
  <2>2. \A s \in Threads : thread[s].index \in Nat
    BY <1>1 DEF TypeOK, ThreadState
  <2>3. \A s \in Threads : Inside(thread[s], r) =>
          thread'[s].index \in Nat /\ thread[s].index <= thread'[s].index
    BY <1>1, <1>4, <1>7, <2>2
  <2> QED
    BY <1>1, <1>3, <1>7, <2>1, <2>3, ProgressStays
<1>8. ASSUME UNCHANGED <<run, done>>, ~ Inside(l, r), n.pc \notin Midway PROVE Progress(r)'
  BY <1>7, <1>8 DEF Inside
<1>9. ASSUME NEW j \in Jobs, Take(t, j) PROVE Progress(r)'
  <2>1. UNCHANGED <<run, done>> /\ l.pc = "idle" /\ n.pc \in {"load", "check"}
    <3>1. n = [IdleThread EXCEPT !.job = j, !.run = j.run,
                  !.pc = IF j.kind = "resume" THEN "load" ELSE "check"]
      BY <1>1, <1>9 DEF Take, Become, TypeOK
    <3> QED
      BY <1>9, <3>1 DEF Take, rows, history, IdleThread
  <2> QED
    BY <1>8, <2>1 DEF Inside, Midway
<1>10. ASSUME CheckActive(t) \/ NotifyApprovers(t) PROVE Progress(r)'
  <2>1. UNCHANGED <<run, done>> /\ l.pc \in {"check", "notify"}
    BY <1>10 DEF CheckActive, NotifyApprovers, rows, history
  <2>2. n = IdleThread \/ n = [l EXCEPT !.pc = "create"]
    BY <1>1, <1>10 DEF CheckActive, NotifyApprovers, Finish, Become, TypeOK
  <2>3. n.pc \in {"idle", "create"}
    BY <1>4, <2>2 DEF IdleThread, ThreadState
  <2> QED
    BY <1>8, <2>1, <2>3 DEF Inside, Midway
<1>11. ASSUME NEW k \in RunIds, CreateRun(t, k) PROVE Progress(r)'
  <2>1. /\ run[k].status = "ABSENT" /\ UNCHANGED done /\ l.pc = "create"
        /\ run' = [run EXCEPT ![k] = [NoRun EXCEPT !.status = "RUNNING"]]
    BY <1>11 DEF CreateRun, history
  <2>2. n.pc = "load"
    <3>1. n = [l EXCEPT !.pc = "load", !.run = k]
      BY <1>1, <1>11 DEF CreateRun, Become, TypeOK
    <3> QED
      BY <1>4, <3>1 DEF ThreadState
  <2>3. CASE k = r
    <3>1. \A s \in StepIds : done'[r][s] = 0
      BY <1>3, <2>1, <2>3 DEF Progress
    <3>2. \A i \in DOMAIN Published : done'[r][Published[i].id] = 0
      BY <3>1, PublishedSteps
    <3>3. \A x : Below(r, x)'
      BY <3>2 DEF Below
    <3>4. \A s \in StepIds : done'[r][s] <= 1
      BY <3>1
    <3> QED
      BY <3>1, <3>3, <3>4 DEF Progress, Below
  <2>4. CASE k # r
    BY <1>4, <1>7, <2>1, <2>2, <2>4 DEF Inside, Midway
  <2> QED
    BY <2>3, <2>4
<1>12. ASSUME LoadRun(t) PROVE Progress(r)'
  <2>1. UNCHANGED <<run, done>> /\ l.pc = "load"
    BY <1>12 DEF LoadRun, rows, history
  <2>2. CASE l.run # r \/ run[r].status # "RUNNING"
    <3>1. \/ n = IdleThread
          \/ n = [l EXCEPT !.pc = "step", !.steps = steps, !.index = run[l.run].index] /\ l.run # r
      BY <1>1, <1>12, <2>2 DEF LoadRun, Finish, Become, TypeOK
    <3>2. n.pc = "idle" \/ n.run # r
      <4>1. IdleThread.pc = "idle"
        BY DEF IdleThread
      <4> QED
        BY <1>4, <3>1, <4>1 DEF ThreadState
    <3>3. ~ Inside(n, r) /\ ~ Inside(l, r)
      BY <2>1, <3>2 DEF Inside, Midway
    <3> QED
      BY <1>7, <2>1, <3>3
  <2>3. CASE l.run = r /\ run[r].status = "RUNNING"
    <3>1. n = [l EXCEPT !.pc = "step", !.steps = steps, !.index = run[r].index]
      BY <1>1, <1>12, <2>3 DEF LoadRun, Become, TypeOK
    <3>2. Inside(n, r) /\ n.index = run[r].index
      BY <1>4, <2>3, <3>1 DEF Inside, Midway, ThreadState
    <3>3. \A s \in Threads : ~ Inside(thread[s], r)
      BY <1>6, <2>1, <2>3 DEF Walks, Inside, Midway
    <3>4. Below(r, run[r].index)
      BY <1>3, <2>3, <3>3 DEF Progress, Active
    <3>5. \A s \in Threads : Inside(thread'[s], r) => s = t
      BY <1>1, <3>3
    <3>6. Below(r, thread[t].index)'
      BY <2>1, <3>2, <3>4 DEF Below
    <3> QED
      BY <1>3, <2>1, <3>2, <3>5, <3>6 DEF Progress
  <2> QED
    BY <2>2, <2>3
<1>13. ASSUME EvalCondition(t) PROVE Progress(r)'
  <2>1. UNCHANGED <<run, done>> /\ l.pc = "step" /\ l.steps = Published
    BY <1>5, <1>13 DEF EvalCondition, AtStep, rows, history, Midway
  <2>2. n.run = l.run /\ n.pc = l.pc /\ l.index <= n.index
    BY <1>1, <1>13, <2>1, WalkGoesOn
  <2> QED
    BY <1>7, <2>1, <2>2 DEF Inside
<1>14. ASSUME RunAction(t) PROVE Progress(r)'
  <2> DEFINE s == Published[l.index].id
  <2>1. /\ UNCHANGED run /\ l.pc = "step" /\ l.steps = Published
        /\ l.index \in DOMAIN Published /\ Become(t, [l EXCEPT !.index = @ + 1])
    BY <1>5, <1>14 DEF RunAction, AtStep, rows, Midway
  <2>2. done' = [done EXCEPT ![l.run][s] = IF @ < 2 THEN @ + 1 ELSE @]
    BY <1>14, <2>1 DEF RunAction, CurrentStep
  <2>3. n = [l EXCEPT !.index = l.index + 1]
    BY <1>1, <2>1 DEF Become, TypeOK
  <2>4. n.index = l.index + 1 /\ n.run = l.run /\ n.pc = l.pc
    BY <1>4, <2>3 DEF ThreadState
  <2>5. s \in StepIds /\ l.run \in RunIds
    BY <1>4, <2>1, PublishedSteps DEF ThreadOK
  <2>6. CASE l.run # r
    BY <1>4, <1>7, <2>1, <2>2, <2>4, <2>6 DEF Inside
  <2>7. CASE l.run = r
    <3>1. Inside(l, r) /\ Inside(n, r) /\ run[r].status = "RUNNING"
      BY <1>5, <2>1, <2>4, <2>7 DEF Inside, Midway
    <3>2. Below(r, l.index)
      BY <1>3, <3>1 DEF Progress, Active
    <3>3. done[r][s] = 0
      <4>1. ~ (done[r][s] > 0)
        BY <1>4, <2>1, <3>2 DEF Below
      <4> QED
        BY <1>4, <2>5, <4>1
    <3>4. \A x \in StepIds : done'[r][x] = IF x = s THEN 1 ELSE done[r][x]
      BY <1>4, <2>2, <2>5, <2>7, <3>3
    <3>5. \A x \in StepIds : done'[r][x] <= 1
      BY <1>3, <3>4 DEF Progress
    <3>6. ASSUME NEW i \in DOMAIN Published, done'[r][Published[i].id] > 0
          PROVE  i < l.index + 1
      <4>1. Published[i].id \in StepIds /\ i \in Nat
        BY PublishedSteps
      <4>2. CASE Published[i].id = s
        <5>1. i = l.index
          BY <2>1, <4>2 DEF ForwardOnly
        <5> QED
          BY <1>4, <5>1
      <4>3. CASE Published[i].id # s
        <5>1. done[r][Published[i].id] > 0
          BY <3>4, <3>6, <4>1, <4>3
        <5>2. i < l.index
          BY <3>2, <5>1 DEF Below
        <5> QED
          BY <1>4, <4>1, <5>2
      <4> QED
        BY <4>2, <4>3
    <3>7. Below(r, thread[t].index)'
      BY <2>4, <3>6 DEF Below
    <3>8. \A x \in Threads : Inside(thread'[x], r) => x = t
      BY <1>1, <1>6, <2>1, <2>7 DEF Walks, Midway
    <3>9. run'[r].status # "ABSENT"
      BY <2>1, <3>1
    <3> QED
      BY <3>1, <3>5, <3>7, <3>8, <3>9 DEF Progress
  <2> QED
    BY <2>6, <2>7
<1>15. ASSUME \/ FailAction(t) \/ \E c \in ChainIds : OpenChain(t, c)
              \/ \E a \in ApprovalIds : OpenApproval(t, a)
       PROVE  Progress(r)'
  <2>1. UNCHANGED <<run, done>> /\ l.pc = "step"
    BY <1>15 DEF FailAction, OpenChain, OpenApproval, AtStep, rows, history
  <2>2. n = [l EXCEPT !.pc = "fail"] \/ \E x : n = [l EXCEPT !.pc = "gate", !.opened = x]
    BY <1>1, <1>15 DEF FailAction, OpenChain, OpenApproval, Become, TypeOK
  <2>3. n.pc \in Midway /\ n.run = l.run /\ n.index = l.index
    BY <1>4, <2>2 DEF ThreadState, Midway
  <2> QED
    BY <1>4, <1>7, <2>1, <2>3 DEF Inside, Midway
<1>16. ASSUME RecordGate(t) PROVE Progress(r)'
  <2>1. /\ l.pc = "gate" /\ l.run \in RunIds /\ UNCHANGED done /\ n.pc \notin Midway
    <3>1. n = [l EXCEPT !.pc = "notify"]
      BY <1>1, <1>16 DEF RecordGate, Become, TypeOK
    <3> QED
      BY <1>4, <1>16, <3>1 DEF RecordGate, history, ThreadOK, ThreadState, Midway
  <2>2. PICK allow : run' = [run EXCEPT ![l.run] = WaitAt(@, CurrentStep(t), l.opened,
                                                          l.index, allow)]
    BY <1>16 DEF RecordGate
  <2>3. CASE l.run # r
    BY <1>4, <1>7, <2>1, <2>2, <2>3 DEF Inside
  <2>4. CASE l.run = r
    <3>1. run'[r].status = "WAITING_APPROVAL" /\ run'[r].index = l.index
      BY <1>4, <2>2, <2>4 DEF WaitAt, RunRow
    <3>2. Inside(l, r) /\ run[r].status = "RUNNING"
      BY <1>5, <2>1, <2>4 DEF Inside, Midway
    <3>3. Below(r, l.index)
      BY <1>3, <3>2 DEF Progress, Active
    <3>4. Below(r, run[r].index)'
      BY <2>1, <3>1, <3>3 DEF Below
    <3>5. \A x \in Threads : ~ Inside(thread'[x], r)
      BY <1>1, <1>6, <2>1, <2>4 DEF Walks, Inside, Midway
    <3> QED
      BY <1>3, <2>1, <3>1, <3>4, <3>5 DEF Progress
  <2> QED
    BY <2>3, <2>4
<1>17. ASSUME RecordFailure(t) \/ Complete(t) PROVE Progress(r)'
  <2>1. /\ l.pc \in {"fail", "step"} /\ l.run \in RunIds /\ UNCHANGED done /\ n = IdleThread
    BY <1>1, <1>4, <1>17 DEF RecordFailure, Complete, history, ThreadOK, Finish, Become, TypeOK
  <2>2. CASE l.run # r
    <3>1. run'[r] = run[r] /\ ~ Inside(n, r)
      BY <1>17, <2>1, <2>2, <1>4 DEF RecordFailure, Complete, Inside, IdleThread, Midway
    <3> QED
      BY <1>7, <2>1, <2>2, <3>1 DEF Inside
  <2>3. CASE l.run = r
    <3>1. run'[r].status \in {"COMPLETED", "FAILED"}
      BY <1>4, <1>17, <2>1, <2>3 DEF RecordFailure, Complete, RunRow
    <3> QED
      BY <1>3, <2>1, <3>1, ProgressOver DEF Active
  <2> QED
    BY <2>2, <2>3
<1> QED
  BY <1>9, <1>10, <1>11, <1>12, <1>13, <1>14, <1>15, <1>16, <1>17
     DEF WorkerStep, StartStep, AdvanceStep

LEMMA RequestProgress ==
  ASSUME NoEdits, ForwardOnly, RunInv, StoredInv, ProgressInv, NEW q \in Requests,
         Receive(q) \/ DecisionStep(q) \/ LoseRequest(q)
  PROVE  ProgressInv'
<1> DEFINE c == request[q]
<1>1. UNCHANGED <<thread, done>> /\ (LoseRequest(q) \/ UNCHANGED faults) /\ TypeOK /\ LocalsOK
  BY RequestFrame DEF RunInv
<1>2. LoseRequest(q) => faults' # 0
  BY <1>1 DEF LoseRequest, TypeOK, HistoryOK
<1>3. SUFFICES ASSUME faults = 0, NEW r \in RunIds, ~ overlapped'[r] PROVE Progress(r)'
  BY <1>1, <1>2 DEF ProgressInv
<1>4. ~ overlapped[r] /\ Progress(r)
  BY <1>1, <1>3, OverlapStays DEF ProgressInv
<1>5. /\ c \in RequestState /\ RequestOK(c) /\ run \in [RunIds -> RunRow]
      /\ \A s \in Threads : thread[s].index \in Nat
  BY <1>1 DEF TypeOK, TablesOK, LocalsOK, ThreadState
<1>6. CASE run'[r] = run[r]
  BY <1>1, <1>4, <1>5, <1>6, ProgressStays
<1>7. CASE run'[r] # run[r]
  <2>1. /\ MoveRun(q) /\ c.pc = "move" /\ c.run = r /\ run'[r].status \in {"RUNNING", "FAILED"}
    BY <1>1, <1>7, RequestWrites
  <2>2. c.steps = Published /\ run[r] = c.row /\ c.row.status = "WAITING_APPROVAL"
    BY <1>4, <2>1, AllPublished DEF RunInv, SoloInv, Deciding
  <2>3. CASE run'[r].status = "FAILED"
    BY <1>1, <1>4, <2>3, ProgressOver DEF Active
  <2>4. CASE run'[r].status = "RUNNING"
    <3>1. c.row.index \in Nat
      BY <1>5 DEF RequestState, RunRow
    <3>2. PICK m : /\ run' = [run EXCEPT ![r].status = "RUNNING", ![r].index = m]
                   /\ m \in Nat /\ c.row.index <= m
      <4>1. ~ (run' = [run EXCEPT ![r].status = "FAILED"] \/ UNCHANGED run)
        BY <1>5, <2>2, <2>4 DEF RunRow
      <4> QED
        BY <1>1, <2>1, <2>2, <4>1, MoveLeadsOn
    <3>3. run'[r].index = m
      BY <1>5, <3>2 DEF RunRow
    <3>4. \A s \in Threads : ~ Inside(thread[s], r)
      BY <1>4, <2>2 DEF RunInv, SoloInv, WalkOK, Inside
    <3>5. Below(r, run[r].index)
      BY <1>4, <2>2, <3>4 DEF Progress, Active
    <3>6. Below(r, m)'
      BY <1>1, <2>2, <3>1, <3>2, <3>5, BelowMore
    <3>7. Below(r, run[r].index)'
      BY <3>3, <3>6 DEF Below
    <3> QED
      BY <1>1, <1>4, <2>4, <3>4, <3>7 DEF Progress
  <2> QED
    BY <2>1, <2>3, <2>4
<1> QED
  BY <1>6, <1>7

LEMMA ProgressStep ==
  ASSUME NoEdits, ForwardOnly, OneResumer, RunInv, RunInv', StoredInv, ProgressInv, [Next]_vars
  PROVE  ProgressInv'
<1>1. ASSUME UNCHANGED <<run, thread, done, overlapped, faults>> PROVE ProgressInv'
  <2>1. TypeOK /\ \A t \in Threads : thread[t].index \in Nat
    BY DEF RunInv, TypeOK, ThreadState
  <2>2. ASSUME NEW r \in RunIds, Progress(r) PROVE Progress(r)'
    BY <1>1, <2>1, <2>2, ProgressStays
  <2> QED
    BY <1>1, <2>2 DEF ProgressInv
<1>2. ASSUME faults' = faults + 1 PROVE ProgressInv'
  BY <1>2 DEF ProgressInv, RunInv, TypeOK, HistoryOK
<1>3. CASE UNCHANGED vars
  BY <1>1, <1>3 DEF vars, rows, history
<1>4. ASSUME NEW e \in Editions, EditRule(e) PROVE ProgressInv'
  BY <1>1, <1>4 DEF EditRule, rows
<1>5. ASSUME NEW d \in Delegations, ToggleDelegation(d) PROVE ProgressInv'
  BY <1>1, <1>5 DEF ToggleDelegation, rows, history
<1>6. ASSUME NEW kind \in {"event", "schedule"}, Trigger(kind) PROVE ProgressInv'
  BY <1>1, <1>6 DEF Trigger, rows, history
<1>7. CASE Next
  BY <1>2, <1>4, <1>5, <1>6, <1>7, WorkerProgress, RequestProgress DEF Next, FailJob, Crash
<1> QED
  BY <1>3, <1>7

(* A rule that is not edited and whose gotos lead forward, one resume      *)
(* consumer: a step of it is executed twice for one run only after a       *)
(* fault, or after one decision was written over another (advanceRun,      *)
(* decide*Gate).                                                           *)
THEOREM StepsRunOnce ==
  ASSUME NoEdits, ForwardOnly, OneResumer
  PROVE  Spec => []RepeatsExplained
<1> DEFINE I == RunInv /\ StoredInv /\ ProgressInv
<1>1. Init => I
  BY RunInit, StoredInit, ProgressInit
<1>2. I /\ [Next]_vars => I'
  BY RunStep, StoredStep, ProgressStep DEF RunInv
<1>3. I => RepeatsExplained
  <2> SUFFICES ASSUME I, NEW r \in RunIds, NEW s \in StepIds, done[r][s] > 1,
                      ~ overlapped[r], ~ (faults > 0)
               PROVE  FALSE
    BY DEF RepeatsExplained
  <2>1. faults = 0 /\ done[r][s] \in Nat
    BY DEF RunInv, TypeOK, HistoryOK
  <2>2. done[r][s] <= 1
    BY <2>1 DEF ProgressInv, Progress
  <2> QED
    BY <2>1, <2>2
<1> QED
  BY <1>1, <1>2, <1>3, PTL DEF Spec

-----------------------------------------------------------------------------
(* Only the first gate may be one that a single person decides, as in the  *)
(* instance of the run WorkflowSingleReplica.                              *)
SingleAt(i) == IsGate(i) /\ Published[i].required <= 1
SingleFirst == \A i, j \in DOMAIN Published : IsGate(i) /\ SingleAt(j) => j <= i
InStages == NoEdits /\ ForwardOnly /\ SingleFirst

(* Beyond every gate that a single person decides.                         *)
Past(i) == \A j \in DOMAIN Published : SingleAt(j) => j < i

(* A chain is in the run's row only beyond the single gate; whoever has    *)
(* the run there or will have it there is beyond that gate too, but for    *)
(* the first walk, which has no chain in its row.                          *)
Staged(r) ==
  /\ run[r].chain # None => Past(run[r].index)
  /\ run[r].status = "RUNNING" =>
       Past(run[r].index) \/ \E t \in Threads : Starter(t) /\ Walks(thread[t], r)
  /\ \A t \in Threads : Starter(t) /\ Walks(thread[t], r) => run[r].chain = None
  /\ \A t \in Threads : ~ Starter(t) /\ Inside(thread[t], r) => Past(thread[t].index)
StagedInv == ~ edited /\ (faults = 0 => \A r \in RunIds : Staged(r))

LEMMA StagedInit == Init => StagedInv
BY DEF Init, StagedInv, Staged, NoRun, IdleThread, Walks, Inside, Midway

LEMMA PastMore ==
  ASSUME NEW m \in Nat, NEW n \in Nat, m <= n, Past(m)
  PROVE  Past(n)
<1> SUFFICES ASSUME NEW j \in DOMAIN Published, SingleAt(j) PROVE j < n
  BY DEF Past
<1>1. j \in Nat /\ j < m
  BY PublishedSteps DEF Past
<1> QED
  BY <1>1

(* What lies beyond any gate lies beyond the first.                        *)
LEMMA BeyondGate ==
  ASSUME SingleFirst, NEW i \in DOMAIN Published, IsGate(i)
  PROVE  /\ \A n \in Nat : i < n => Past(n)
         /\ Published[i].required > 1 => Past(i)
<1>1. ASSUME NEW j \in DOMAIN Published, SingleAt(j) PROVE j \in Nat /\ i \in Nat /\ j <= i
  BY <1>1, PublishedSteps DEF SingleFirst
<1>2. ASSUME NEW n \in Nat, i < n PROVE Past(n)
  <2> SUFFICES ASSUME NEW j \in DOMAIN Published, SingleAt(j) PROVE j < n
    BY DEF Past
  <2> QED
    BY <1>1, <1>2
<1>3. ASSUME Published[i].required > 1 PROVE Past(i)
  <2> SUFFICES ASSUME NEW j \in DOMAIN Published, SingleAt(j) PROVE j < i
    BY DEF Past
  <2>1. j # i
    <3>1. Published[i] \in Step
      BY PublishedSteps
    <3>2. Published[i].required \in Nat
      BY <3>1 DEF Step
    <3> QED
      BY <1>3, <3>2 DEF SingleAt
  <2> QED
    BY <1>1, <2>1
<1> QED
  BY <1>2, <1>3

(* A step that leaves the run's row as it is, by which nobody comes to     *)
(* walk the run but where that is allowed, and its first walk goes on.     *)
LEMMA StagedStays ==
  ASSUME NEW r \in RunIds, Staged(r), run'[r] = run[r],
         \A s \in Threads : Starter(s) /\ run[r].status = "RUNNING" /\ Walks(thread[s], r)
                              => Walks(thread'[s], r),
         \A s \in Threads : Starter(s) /\ Walks(thread'[s], r) => Walks(thread[s], r),
         \A s \in Threads : ~ Starter(s) /\ Inside(thread'[s], r) => Past(thread'[s].index)
  PROVE  Staged(r)'
<1>1. /\ run'[r].chain # None => Past(run'[r].index)
      /\ run'[r].status = "RUNNING" =>
           Past(run'[r].index) \/ \E t \in Threads : Starter(t) /\ Walks(thread'[t], r)
      /\ \A t \in Threads : Starter(t) /\ Walks(thread'[t], r) => run'[r].chain = None
  BY DEF Staged
<1> QED
  BY <1>1 DEF Staged, Past, Starter

LEMMA WorkerKeepsStaged ==
  ASSUME ForwardOnly, SingleFirst, JustifiedInv, JustifiedInv', FirstInv, StagedInv,
         NEW t \in Threads, WorkerStep(t)
  PROVE  StagedInv'
<1> DEFINE l == thread[t]
           n == thread'[t]
<1>1. /\ UNCHANGED <<faults, edited>> /\ \A s \in Threads : s # t => thread'[s] = thread[s]
      /\ TypeOK /\ LocalsOK
  BY WorkerFrame DEF JustifiedInv
<1>2. SUFFICES ASSUME faults = 0, NEW r \in RunIds PROVE Staged(r)'
  BY <1>1 DEF StagedInv
<1>3. Staged(r)
  BY <1>2 DEF StagedInv
<1>4. /\ l \in ThreadState /\ ThreadOK(l) /\ n \in ThreadState /\ JobOK(t, l)
      /\ run \in [RunIds -> RunRow] /\ n.index \in Nat /\ l.index \in Nat
  BY <1>1 DEF JustifiedInv, TypeOK, TablesOK, LocalsOK, ThreadState, FirstInv
<1>5. l.pc \in Midway => l.steps = Published
  BY DEF JustifiedInv, PositionsOK, ThreadPosition, StagedInv, Midway
<1>6. ASSUME run'[r] = run[r],
             Starter(t) /\ run[r].status = "RUNNING" /\ Walks(l, r) => Walks(n, r),
             Starter(t) /\ Walks(n, r) => Walks(l, r),
             ~ Starter(t) /\ Inside(n, r) => Past(n.index)
      PROVE  Staged(r)'
  <2>1. \A s \in Threads : Starter(s) /\ run[r].status = "RUNNING" /\ Walks(thread[s], r)
                             => Walks(thread'[s], r)
    BY <1>1, <1>6
  <2>2. \A s \in Threads : Starter(s) /\ Walks(thread'[s], r) => Walks(thread[s], r)
    BY <1>1, <1>6
  <2>3. \A s \in Threads : ~ Starter(s) /\ Inside(thread'[s], r) => Past(thread'[s].index)
    BY <1>1, <1>3, <1>6 DEF Staged
  <2> QED
    BY <1>3, <1>6, <2>1, <2>2, <2>3, StagedStays
<1>7. ASSUME NEW j \in Jobs, Take(t, j) PROVE Staged(r)'
  <2>1. /\ l.pc = "idle" /\ UNCHANGED run /\ Serves[t] = j.kind
        /\ n = [IdleThread EXCEPT !.job = j, !.run = j.run,
                  !.pc = IF j.kind = "resume" THEN "load" ELSE "check"]
    BY <1>1, <1>7 DEF Take, Become, TypeOK, rows
  <2>2. n.pc = IF j.kind = "resume" THEN "load" ELSE "check"
    BY <2>1 DEF IdleThread
  <2>3. ~ Walks(l, r) /\ (Starter(t) => ~ Walks(n, r)) /\ ~ Inside(n, r)
    BY <2>1, <2>2 DEF Walks, Inside, Midway, Starter
  <2> QED
    BY <1>6, <2>1, <2>3
<1>8. ASSUME CheckActive(t) \/ NotifyApprovers(t) PROVE Staged(r)'
  <2>1. UNCHANGED run /\ l.pc \in {"check", "notify"}
    BY <1>8 DEF CheckActive, NotifyApprovers, rows
  <2>2. n = IdleThread \/ n = [l EXCEPT !.pc = "create"]
    BY <1>1, <1>8 DEF CheckActive, NotifyApprovers, Finish, Become, TypeOK
  <2>3. n.pc \in {"idle", "create"}
    BY <1>4, <2>2 DEF IdleThread, ThreadState
  <2> QED
    BY <1>6, <2>1, <2>3 DEF Walks, Inside, Midway
<1>9. ASSUME NEW k \in RunIds, CreateRun(t, k) PROVE Staged(r)'
  <2>1. /\ run[k].status = "ABSENT" /\ l.pc = "create"
        /\ run' = [run EXCEPT ![k] = [NoRun EXCEPT !.status = "RUNNING"]]
    BY <1>9 DEF CreateRun
  <2>2. n.pc = "load" /\ n.run = k
    <3>1. n = [l EXCEPT !.pc = "load", !.run = k]
      BY <1>1, <1>9 DEF CreateRun, Become, TypeOK
    <3> QED
      BY <1>4, <3>1 DEF ThreadState
  <2>3. CASE k = r
    <3>1. run'[r].chain = None
      <4>1. run'[r] = [NoRun EXCEPT !.status = "RUNNING"]
        BY <1>4, <2>1, <2>3
      <4> QED
        BY <4>1 DEF NoRun
    <3>2. Starter(t) /\ Walks(n, r) /\ ~ Inside(n, r)
      BY <1>4, <2>1, <2>2, <2>3 DEF JobOK, Walks, Inside, Midway
    <3>3. ASSUME NEW s \in Threads, s # t PROVE ~ Inside(thread'[s], r)
      BY <1>1, <2>1, <2>3, <3>3 DEF FirstInv, Known, Holds, Inside, Midway
    <3>4. \A s \in Threads : ~ Inside(thread'[s], r)
      BY <3>2, <3>3
    <3> QED
      BY <3>1, <3>2, <3>4 DEF Staged
  <2>4. CASE k # r
    BY <1>4, <1>6, <2>1, <2>2, <2>4 DEF Walks, Inside, Midway
  <2> QED
    BY <2>3, <2>4
(* A resumed run is beyond the gate that was decided.                      *)
<1>10. ASSUME LoadRun(t) PROVE Staged(r)'
  <2>1. UNCHANGED run /\ l.pc = "load"
    BY <1>10 DEF LoadRun, rows
  <2>2. CASE l.run # r \/ run[r].status # "RUNNING"
    <3>1. \/ n = IdleThread
          \/ n = [l EXCEPT !.pc = "step", !.steps = steps, !.index = run[l.run].index] /\ l.run # r
      BY <1>1, <1>10, <2>2 DEF LoadRun, Finish, Become, TypeOK
    <3>2. n.pc = "idle" \/ n.run # r
      <4>1. IdleThread.pc = "idle"
        BY DEF IdleThread
      <4> QED
        BY <1>4, <3>1, <4>1 DEF ThreadState
    <3>3. ~ Walks(n, r) /\ ~ Inside(n, r)
      BY <3>2 DEF Inside, Walks, Midway
    <3>4. ~ (run[r].status = "RUNNING" /\ Walks(l, r))
      BY <2>2 DEF Walks
    <3> QED
      BY <1>6, <2>1, <3>3, <3>4
  <2>3. CASE l.run = r /\ run[r].status = "RUNNING"
    <3>1. n = [l EXCEPT !.pc = "step", !.steps = steps, !.index = run[r].index]
      BY <1>1, <1>10, <2>3 DEF LoadRun, Become, TypeOK
    <3>2. Walks(l, r) /\ Walks(n, r) /\ n.index = run[r].index
      BY <1>4, <2>1, <2>3, <3>1 DEF Walks, Midway, ThreadState
    <3>3. ASSUME ~ Starter(t) PROVE Past(run[r].index)
      <4>1. Holds(l, r)
        BY <2>1, <2>3 DEF Holds
      <4>2. ASSUME NEW s \in Threads, Starter(s), Walks(thread[s], r) PROVE FALSE
        BY <3>3, <4>1, <4>2 DEF FirstInv, FirstWalks, Alone
      <4> QED
        BY <1>3, <2>3, <4>2 DEF Staged
    <3>4. ~ Starter(t) => Past(n.index)
      BY <3>2, <3>3
    <3> QED
      BY <1>6, <2>1, <3>2, <3>4
  <2> QED
    BY <2>2, <2>3
<1>11. ASSUME EvalCondition(t) \/ RunAction(t) PROVE Staged(r)'
  <2>1. l.steps = Published
    BY <1>5, <1>11 DEF EvalCondition, RunAction, AtStep, Midway
  <2>2. /\ UNCHANGED run /\ l.pc = "step" /\ n.pc = "step" /\ n.run = l.run
        /\ l.index <= n.index
    BY <1>1, <1>11, <2>1, WalkGoesOn
  <2>3. ASSUME ~ Starter(t), Inside(n, r) PROVE Past(n.index)
    <3>1. Past(l.index)
      BY <1>3, <2>2, <2>3 DEF Staged, Inside, Midway
    <3>2. PICK i \in Nat, j \in Nat : i = l.index /\ j = n.index
      BY <1>4
    <3>3. Past(j)
      BY <2>2, <3>1, <3>2, PastMore
    <3> QED
      BY <3>2, <3>3
  <2> QED
    BY <1>6, <2>2, <2>3 DEF Walks, Midway
<1>12. ASSUME \/ FailAction(t) \/ \E c \in ChainIds : OpenChain(t, c)
              \/ \E a \in ApprovalIds : OpenApproval(t, a)
       PROVE  Staged(r)'
  <2>1. UNCHANGED run /\ l.pc = "step"
    BY <1>12 DEF FailAction, OpenChain, OpenApproval, AtStep, rows
  <2>2. n = [l EXCEPT !.pc = "fail"] \/ \E x : n = [l EXCEPT !.pc = "gate", !.opened = x]
    BY <1>1, <1>12 DEF FailAction, OpenChain, OpenApproval, Become, TypeOK
  <2>3. n.pc \in Midway /\ n.run = l.run /\ n.index = l.index
    BY <1>4, <2>2 DEF ThreadState, Midway
  <2>4. ASSUME ~ Starter(t), Inside(n, r) PROVE Past(n.index)
    BY <1>3, <2>1, <2>3, <2>4 DEF Staged, Inside, Midway
  <2> QED
    BY <1>6, <2>1, <2>3, <2>4 DEF Walks, Midway
(* The run's row is written by the walker, who then lets go of it.         *)
<1>13. ASSUME l.pc \in Midway, l.run = r, n.pc \in {"idle", "notify"},
              run'[r].status # "RUNNING", run'[r].chain # None => Past(run'[r].index)
       PROVE  Staged(r)'
  <2>1. ~ Walks(n, r) /\ ~ Inside(n, r)
    BY <1>13 DEF Walks, Inside, Midway
  <2>2. ASSUME NEW s \in Threads, Starter(s), Walks(thread'[s], r) PROVE FALSE
    <3>1. s # t /\ Walks(thread[s], r)
      BY <1>1, <2>1, <2>2
    <3>2. Holds(l, r)
      BY <1>13 DEF Holds, Midway
    <3> QED
      BY <2>2, <3>1, <3>2 DEF FirstInv, FirstWalks, Alone
  <2>3. ASSUME NEW s \in Threads, ~ Starter(s), Inside(thread'[s], r) PROVE Past(thread'[s].index)
    BY <1>1, <1>3, <2>1, <2>3 DEF Staged
  <2>4. \A s \in Threads : ~ (Starter(s) /\ Walks(thread'[s], r))
    BY <2>2
  <2> QED
    BY <1>13, <2>3, <2>4 DEF Staged, Past, Starter
<1>14. ASSUME RecordGate(t) PROVE Staged(r)'
  <2>1. /\ l.pc = "gate" /\ l.run \in RunIds /\ n.pc = "notify"
    <3>1. n = [l EXCEPT !.pc = "notify"]
      BY <1>1, <1>14 DEF RecordGate, Become, TypeOK
    <3> QED
      BY <1>4, <1>14, <3>1 DEF RecordGate, ThreadOK, ThreadState
  <2>2. PICK allow : run' = [run EXCEPT ![l.run] = WaitAt(@, CurrentStep(t), l.opened,
                                                          l.index, allow)]
    BY <1>14 DEF RecordGate
  <2>3. CASE l.run # r
    <3>1. run'[r] = run[r]
      BY <1>4, <2>2, <2>3
    <3>2. ~ Walks(n, r) /\ ~ Inside(n, r) /\ ~ Walks(l, r)
      BY <2>1, <2>3 DEF Walks, Inside, Midway
    <3> QED
      BY <1>6, <3>1, <3>2
  <2>4. CASE l.run = r
    <3>1. l.steps = Published /\ l.index \in DOMAIN Published /\ IsGate(l.index)
      BY <1>4, <1>5, <2>1 DEF ThreadOK, IsGate, Midway
    <3>2. /\ run'[r].status = "WAITING_APPROVAL" /\ run'[r].index = l.index
          /\ Published[l.index].required > 1 \/ run'[r].chain = run[r].chain
      BY <1>4, <2>2, <2>4, <3>1 DEF WaitAt, RunRow, CurrentStep
    <3>3. ASSUME run'[r].chain # None PROVE Past(l.index)
      <4>1. CASE Published[l.index].required > 1
        BY <3>1, <4>1, BeyondGate
      <4>2. CASE run'[r].chain = run[r].chain
        <5>1. Walks(l, r) /\ Inside(l, r)
          BY <2>1, <2>4 DEF Walks, Inside, Midway
        <5> QED
          BY <1>3, <3>3, <4>2, <5>1 DEF Staged
      <4> QED
        BY <3>2, <4>1, <4>2
    <3>4. run'[r].chain # None => Past(run'[r].index)
      BY <3>2, <3>3
    <3> QED
      BY <1>13, <2>1, <2>4, <3>2, <3>4 DEF Midway
  <2> QED
    BY <2>3, <2>4
<1>15. ASSUME RecordFailure(t) \/ Complete(t) PROVE Staged(r)'
  <2>1. /\ l.pc \in {"fail", "step"} /\ l.run \in RunIds /\ n = IdleThread
        /\ l.steps = Published
    BY <1>1, <1>4, <1>5, <1>15
       DEF RecordFailure, Complete, ThreadOK, Finish, Become, TypeOK, Midway
  <2>2. n.pc = "idle"
    BY <2>1 DEF IdleThread
  <2>3. CASE l.run # r
    <3>1. run'[r] = run[r]
      BY <1>4, <1>15, <2>1, <2>3 DEF RecordFailure, Complete
    <3>2. ~ Walks(n, r) /\ ~ Inside(n, r) /\ ~ Walks(l, r)
      BY <2>2, <2>3 DEF Walks, Inside, Midway
    <3> QED
      BY <1>6, <3>1, <3>2
  <2>4. CASE l.run = r
    <3>1. /\ run'[r].status \in {"COMPLETED", "FAILED"} /\ run'[r].chain = run[r].chain
          /\ run'[r].index \in {l.index, Len(Published) + 1}
      BY <1>4, <1>15, <2>1, <2>4 DEF RecordFailure, Complete, RunRow
    <3>2. Past(Len(Published) + 1)
      BY PublishedSteps DEF Past
    <3>3. run[r].chain # None => Past(l.index)
      <4>1. Walks(l, r) /\ Inside(l, r)
        BY <2>1, <2>4 DEF Walks, Inside, Midway
      <4> QED
        BY <1>3, <4>1 DEF Staged
    <3>4. run'[r].chain # None => Past(run'[r].index)
      BY <3>1, <3>2, <3>3
    <3> QED
      BY <1>13, <2>1, <2>2, <2>4, <3>1, <3>4 DEF Midway
  <2> QED
    BY <2>3, <2>4
<1> QED
  BY <1>7, <1>8, <1>9, <1>10, <1>11, <1>12, <1>14, <1>15 DEF WorkerStep, StartStep, AdvanceStep

(* A decision moves the run beyond the gate it was taken at, and never     *)
(* during the first walk.                                                  *)
LEMMA RequestKeepsStaged ==
  ASSUME ForwardOnly, SingleFirst, JustifiedInv, FirstInv, StagedInv, NEW q \in Requests,
         Receive(q) \/ DecisionStep(q)
  PROVE  StagedInv'
<1> DEFINE c == request[q]
<1>1. UNCHANGED <<thread, edited>> /\ TypeOK /\ LocalsOK
  BY RequestFrame DEF JustifiedInv
<1>2. UNCHANGED faults
  BY DEF Receive, ReceiveDecision, DecisionStep, CheckApproval, WriteVerdict,
     CheckChain, CheckVoted, CastVote, CountVotes, CloseChain, MoveRun, EnqueueResume
<1>3. SUFFICES ASSUME faults = 0, NEW r \in RunIds PROVE Staged(r)'
  BY <1>1, <1>2 DEF StagedInv
<1>4. Staged(r) /\ run \in [RunIds -> RunRow] /\ c \in RequestState
  BY <1>1, <1>3 DEF StagedInv, TypeOK, TablesOK
<1>5. \A s \in Threads : ~ Starter(s) /\ Inside(thread'[s], r) => Past(thread'[s].index)
  BY <1>1, <1>4 DEF Staged
<1>6. CASE run'[r] = run[r]
  BY <1>1, <1>4, <1>5, <1>6, StagedStays
<1>7. CASE run'[r] # run[r]
  <2>1. MoveRun(q) /\ c.pc = "move" /\ c.run = r
    BY <1>1, <1>7, RequestWrites
  <2>2. c.steps = Published /\ IsGate(c.row.index) /\ c.row.index \in DOMAIN Published
    BY <2>1 DEF JustifiedInv, PositionsOK, RequestPosition, StagedInv, IsGate
  <2>3. ASSUME NEW s \in Threads, Starter(s), Walks(thread[s], r) PROVE FALSE
    <3>1. Holds(c, r)
      BY <2>1 DEF Holds
    <3> QED
      BY <2>3, <3>1 DEF FirstInv, FirstWalks, Alone
  <2>4. \A s \in Threads : ~ (Starter(s) /\ Walks(thread'[s], r))
    BY <1>1, <2>3
  <2>5. /\ run'[r].chain # None => Past(run'[r].index)
        /\ run'[r].status = "RUNNING" => Past(run'[r].index)
    <3>1. CASE run' = [run EXCEPT ![r].status = "FAILED"]
      <4>1. run'[r].status = "FAILED" /\ run'[r].index = run[r].index /\ run'[r].chain = run[r].chain
        BY <1>4, <3>1 DEF RunRow
      <4> QED
        BY <1>4, <4>1 DEF Staged
    <3>2. ASSUME NEW m \in Nat, c.row.index < m,
                 run' = [run EXCEPT ![r].status = "RUNNING", ![r].index = m]
          PROVE  Past(run'[r].index)
      <4>1. Past(m)
        BY <2>2, <3>2, BeyondGate
      <4>2. run'[r].index = m
        BY <1>4, <3>2 DEF RunRow
      <4> QED
        BY <4>1, <4>2
    <3> QED
      BY <1>1, <1>7, <2>1, <2>2, <3>1, <3>2, MoveLeadsOn
  <2> QED
    BY <1>5, <2>4, <2>5 DEF Staged, Past, Starter
<1> QED
  BY <1>6, <1>7

LEMMA StagedStep ==
  ASSUME NoEdits, ForwardOnly, SingleFirst, JustifiedInv, JustifiedInv', FirstInv, StagedInv,
         [Next]_vars
  PROVE  StagedInv'
<1>1. ASSUME UNCHANGED <<run, thread, faults, edited>> PROVE StagedInv'
  <2>1. ASSUME NEW r \in RunIds, Staged(r) PROVE Staged(r)'
    <3>1. \A s \in Threads : ~ Starter(s) /\ Inside(thread'[s], r) => Past(thread'[s].index)
      BY <1>1, <2>1 DEF Staged
    <3> QED
      BY <1>1, <2>1, <3>1, StagedStays
  <2> QED
    BY <1>1, <2>1 DEF StagedInv
<1>2. ASSUME faults' = faults + 1, UNCHANGED edited PROVE StagedInv'
  BY <1>2 DEF StagedInv, JustifiedInv, TypeOK, HistoryOK
<1>3. CASE UNCHANGED vars
  BY <1>1, <1>3 DEF vars, rows, history
<1>4. ASSUME NEW e \in Editions, EditRule(e) PROVE FALSE
  BY <1>4 DEF EditRule, NoEdits, JustifiedInv, PositionsOK, StagedInv
<1>5. ASSUME NEW d \in Delegations, ToggleDelegation(d) PROVE StagedInv'
  BY <1>1, <1>5 DEF ToggleDelegation, rows, history
<1>6. ASSUME NEW kind \in {"event", "schedule"}, Trigger(kind) PROVE StagedInv'
  BY <1>1, <1>6 DEF Trigger, rows, history
<1>7. ASSUME NEW t \in Threads, FailJob(t) PROVE StagedInv'
  BY <1>2, <1>7 DEF FailJob, history
<1>8. ASSUME NEW p \in Processes, Crash(p) PROVE StagedInv'
  BY <1>2, <1>8 DEF Crash, history
<1>9. ASSUME NEW q \in Requests, LoseRequest(q) PROVE StagedInv'
  BY <1>2, <1>9 DEF LoseRequest, history
<1>10. CASE Next
  BY <1>4, <1>5, <1>6, <1>7, <1>8, <1>9, <1>10, WorkerKeepsStaged, RequestKeepsStaged DEF Next
<1> QED
  BY <1>3, <1>10

-----------------------------------------------------------------------------
(* No list of steps mixes gates that one person decides with quorums: a    *)
(* single gate leaves the chain of an earlier quorum in the run's row, and *)
(* that is where the decision endpoint would look.                         *)
SingleGates ==
  \A s \in Stored : \A i \in DOMAIN s : s[i].type = "APPROVAL_GATE" => s[i].required <= 1
QuorumGates ==
  \A s \in Stored : \A i \in DOMAIN s : s[i].type = "APPROVAL_GATE" => s[i].required > 1
GatesAlike == SingleGates \/ QuorumGates

(* A row is an approval or a chain: its kind and its id.                   *)
RowKinds == {"approval", "chain"}
RowIds == ApprovalIds \cup ChainIds
StatusOf(k, x) == IF k = "chain" THEN chain[x].status ELSE approval[x].status
At(row, k, x) == (k = "chain" /\ row.chain = x) \/ (k = "approval" /\ row.approval = x)
Bound(c, k, x) == c.pc # "idle" /\ At(c.row, k, x)
Opening(l, k, x) ==
  /\ l.pc = "gate" /\ l.opened = x
  /\ k = IF l.steps[l.index].required > 1 THEN "chain" ELSE "approval"

(* A row belongs to one run; one just opened to the consumer that opened   *)
(* it, and nobody else knows of it.                                        *)
OwnRow(k, x) ==
  /\ \A r, s \in RunIds : At(run[r], k, x) /\ At(run[s], k, x) => r = s
  /\ \A q \in Requests, r \in RunIds :
       Bound(request[q], k, x) /\ At(run[r], k, x) => request[q].run = r
  /\ \A t \in Threads : Opening(thread[t], k, x) =>
       /\ StatusOf(k, x) = "PENDING"
       /\ \A r \in RunIds : ~ At(run[r], k, x)
       /\ \A q \in Requests : ~ Bound(request[q], k, x)
       /\ \A s \in Threads : Opening(thread[s], k, x) => s = t
OwnRows == \A k \in RowKinds, x \in RowIds : OwnRow(k, x)

Singles == SingleGates => \A r \in RunIds : run[r].chain = None
WaitInv == OwnRows /\ Singles /\ WaitingIsDecidable

LEMMA WaitInit == Init => WaitInv
<1> SUFFICES ASSUME Init PROVE WaitInv
  OBVIOUS
<1>1. None \notin ApprovalIds /\ None \notin ChainIds
  BY ConstantsAssumption
<1>2. \A r \in RunIds : run[r].approval = None /\ run[r].chain = None /\ run[r].status = "ABSENT"
  BY DEF Init, NoRun
<1>3. \A t \in Threads : thread[t].pc = "idle"
  BY DEF Init, IdleThread
<1>4. \A q \in Requests : request[q].pc = "idle"
  BY DEF Init, IdleRequest
<1>5. \A r \in RunIds, k \in RowKinds, x \in RowIds : ~ At(run[r], k, x)
  BY <1>1, <1>2 DEF At, RowIds
<1>6. OwnRows
  BY <1>3, <1>4, <1>5 DEF OwnRows, OwnRow, Bound, Opening
<1> QED
  BY <1>2, <1>4, <1>6 DEF WaitInv, Singles, WaitingIsDecidable

(* A step by which nobody comes to refer to a row.                         *)
LEMMA OwnStays ==
  ASSUME OwnRows, NEW k \in RowKinds, NEW x \in RowIds,
         \A r \in RunIds : At(run'[r], k, x) => At(run[r], k, x),
         \A q \in Requests : Bound(request'[q], k, x) =>
           Bound(request[q], k, x) /\ request'[q].run = request[q].run,
         \A t \in Threads : Opening(thread'[t], k, x) => Opening(thread[t], k, x),
         (\E t \in Threads : Opening(thread[t], k, x)) /\ StatusOf(k, x) = "PENDING"
           => StatusOf(k, x)' = "PENDING"
  PROVE  OwnRow(k, x)'
<1>1. OwnRow(k, x)
  BY DEF OwnRows
<1>2. ASSUME NEW r \in RunIds, NEW s \in RunIds, At(run'[r], k, x), At(run'[s], k, x)
      PROVE  r = s
  BY <1>1, <1>2 DEF OwnRow
<1>3. ASSUME NEW q \in Requests, NEW r \in RunIds, Bound(request'[q], k, x), At(run'[r], k, x)
      PROVE  request'[q].run = r
  BY <1>1, <1>3 DEF OwnRow
<1>4. ASSUME NEW t \in Threads, Opening(thread'[t], k, x)
      PROVE  /\ StatusOf(k, x)' = "PENDING"
             /\ \A r \in RunIds : ~ At(run'[r], k, x)
             /\ \A q \in Requests : ~ Bound(request'[q], k, x)
             /\ \A s \in Threads : Opening(thread'[s], k, x) => s = t
  BY <1>1, <1>4 DEF OwnRow
<1> QED
  BY <1>2, <1>3, <1>4 DEF OwnRow, At, Bound, Opening, StatusOf

(* What stays pending through a consumer's step: every row there is.       *)
LEMMA WorkerKeepsPending ==
  ASSUME TypeOK, NEW t \in Threads, WorkerStep(t), NEW k \in RowKinds, NEW x \in RowIds,
         k = "chain" => x \in ChainIds, k = "approval" => x \in ApprovalIds,
         StatusOf(k, x) = "PENDING"
  PROVE  StatusOf(k, x)' = "PENDING"
<1>1. approval \in [ApprovalIds -> ApprovalRow] /\ chain \in [ChainIds -> ChainRow]
  BY DEF TypeOK, TablesOK
<1>2. ASSUME NEW c \in ChainIds, OpenChain(t, c) PROVE StatusOf(k, x)' = "PENDING"
  <2>1. chain[c].status = "ABSENT" /\ UNCHANGED approval
        /\ \A y \in ChainIds : y # c => chain'[y] = chain[y]
    BY <1>1, <1>2 DEF OpenChain
  <2> QED
    BY <2>1 DEF StatusOf, RowKinds
<1>3. ASSUME NEW a \in ApprovalIds, OpenApproval(t, a) PROVE StatusOf(k, x)' = "PENDING"
  <2>1. approval[a].status = "ABSENT" /\ UNCHANGED chain
        /\ \A y \in ApprovalIds : y # a => approval'[y] = approval[y]
    BY <1>1, <1>3 DEF OpenApproval
  <2> QED
    BY <2>1 DEF StatusOf, RowKinds
<1>4. \/ UNCHANGED <<approval, chain>> \/ (\E c \in ChainIds : OpenChain(t, c))
      \/ \E a \in ApprovalIds : OpenApproval(t, a)
  BY DEF WorkerStep, StartStep, AdvanceStep, Take, CheckActive, CreateRun, LoadRun,
     EvalCondition, RunAction, FailAction, RecordGate, NotifyApprovers, RecordFailure,
     Complete, rows
<1> QED
  BY <1>2, <1>3, <1>4 DEF StatusOf

(* The ids anyone refers to are of the right kind.                         *)
LEMMA KindOfRow ==
  ASSUME NEW k \in RowKinds, NEW x \in RowIds
  PROVE  /\ \A row \in RunRow : At(row, k, x) =>
              (k = "chain" => x \in ChainIds) /\ (k = "approval" => x \in ApprovalIds)
         /\ \A l \in ThreadState : ThreadOK(l) /\ Opening(l, k, x) =>
              (k = "chain" => x \in ChainIds) /\ (k = "approval" => x \in ApprovalIds)
<1>1. None \notin ApprovalIds /\ None \notin ChainIds
  BY ConstantsAssumption
<1>2. ASSUME NEW row \in RunRow, At(row, k, x)
      PROVE  (k = "chain" => x \in ChainIds) /\ (k = "approval" => x \in ApprovalIds)
  BY <1>1, <1>2 DEF At, RunRow, RowIds
<1>3. ASSUME NEW l \in ThreadState, ThreadOK(l), Opening(l, k, x)
      PROVE  (k = "chain" => x \in ChainIds) /\ (k = "approval" => x \in ApprovalIds)
  <2>1. l.steps \in Seq(Step) /\ l.index \in DOMAIN l.steps
    BY <1>3 DEF Opening, ThreadOK, ThreadState
  <2>2. l.steps[l.index] \in Step
    BY <2>1
  <2>3. l.steps[l.index].required \in Nat
    BY <2>2 DEF Step
  <2>4. CASE l.steps[l.index].required > 1
    BY <1>3, <2>4 DEF Opening, ThreadOK
  <2>5. CASE ~ (l.steps[l.index].required > 1)
    <3>1. l.steps[l.index].required <= 1
      BY <2>3, <2>5
    <3> QED
      BY <1>3, <2>5, <3>1 DEF Opening, ThreadOK
  <2> QED
    BY <2>4, <2>5
<1> QED
  BY <1>2, <1>3

LEMMA WorkerKeepsOwn ==
  ASSUME TypeOK, LocalsOK, RootInv, OwnRows, NEW t \in Threads, WorkerStep(t),
         NEW k \in RowKinds, NEW x \in RowIds
  PROVE  OwnRow(k, x)'
<1> DEFINE l == thread[t]
           n == thread'[t]
<1>1. WorkerTurn(t, l, n)
  BY WorkerTurns
<1>2. UNCHANGED request /\ \A s \in Threads : s # t => thread'[s] = thread[s]
  BY WorkerFrame
<1>3. /\ l \in ThreadState /\ ThreadOK(l) /\ run \in [RunIds -> RunRow]
      /\ approval \in [ApprovalIds -> ApprovalRow] /\ chain \in [ChainIds -> ChainRow]
      /\ \A s \in Threads : thread[s] \in ThreadState /\ ThreadOK(thread[s])
      /\ \A r \in RunIds : run[r] \in RunRow /\ Rooted(run[r])
      /\ \A q \in Requests : request[q].pc # "idle" => Rooted(request[q].row)
  BY DEF TypeOK, TablesOK, LocalsOK, RootInv, CallRow
<1>4. OwnRow(k, x) /\ None # x
  BY ConstantsAssumption DEF OwnRows, RowIds
<1>5. (\E s \in Threads : Opening(thread[s], k, x)) /\ StatusOf(k, x) = "PENDING"
        => StatusOf(k, x)' = "PENDING"
  BY <1>3, KindOfRow, WorkerKeepsPending
<1>6. ASSUME UNCHANGED run, StatusOf(k, x) = "ABSENT", StatusOf(k, x)' = "PENDING"
      PROVE  OwnRow(k, x)'
  <2>1. \A r \in RunIds : ~ At(run[r], k, x)
    BY <1>3, <1>4, <1>6 DEF At, Rooted, StatusOf
  <2>2. \A q \in Requests : ~ Bound(request[q], k, x)
    BY <1>3, <1>4, <1>6 DEF At, Bound, Rooted, StatusOf
  <2>3. \A s \in Threads : ~ Opening(thread[s], k, x)
    BY <1>4, <1>6 DEF OwnRow
  <2>4. \A s \in Threads : Opening(thread'[s], k, x) => s = t
    BY <1>2, <2>3
  <2>5. \A r \in RunIds : ~ At(run'[r], k, x)
    BY <1>6, <2>1
  <2>6. \A q \in Requests : ~ Bound(request'[q], k, x)
    BY <1>2, <2>2
  <2> QED
    BY <1>6, <2>4, <2>5, <2>6 DEF OwnRow, At, Bound, Opening, StatusOf
<1>7. ASSUME ~ Opening(n, k, x), \A r \in RunIds : At(run'[r], k, x) => At(run[r], k, x)
      PROVE  OwnRow(k, x)'
  <2>1. \A s \in Threads : Opening(thread'[s], k, x) => Opening(thread[s], k, x)
    BY <1>2, <1>7
  <2> QED
    BY <1>2, <1>5, <1>7, <2>1, OwnStays
<1>8. ASSUME NEW c \in ChainIds, OpenChain(t, c), n.opened = c PROVE OwnRow(k, x)'
  <2>1. /\ chain[c].status = "ABSENT" /\ chain'[c].status = "PENDING" /\ UNCHANGED run
        /\ l.steps[l.index].required > 1 /\ l.pc = "step"
    BY <1>3, <1>8 DEF OpenChain, CurrentStep, AtStep
  <2>2. n.steps = l.steps /\ n.index = l.index
    <3>1. n = [l EXCEPT !.pc = "gate", !.opened = c]
      BY <1>8 DEF OpenChain, Become, TypeOK
    <3> QED
      BY <1>3, <3>1 DEF ThreadState
  <2>3. CASE k = "chain" /\ x = c
    BY <1>6, <2>1, <2>3 DEF StatusOf
  <2>4. CASE ~ (k = "chain" /\ x = c)
    BY <1>7, <1>8, <2>1, <2>2, <2>4 DEF Opening
  <2> QED
    BY <2>3, <2>4
<1>9. ASSUME NEW a \in ApprovalIds, OpenApproval(t, a), n.opened = a PROVE OwnRow(k, x)'
  <2>1. /\ approval[a].status = "ABSENT" /\ approval'[a].status = "PENDING" /\ UNCHANGED run
        /\ l.steps[l.index].required <= 1 /\ l.pc = "step" /\ l.index \in DOMAIN l.steps
    BY <1>3, <1>9 DEF OpenApproval, CurrentStep, AtStep, NoApproval
  <2>2. n.steps = l.steps /\ n.index = l.index
    <3>1. n = [l EXCEPT !.pc = "gate", !.opened = a]
      BY <1>9 DEF OpenApproval, Become, TypeOK
    <3> QED
      BY <1>3, <3>1 DEF ThreadState
  <2>3. ~ (l.steps[l.index].required > 1)
    <3>1. l.steps \in Seq(Step)
      BY <1>3 DEF ThreadState
    <3>2. l.steps[l.index] \in Step
      BY <2>1, <3>1
    <3>3. l.steps[l.index].required \in Nat
      BY <3>2 DEF Step
    <3> QED
      BY <2>1, <3>3
  <2>4. CASE k = "approval" /\ x = a
    BY <1>6, <2>1, <2>4 DEF StatusOf
  <2>5. CASE ~ (k = "approval" /\ x = a)
    BY <1>7, <1>9, <2>1, <2>2, <2>3, <2>5 DEF Opening
  <2> QED
    BY <2>4, <2>5
<1>10. ASSUME RecordGate(t) PROVE OwnRow(k, x)'
  <2> DEFINE gate == l.steps[l.index]
  <2>1. l.pc = "gate" /\ l.run \in RunIds /\ n.pc = "notify"
    <3>1. n = [l EXCEPT !.pc = "notify"]
      BY <1>10 DEF RecordGate, Become, TypeOK
    <3> QED
      BY <1>3, <1>10, <3>1 DEF RecordGate, ThreadOK, ThreadState
  <2>2. PICK allow : run' = [run EXCEPT ![l.run] = WaitAt(@, gate, l.opened, l.index, allow)]
    BY <1>10 DEF RecordGate, CurrentStep
  <2>3. \A r \in RunIds : r # l.run => run'[r] = run[r]
    BY <1>3, <2>2
  <2>4. At(run'[l.run], k, x) => At(run[l.run], k, x) \/ Opening(l, k, x)
    <3>1. run'[l.run] = WaitAt(run[l.run], gate, l.opened, l.index, allow)
      BY <1>3, <2>1, <2>2
    <3>2. CASE gate.required > 1
      <4>1. run'[l.run].chain = l.opened /\ run'[l.run].approval = run[l.run].approval
        BY <1>3, <2>1, <3>1, <3>2 DEF WaitAt, RunRow
      <4> QED
        BY <2>1, <3>2, <4>1 DEF At, Opening
    <3>3. CASE ~ (gate.required > 1)
      <4>1. run'[l.run].chain = run[l.run].chain /\ run'[l.run].approval = l.opened
        BY <1>3, <2>1, <3>1, <3>3 DEF WaitAt, RunRow
      <4> QED
        BY <2>1, <3>3, <4>1 DEF At, Opening
    <3> QED
      BY <3>2, <3>3
  <2>5. ~ Opening(n, k, x)
    BY <2>1 DEF Opening
  <2>6. CASE ~ Opening(l, k, x)
    BY <1>7, <2>3, <2>4, <2>5, <2>6
  <2>7. CASE Opening(l, k, x)
    <3>1. /\ \A r \in RunIds : ~ At(run[r], k, x)
          /\ \A q \in Requests : ~ Bound(request[q], k, x)
          /\ \A s \in Threads : Opening(thread[s], k, x) => s = t
      BY <1>4, <2>7 DEF OwnRow
    <3>2. \A r \in RunIds : At(run'[r], k, x) => r = l.run
      BY <2>3, <3>1
    <3>3. \A q \in Requests : ~ Bound(request'[q], k, x)
      BY <1>2, <3>1
    <3>4. \A s \in Threads : ~ Opening(thread'[s], k, x)
      BY <1>2, <2>5, <3>1
    <3> QED
      BY <3>2, <3>3, <3>4 DEF OwnRow, At, Bound, Opening, StatusOf
  <2> QED
    BY <2>6, <2>7
<1>11. ASSUME n.pc # "gate", ~ RecordGate(t) PROVE OwnRow(k, x)'
  <2>1. ASSUME NEW r \in RunIds, At(run'[r], k, x) PROVE At(run[r], k, x)
    <3>1. ASSUME NEW j \in RunIds, CreateRun(t, j) PROVE At(run[r], k, x)
      <4>1. run' = [run EXCEPT ![j] = [NoRun EXCEPT !.status = "RUNNING"]]
        BY <3>1 DEF CreateRun
      <4>2. r = j => run'[r].approval = None /\ run'[r].chain = None
        BY <1>3, <4>1 DEF NoRun
      <4>3. r # j => run'[r] = run[r]
        BY <1>3, <4>1
      <4> QED
        BY <1>4, <2>1, <4>2, <4>3 DEF At
    <3>2. ASSUME RecordFailure(t) \/ Complete(t) PROVE At(run[r], k, x)
      <4>a. \E f, i : run' = [run EXCEPT ![l.run].status = f, ![l.run].index = i]
        BY <3>2 DEF RecordFailure, Complete
      <4>1. run'[r].approval = run[r].approval /\ run'[r].chain = run[r].chain
        BY <1>3, <4>a DEF RunRow
      <4> QED
        BY <2>1, <4>1 DEF At
    <3>3. \/ UNCHANGED run \/ (\E j \in RunIds : CreateRun(t, j))
          \/ RecordFailure(t) \/ Complete(t)
      BY <1>11 DEF WorkerStep, StartStep, AdvanceStep, Take, CheckActive, LoadRun, EvalCondition,
         RunAction, FailAction, OpenChain, OpenApproval, NotifyApprovers, rows
    <3> QED
      BY <2>1, <3>1, <3>2, <3>3
  <2> QED
    BY <1>7, <1>11, <2>1 DEF Opening
<1>12. \/ n.pc # "gate"
       \/ \E c \in ChainIds : OpenChain(t, c) /\ n.opened = c
       \/ \E a \in ApprovalIds : OpenApproval(t, a) /\ n.opened = a
  <2>1. IdleThread.pc = "idle"
    BY DEF IdleThread
  <2> HIDE DEF l, n
  <2> QED
    BY <1>1, <2>1 DEF WorkerTurn, SameWalk
<1> QED
  BY <1>8, <1>9, <1>10, <1>11, <1>12

(* The rows a request writes: the one it decides on, or one not there yet. *)
LEMMA RequestWritesRows ==
  ASSUME TypeOK, LocalsOK, NEW q \in Requests, Receive(q) \/ DecisionStep(q) \/ LoseRequest(q),
         NEW k \in RowKinds, NEW x \in RowIds,
         k = "chain" => x \in ChainIds, k = "approval" => x \in ApprovalIds,
         StatusOf(k, x) = "PENDING", StatusOf(k, x)' # "PENDING"
  PROVE  /\ Bound(request[q], k, x) /\ request'[q].run = request[q].run
         /\ request'[q].pc = "move"
<1> DEFINE c == request[q]
<1>1. /\ c \in RequestState /\ RequestOK(c) /\ request \in [Requests -> RequestState]
      /\ approval \in [ApprovalIds -> ApprovalRow] /\ chain \in [ChainIds -> ChainRow]
  BY DEF TypeOK, TablesOK, LocalsOK
<1>2. ASSUME Now(q, "move") PROVE request'[q].run = c.run /\ request'[q].pc = "move"
  <2>1. request'[q] = [c EXCEPT !.pc = "move"]
    BY <1>1, <1>2 DEF Now
  <2> QED
    BY <1>1, <2>1 DEF RequestState
<1>3. CASE WriteVerdict(q)
  <2>1. c.pc = "write" /\ UNCHANGED chain
    BY <1>3 DEF WriteVerdict
  <2>2. k = "approval" /\ approval'[x] # approval[x]
    BY <2>1 DEF StatusOf, RowKinds
  <2>3. Now(q, "move") /\ x = c.row.approval
    BY <1>1, <1>3, <2>2 DEF WriteVerdict
  <2> QED
    BY <1>2, <2>1, <2>2, <2>3 DEF Bound, At
<1>4. CASE CloseChain(q)
  <2>1. c.pc = "close" /\ UNCHANGED approval /\ Now(q, "move")
    BY <1>4 DEF CloseChain
  <2>2. k = "chain" /\ chain'[x] # chain[x]
    BY <2>1 DEF StatusOf, RowKinds
  <2>3. x = c.row.chain
    BY <1>1, <1>4, <2>2 DEF CloseChain
  <2> QED
    BY <1>2, <2>1, <2>2, <2>3 DEF Bound, At
<1>5. ASSUME NEW a \in ApprovalIds, CastVote(q, a) PROVE FALSE
  <2>1. approval[a].status = "ABSENT" /\ UNCHANGED chain
        /\ \A y \in ApprovalIds : y # a => approval'[y] = approval[y]
    BY <1>1, <1>5 DEF CastVote
  <2> QED
    BY <2>1 DEF StatusOf, RowKinds
<1>6. CASE UNCHANGED <<approval, chain>>
  BY <1>6 DEF StatusOf
<1> QED
  BY <1>3, <1>4, <1>5, <1>6, RequestFrame

LEMMA RequestKeepsOwn ==
  ASSUME TypeOK, LocalsOK, OwnRows, NEW q \in Requests,
         Receive(q) \/ DecisionStep(q) \/ LoseRequest(q), NEW k \in RowKinds, NEW x \in RowIds
  PROVE  OwnRow(k, x)'
<1> DEFINE c == request[q]
           d == request'[q]
<1>1. RequestTurn(q, c, d)
  BY RequestTurns
<1>2. UNCHANGED thread /\ \A p \in Requests : p # q => request'[p] = request[p]
  BY RequestFrame
<1>3. /\ run \in [RunIds -> RunRow]
      /\ \A s \in Threads : thread[s] \in ThreadState /\ ThreadOK(thread[s])
  BY DEF TypeOK, TablesOK, LocalsOK
<1>4. OwnRow(k, x)
  BY DEF OwnRows
<1>5. \A r \in RunIds : At(run'[r], k, x) <=> At(run[r], k, x)
  <2>1. \A r \in RunIds : run'[r].approval = run[r].approval /\ run'[r].chain = run[r].chain
    <3>1. CASE MoveRun(q)
      BY <1>3, <3>1 DEF MoveRun, RunRow
    <3>2. CASE UNCHANGED run
      BY <3>2
    <3> QED
      BY <3>1, <3>2, RequestFrame
  <2> QED
    BY <2>1 DEF At
<1>6. ASSUME NEW s \in Threads, Opening(thread[s], k, x) PROVE StatusOf(k, x)' = "PENDING"
  <2>1. StatusOf(k, x) = "PENDING" /\ ~ Bound(c, k, x)
    BY <1>4, <1>6 DEF OwnRow
  <2>2. (k = "chain" => x \in ChainIds) /\ (k = "approval" => x \in ApprovalIds)
    BY <1>3, <1>6, KindOfRow
  <2> QED
    BY <2>1, <2>2, RequestWritesRows
<1>7. CASE Bound(d, k, x) => Bound(c, k, x) /\ d.run = c.run
  BY <1>2, <1>5, <1>6, <1>7, OwnStays
<1>8. ASSUME NEW r \in RunIds, d.row = run[r], d.run = r PROVE OwnRow(k, x)'
  <2>1. Bound(d, k, x) => At(run[r], k, x)
    BY <1>8 DEF Bound
  <2>2. CASE ~ Bound(d, k, x)
    BY <1>7, <2>2
  <2>3. CASE Bound(d, k, x)
    <3>1. \A s \in RunIds : At(run[s], k, x) => s = r
      BY <1>4, <2>1, <2>3 DEF OwnRow
    <3>2. \A s \in Threads : ~ Opening(thread[s], k, x)
      BY <1>4, <2>1, <2>3 DEF OwnRow
    <3>3. ASSUME NEW p \in Requests, NEW s \in RunIds, Bound(request'[p], k, x), At(run'[s], k, x)
          PROVE  request'[p].run = s
      <4>1. s = r
        BY <1>5, <3>1, <3>3
      <4>2. p # q => request[p].run = r
        BY <1>2, <1>4, <2>1, <2>3, <3>3 DEF OwnRow
      <4> QED
        BY <1>2, <1>8, <4>1, <4>2
    <3>4. \A s \in Threads : ~ Opening(thread'[s], k, x)
      BY <1>2, <3>2
    <3>5. \A s, p \in RunIds : At(run'[s], k, x) /\ At(run'[p], k, x) => s = p
      BY <1>5, <3>1
    <3> QED
      BY <3>3, <3>4, <3>5 DEF OwnRow, At, Bound, Opening, StatusOf
  <2> QED
    BY <2>2, <2>3
<1>9. \/ d.pc = "idle" \/ (\E r \in RunIds : d.row = run[r] /\ d.run = r)
      \/ c.pc # "idle" /\ SameCall(d, c)
  <2>1. IdleRequest.pc = "idle"
    BY DEF IdleRequest
  <2> HIDE DEF c, d
  <2> QED
    BY <1>1, <2>1 DEF RequestTurn
<1> QED
  BY <1>7, <1>8, <1>9 DEF Bound, At, SameCall

(* Whoever is about to point a run at a single gate finds no chain in its  *)
(* row, which the decision endpoint would consult instead.                 *)
Clean(l) == l.pc = "gate" /\ l.steps[l.index].required <= 1 => run[l.run].chain = None

LEMMA AlikeClean ==
  ASSUME GatesAlike, TypeOK, LocalsOK, StoredInv, Singles, NEW t \in Threads
  PROVE  Clean(thread[t])
<1> DEFINE l == thread[t]
           gate == l.steps[l.index]
<1> SUFFICES ASSUME l.pc = "gate", gate.required <= 1 PROVE run[l.run].chain = None
  BY DEF Clean
<1>1. /\ l \in ThreadState /\ l.run \in RunIds /\ l.steps \in Stored
      /\ l.index \in DOMAIN l.steps /\ gate.type = "APPROVAL_GATE"
  BY DEF TypeOK, LocalsOK, ThreadOK, StoredInv, Keeps, Midway
<1>2. gate.required \in Nat
  <2>1. l.steps \in Seq(Step)
    BY <1>1 DEF ThreadState
  <2>2. gate \in Step
    BY <1>1, <2>1
  <2> QED
    BY <2>2 DEF Step
<1>3. ~ (gate.required > 1)
  BY <1>2
<1>4. SingleGates
  BY <1>1, <1>3 DEF GatesAlike, QuorumGates
<1> QED
  BY <1>1, <1>4 DEF Singles

LEMMA StagedClean ==
  ASSUME JustifiedInv, StagedInv, faults = 0, NEW t \in Threads
  PROVE  Clean(thread[t])
<1> DEFINE l == thread[t]
<1> SUFFICES ASSUME l.pc = "gate", l.steps[l.index].required <= 1, run[l.run].chain # None
             PROVE  FALSE
  BY DEF Clean
<1>1. /\ l.steps = Published /\ l.index \in DOMAIN Published
      /\ l.run \in RunIds /\ SingleAt(l.index)
  BY DEF JustifiedInv, LocalsOK, ThreadOK, PositionsOK, ThreadPosition, StagedInv, SingleAt, IsGate
<1>2. Walks(l, l.run) /\ Inside(l, l.run)
  BY DEF Walks, Inside, Midway
<1>3. Past(l.index)
  BY <1>1, <1>2 DEF StagedInv, Staged
<1> QED
  BY <1>1, <1>3, PublishedSteps DEF Past

LEMMA WorkerKeepsWaiting ==
  ASSUME TypeOK, LocalsOK, StoredInv, OwnRows, Singles, WaitingIsDecidable,
         NEW t \in Threads, WorkerStep(t), faults = 0 => Clean(thread[t])
  PROVE  Singles' /\ WaitingIsDecidable'
<1> DEFINE l == thread[t]
           gate == l.steps[l.index]
<1>1. UNCHANGED <<request, faults, stranded>>
  BY WorkerFrame
<1>2. /\ l \in ThreadState /\ ThreadOK(l) /\ run \in [RunIds -> RunRow]
      /\ \A r \in RunIds : run[r] \in RunRow
      /\ None \notin ApprovalIds /\ None \notin ChainIds
  BY ConstantsAssumption DEF TypeOK, TablesOK, LocalsOK
<1>3. ASSUME RecordGate(t)
      PROVE  /\ l.pc = "gate" /\ l.run \in RunIds /\ l.steps \in Stored
             /\ gate.type = "APPROVAL_GATE" /\ l.index \in DOMAIN l.steps
             /\ gate.required > 1 => run'[l.run].chain = l.opened /\ l.opened \in ChainIds
             /\ ~ (gate.required > 1) =>
                  /\ run'[l.run].chain = run[l.run].chain /\ run'[l.run].approval = l.opened
                  /\ l.opened \in ApprovalIds /\ gate.required <= 1
             /\ UNCHANGED <<approval, chain>>
             /\ \A r \in RunIds : r # l.run => run'[r] = run[r]
  <2>1. /\ l.pc = "gate" /\ l.run \in RunIds /\ gate.type = "APPROVAL_GATE"
        /\ l.index \in DOMAIN l.steps /\ UNCHANGED <<approval, chain>>
    BY <1>2, <1>3 DEF RecordGate, ThreadOK
  <2>2. l.steps \in Stored
    BY <2>1 DEF StoredInv, Keeps, Midway
  <2>3. gate.required \in Nat
    <3>1. l.steps \in Seq(Step)
      BY <1>2 DEF ThreadState
    <3>2. gate \in Step
      BY <2>1, <3>1
    <3> QED
      BY <3>2 DEF Step
  <2>4. PICK allow : run' = [run EXCEPT ![l.run] = WaitAt(@, gate, l.opened, l.index, allow)]
    BY <1>3 DEF RecordGate, CurrentStep
  <2>5. \A r \in RunIds : r # l.run => run'[r] = run[r]
    BY <1>2, <2>4
  <2>6. run'[l.run] = WaitAt(run[l.run], gate, l.opened, l.index, allow) /\ run[l.run] \in RunRow
    BY <1>2, <2>1, <2>4
  <2>7. gate.required > 1 => run'[l.run].chain = l.opened /\ l.opened \in ChainIds
    BY <1>2, <2>1, <2>6 DEF WaitAt, RunRow, ThreadOK
  <2>8. ~ (gate.required > 1) => gate.required <= 1
    BY <2>3
  <2>9. ~ (gate.required > 1) =>
          /\ run'[l.run].chain = run[l.run].chain /\ run'[l.run].approval = l.opened
          /\ l.opened \in ApprovalIds
    BY <1>2, <2>1, <2>6, <2>8 DEF WaitAt, RunRow, ThreadOK
  <2> QED
    BY <2>1, <2>2, <2>5, <2>7, <2>8, <2>9
<1>4. ASSUME ~ RecordGate(t), NEW r \in RunIds
      PROVE  /\ run'[r].chain = run[r].chain \/ run'[r].chain = None
             /\ run'[r].status = "WAITING_APPROVAL" => run'[r] = run[r]
  <2>1. ASSUME NEW j \in RunIds, CreateRun(t, j)
        PROVE  run'[r] = run[r] \/ (run'[r].chain = None /\ run'[r].status = "RUNNING")
    <3>1. run' = [run EXCEPT ![j] = [NoRun EXCEPT !.status = "RUNNING"]]
      BY <2>1 DEF CreateRun
    <3> QED
      BY <1>2, <3>1 DEF NoRun
  <2>2. ASSUME RecordFailure(t) \/ Complete(t)
        PROVE  /\ run'[r].chain = run[r].chain
               /\ run'[r] = run[r] \/ run'[r].status \in {"FAILED", "COMPLETED"}
    <3>1. ASSUME NEW f \in {"FAILED", "COMPLETED"}, NEW i,
                 run' = [run EXCEPT ![l.run].status = f, ![l.run].index = i]
          PROVE  /\ run'[r].chain = run[r].chain
                 /\ run'[r] = run[r] \/ run'[r].status \in {"FAILED", "COMPLETED"}
      <4>1. run'[r].chain = run[r].chain
        BY <1>2, <3>1 DEF RunRow
      <4>2. CASE r = l.run
        <5>1. run'[r] = [run[r] EXCEPT !.status = f, !.index = i]
          BY <1>2, <3>1, <4>2
        <5>2. run'[r].status = f
          BY <1>2, <5>1 DEF RunRow
        <5> QED
          BY <4>1, <5>2
      <4>3. CASE r # l.run
        BY <1>2, <3>1, <4>3
      <4> QED
        BY <4>1, <4>2, <4>3
    <3>2. \/ run' = [run EXCEPT ![l.run].status = "FAILED", ![l.run].index = l.index]
          \/ run' = [run EXCEPT ![l.run].status = "COMPLETED",
                                ![l.run].index = Len(l.steps) + 1]
      BY <2>2 DEF RecordFailure, Complete
    <3> QED
      BY <3>1, <3>2
  <2>3. \/ UNCHANGED run \/ (\E j \in RunIds : CreateRun(t, j))
        \/ RecordFailure(t) \/ Complete(t)
    BY <1>4 DEF WorkerStep, StartStep, AdvanceStep, Take, CheckActive, LoadRun, EvalCondition,
       RunAction, FailAction, OpenChain, OpenApproval, NotifyApprovers, rows
  <2> QED
    BY <2>1, <2>2, <2>3
<1>5. Singles'
  <2>1. SUFFICES ASSUME SingleGates, NEW r \in RunIds PROVE run'[r].chain = None
    BY DEF Singles
  <2>2. run[r].chain = None
    BY <2>1 DEF Singles
  <2>3. CASE RecordGate(t)
    <3>1. gate.required <= 1
      BY <1>3, <2>1, <2>3 DEF SingleGates
    <3>2. gate.required \in Nat
      <4>1. l.steps \in Seq(Step)
        BY <1>2 DEF ThreadState
      <4>2. gate \in Step
        BY <1>3, <2>3, <4>1
      <4> QED
        BY <4>2 DEF Step
    <3>3. ~ (gate.required > 1)
      BY <3>1, <3>2
    <3>4. r = l.run => run'[r].chain = run[r].chain
      BY <1>3, <2>3, <3>3
    <3> QED
      BY <1>3, <2>2, <2>3, <3>4
  <2>4. CASE ~ RecordGate(t)
    BY <1>4, <2>2, <2>4
  <2> QED
    BY <2>3, <2>4
<1>6. ASSUME faults = 0, NEW r \in RunIds, run'[r].status = "WAITING_APPROVAL"
      PROVE  \/ GateOpen(run[r])'
             \/ \E q \in Requests : request'[q].pc = "move" /\ request'[q].run = r
             \/ r \in stranded'
  <2>1. CASE run'[r] = run[r]
    <3>1. PICK row : row = run[r] /\ row \in RunRow
      BY <1>2
    <3>2. \/ GateOpen(row) \/ r \in stranded
          \/ \E q \in Requests : request[q].pc = "move" /\ request[q].run = r
      BY <1>6, <2>1, <3>1 DEF WaitingIsDecidable
    <3>3. ASSUME GateOpen(row) PROVE GateOpen(row)'
      <4>1. CASE row.chain # None
        <5>1. row.chain \in ChainIds /\ StatusOf("chain", row.chain) = "PENDING"
          BY <3>1, <3>3, <4>1 DEF GateOpen, RunRow, StatusOf
        <5>2. StatusOf("chain", row.chain)' = "PENDING"
          BY <5>1, WorkerKeepsPending DEF RowKinds, RowIds
        <5> QED
          BY <4>1, <5>2 DEF GateOpen, StatusOf
      <4>2. CASE row.chain = None
        <5>1. /\ row.approval \in ApprovalIds /\ row.approval # None
              /\ StatusOf("approval", row.approval) = "PENDING"
          BY <3>1, <3>3, <4>2 DEF GateOpen, RunRow, StatusOf
        <5>2. StatusOf("approval", row.approval)' = "PENDING"
          BY <5>1, WorkerKeepsPending DEF RowKinds, RowIds
        <5> QED
          BY <4>2, <5>1, <5>2 DEF GateOpen, StatusOf
      <4> QED
        BY <4>1, <4>2
    <3> QED
      BY <1>1, <2>1, <3>1, <3>2, <3>3 DEF GateOpen
  <2>2. CASE run'[r] # run[r]
    <3>1. RecordGate(t) /\ r = l.run
      BY <1>3, <1>4, <1>6, <2>2
    <3>2. CASE gate.required > 1
      <4>1. l.opened \in ChainIds /\ run'[r].chain = l.opened /\ UNCHANGED chain
        BY <1>3, <3>1, <3>2
      <4>2. Opening(l, "chain", l.opened)
        BY <1>3, <3>1, <3>2 DEF Opening
      <4>3. chain[l.opened].status = "PENDING"
        BY <4>1, <4>2 DEF OwnRows, OwnRow, RowKinds, RowIds, StatusOf
      <4> QED
        BY <1>2, <4>1, <4>3 DEF GateOpen
    <3>3. CASE ~ (gate.required > 1)
      <4>1. /\ l.opened \in ApprovalIds /\ run'[r].approval = l.opened /\ UNCHANGED approval
            /\ run'[r].chain = run[r].chain
        BY <1>3, <3>1, <3>3
      <4>2. Opening(l, "approval", l.opened)
        BY <1>3, <3>1, <3>3 DEF Opening
      <4>3. approval[l.opened].status = "PENDING"
        BY <4>1, <4>2 DEF OwnRows, OwnRow, RowKinds, RowIds, StatusOf
      <4>4. run'[r].chain = None
        BY <1>3, <1>6, <3>1, <3>3, <4>1 DEF Clean
      <4> QED
        BY <1>2, <4>1, <4>3, <4>4 DEF GateOpen
    <3> QED
      BY <3>2, <3>3
  <2> QED
    BY <2>1, <2>2
<1> QED
  BY <1>1, <1>5, <1>6 DEF WaitingIsDecidable

LEMMA RequestKeepsWaiting ==
  ASSUME TypeOK, LocalsOK, OwnRows, Singles, WaitingIsDecidable,
         NEW q \in Requests, Receive(q) \/ DecisionStep(q)
  PROVE  Singles' /\ WaitingIsDecidable'
<1> DEFINE c == request[q]
           d == request'[q]
<1>1. RequestTurn(q, c, d)
  BY RequestTurns
<1>2. \A p \in Requests : p # q => request'[p] = request[p]
  BY RequestFrame
<1>3. /\ c \in RequestState /\ RequestOK(c) /\ run \in [RunIds -> RunRow]
      /\ \A r \in RunIds : run[r] \in RunRow
      /\ None \notin ApprovalIds /\ None \notin ChainIds
  BY ConstantsAssumption DEF TypeOK, TablesOK, LocalsOK
<1>4. UNCHANGED faults
  BY DEF Receive, ReceiveDecision, DecisionStep, CheckApproval, WriteVerdict,
     CheckChain, CheckVoted, CastVote, CountVotes, CloseChain, MoveRun, EnqueueResume
<1>5. Singles'
  <2>1. \A r \in RunIds : run'[r].chain = run[r].chain
    <3>1. CASE MoveRun(q)
      BY <1>3, <3>1 DEF MoveRun, RunRow
    <3>2. CASE UNCHANGED run
      BY <3>2
    <3> QED
      BY <3>1, <3>2, RequestFrame
  <2> QED
    BY <2>1 DEF Singles
(* Whoever has decided moves the run, or it is stranded.                   *)
<1>6. ASSUME c.pc = "move", NEW r \in RunIds, c.run = r, run'[r].status = "WAITING_APPROVAL"
      PROVE  r \in stranded'
  <2>1. MoveRun(q)
    BY <1>6 DEF Receive, ReceiveDecision, DecisionStep, CheckApproval, WriteVerdict,
       CheckChain, CheckVoted, CastVote, CountVotes, CloseChain, EnqueueResume
  <2>2. \/ \E i : run' = [run EXCEPT ![c.run].status = "RUNNING", ![c.run].index = i]
        \/ run' = [run EXCEPT ![c.run].status = "FAILED"]
        \/ stranded' = stranded \cup {c.run}
    BY <2>1 DEF MoveRun
  <2> QED
    BY <1>3, <1>6, <2>2 DEF RunRow
<1>7. ASSUME NEW r \in RunIds, r \in stranded, run'[r].status = "WAITING_APPROVAL"
      PROVE  r \in stranded'
  <2>1. CASE MoveRun(q)
    <3>1. r # c.run => r \in stranded'
      BY <1>7, <2>1 DEF MoveRun
    <3>2. c.pc = "move"
      BY <2>1 DEF MoveRun
    <3> QED
      BY <1>6, <1>7, <3>1, <3>2
  <2>2. CASE ~ MoveRun(q)
    BY <1>7, <2>2 DEF Receive, ReceiveDecision, DecisionStep, CheckApproval, WriteVerdict,
       CheckChain, CheckVoted, CastVote, CountVotes, CloseChain, EnqueueResume, history
  <2> QED
    BY <2>1, <2>2
<1>8. ASSUME faults = 0, NEW r \in RunIds, run'[r].status = "WAITING_APPROVAL"
      PROVE  \/ GateOpen(run[r])'
             \/ \E p \in Requests : request'[p].pc = "move" /\ request'[p].run = r
             \/ r \in stranded'
  <2>1. run'[r] = run[r]
    BY <1>8, RequestWrites
  <2>2. PICK row : row = run[r] /\ row \in RunRow
    BY <1>3
  <2>3. \/ GateOpen(row) \/ r \in stranded
        \/ \E p \in Requests : request[p].pc = "move" /\ request[p].run = r
    BY <1>8, <2>1, <2>2 DEF WaitingIsDecidable
  <2>4. ASSUME NEW p \in Requests, request[p].pc = "move", request[p].run = r
        PROVE  r \in stranded' \/ (request'[p].pc = "move" /\ request'[p].run = r)
    BY <1>2, <1>6, <1>8, <2>4
  <2>5. ASSUME NEW k \in RowKinds, NEW x \in RowIds, At(row, k, x),
               StatusOf(k, x) = "PENDING", StatusOf(k, x)' # "PENDING"
        PROVE  d.pc = "move" /\ d.run = r
    <3>1. Bound(c, k, x) /\ d.run = c.run /\ d.pc = "move"
      BY <2>2, <2>5, KindOfRow, RequestWritesRows
    <3> QED
      BY <2>2, <2>5, <3>1 DEF OwnRows, OwnRow
  <2>6. ASSUME GateOpen(row), ~ GateOpen(row)' PROVE d.pc = "move" /\ d.run = r
    <3>1. CASE row.chain # None
      <4>1. /\ row.chain \in ChainIds /\ StatusOf("chain", row.chain) = "PENDING"
            /\ StatusOf("chain", row.chain)' # "PENDING" /\ At(row, "chain", row.chain)
        BY <2>2, <2>6, <3>1 DEF GateOpen, RunRow, StatusOf, At
      <4> QED
        BY <2>5, <4>1 DEF RowKinds, RowIds
    <3>2. CASE row.chain = None
      <4>1. /\ row.approval \in ApprovalIds /\ StatusOf("approval", row.approval) = "PENDING"
            /\ StatusOf("approval", row.approval)' # "PENDING" /\ At(row, "approval", row.approval)
        BY <2>2, <2>6, <3>2 DEF GateOpen, RunRow, StatusOf, At
      <4> QED
        BY <2>5, <4>1 DEF RowKinds, RowIds
    <3> QED
      BY <3>1, <3>2
  <2> QED
    BY <1>7, <1>8, <2>1, <2>2, <2>3, <2>4, <2>6 DEF GateOpen
<1> QED
  BY <1>4, <1>5, <1>8 DEF WaitingIsDecidable

LEMMA WaitStep ==
  ASSUME TypeOK, LocalsOK, StoredInv, RootInv, WaitInv,
         \A t \in Threads : faults = 0 => Clean(thread[t]), [Next]_vars
  PROVE  WaitInv'
(* Consumers and requests stay where they are or go idle.                  *)
<1>1. ASSUME UNCHANGED <<rows, stranded>>,
             \A t \in Threads : thread'[t] \in {IdleThread, thread[t]},
             \A q \in Requests : request'[q] \in {IdleRequest, request[q]},
             faults' # 0 \/ UNCHANGED <<faults, request>>
      PROVE  WaitInv'
  <2>1. IdleThread.pc = "idle" /\ IdleRequest.pc = "idle"
    BY DEF IdleThread, IdleRequest
  <2>2. ASSUME NEW k \in RowKinds, NEW x \in RowIds PROVE OwnRow(k, x)'
    <3>1. \A q \in Requests : Bound(request'[q], k, x) =>
            Bound(request[q], k, x) /\ request'[q].run = request[q].run
      BY <1>1, <2>1 DEF Bound
    <3>2. \A t \in Threads : Opening(thread'[t], k, x) => Opening(thread[t], k, x)
      BY <1>1, <2>1 DEF Opening
    <3>3. UNCHANGED <<run, approval, chain>> /\ (StatusOf(k, x) = "PENDING" => StatusOf(k, x)' = "PENDING")
      BY <1>1 DEF rows, StatusOf
    <3>4. \A r \in RunIds : At(run'[r], k, x) => At(run[r], k, x)
      BY <3>3
    <3> QED
      BY <3>1, <3>2, <3>3, <3>4, OwnStays DEF WaitInv
  <2>3. Singles'
    BY <1>1 DEF WaitInv, Singles, rows
  <2>4. WaitingIsDecidable'
    BY <1>1 DEF WaitInv, WaitingIsDecidable, GateOpen, rows
  <2> QED
    BY <2>2, <2>3, <2>4 DEF WaitInv, OwnRows
<1>2. ASSUME NEW t \in Threads, WorkerStep(t) PROVE WaitInv'
  <2>1. OwnRows'
    BY <1>2, WorkerKeepsOwn DEF OwnRows, WaitInv
  <2>2. Singles' /\ WaitingIsDecidable'
    BY <1>2, WorkerKeepsWaiting DEF WaitInv
  <2> QED
    BY <2>1, <2>2 DEF WaitInv
<1>3. ASSUME NEW q \in Requests, Receive(q) \/ DecisionStep(q) PROVE WaitInv'
  <2>1. OwnRows'
    BY <1>3, RequestKeepsOwn DEF OwnRows, WaitInv
  <2> QED
    BY <1>3, <2>1, RequestKeepsWaiting DEF WaitInv
<1>4. ASSUME faults' = faults + 1 PROVE faults' # 0
  BY <1>4 DEF TypeOK, HistoryOK
<1>5. ASSUME NEW t \in Threads, FailJob(t) PROVE WaitInv'
  BY <1>1, <1>4, <1>5 DEF FailJob, Finish, Become, TypeOK, history
<1>6. ASSUME NEW p \in Processes, Crash(p) PROVE WaitInv'
  BY <1>1, <1>4, <1>6 DEF Crash, history
<1>7. ASSUME NEW q \in Requests, LoseRequest(q) PROVE WaitInv'
  BY <1>1, <1>4, <1>7 DEF LoseRequest, Return, TypeOK, history
<1>8. ASSUME UNCHANGED <<rows, stranded, thread, request, faults>> PROVE WaitInv'
  BY <1>1, <1>8
<1>9. CASE UNCHANGED vars
  BY <1>8, <1>9 DEF vars, history
<1>10. CASE Next
  BY <1>2, <1>3, <1>5, <1>6, <1>7, <1>8, <1>10 DEF Next, Trigger, EditRule, ToggleDelegation,
     history
<1> QED
  BY <1>9, <1>10

(* Where gates are all single, or all quorums, or the first of a rule that *)
(* is not edited and leads forward is single and the others quorums, a run *)
(* that waits can be decided as long as nothing fails, whoever else        *)
(* decides, walks and votes at the same time, whoever stands in for whom,  *)
(* and wherever the gotos lead: but for the runs that a decision has left  *)
(* behind, stored and unable to move them (RecordGate, decide*Gate).       *)
THEOREM WaitingRunsCanBeDecided ==
  ASSUME GatesAlike \/ InStages
  PROVE  Spec => []WaitingIsDecidable
<1> DEFINE S == InStages => JustifiedInv /\ FirstInv /\ StagedInv
           I == TypeOK /\ LocalsOK /\ StoredInv /\ RootInv /\ WaitInv /\ S
<1>1. Init => I
  BY TypeInit, StoredInit, RootInit, WaitInit, JustifiedInit, FirstInit, StagedInit
<1>2. I /\ [Next]_vars => I'
  <2> SUFFICES ASSUME I, [Next]_vars PROVE I'
    OBVIOUS
  <2>1. TypeOK' /\ LocalsOK' /\ StoredInv' /\ RootInv'
    BY TypeStep, StoredStep, RootStep
  <2>2. S'
    <3> SUFFICES ASSUME InStages PROVE (JustifiedInv /\ FirstInv /\ StagedInv)'
      BY DEF InStages
    <3>1. JustifiedInv'
      BY TypeStep, PositionsStep, DeciderStep DEF JustifiedInv
    <3> QED
      BY <3>1, FirstStep, StagedStep DEF InStages
  <2>3. \A t \in Threads : faults = 0 => Clean(thread[t])
    BY AlikeClean, StagedClean DEF WaitInv
  <2>4. WaitInv'
    BY <2>3, WaitStep
  <2> QED
    BY <2>1, <2>2, <2>4
<1>3. I => WaitingIsDecidable
  BY DEF WaitInv
<1> QED
  BY <1>1, <1>2, <1>3, PTL DEF Spec

==============================================================================
