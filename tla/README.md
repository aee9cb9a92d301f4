# TopiaDesk CRM: a TLA+ verification of its shared-state protocols

TopiaDesk is a CRM for insurance brokers: a NestJS API (`src/backend/api`), a
BullMQ worker (`src/backend/worker`), Postgres behind Prisma with row-level
security (`src/packages/db`), Redis for queues, a Next.js frontend. Most of its
1768 files are forms and records, where one request changes one row. Its
protocols live where several actors share rows across awaits: workflow runs
waiting for approvals, scans that act on records, dispatchers that send,
clocks that are held and resumed, replays of writes made offline, a log whose
rows are chained. This project models those.

## 1. Inventory

One fact shapes every model here. **Each Prisma call is a transaction of its
own** (`packages/db/src/client.ts` opens one per operation to set the row-level
security variables). A handler that awaits five calls is five atomic steps, and
any other handler may run between two of them. The exceptions are explicit:
`prisma.$transaction` in the loyalty ledger, and a trigger inside its INSERT.
Consumers are BullMQ Workers with the default concurrency of one per process
and queue; jobs have `attempts: 1` unless said otherwise, and a job whose
process died is delivered once more as stalled.

| Component | State it keeps | Operations | Interacts with | What is hard | What makes it correct |
|---|---|---|---|---|---|
| Workflow engine (`worker/.../run-engine.ts`) | `automation_run_states`, `approvals`, `approval_chains` | `startRun`, `advanceRun` | event queue, schedule scan, resume queue, decision endpoint | double starts, crash inside a walk, edits under a run | nothing takes effect before its gates are decided; a run never hangs |
| Decision endpoint (`automation-run-decision.ts`) | the same rows | `decideAutomationRun` (single gate, quorum) | resume queue, delegations, Teams buttons | racing deciders, double clicks, lost enqueue | no self-approval; full quorum; decided once |
| Delegations | `approval_delegations` | create, remove, time window | decision endpoint, policies | ending between two steps of a decision | a stand-in acts only while in force |
| Rule editor (`automation-rules.controller.ts`) | `automation_rules` | create, update, remove | every consumer that read the rule | stale copies | an edit takes effect, and harms no run |
| Scheduled scan (`schedule-scan.job.ts`) | `automation_rules`, `automation_execution_logs` | scan, act, log, reschedule | rule editor, workflow engine | crash between act and log, overwide match, outage | once per record or per cooldown; nothing skipped for good |
| Event consumer (`automation-events.queue.ts`) | execution log | flat rules, default workflows | workflow engine | duplicate events | as above |
| Campaigns (`campaigns/dispatch.job.ts`, `ab-test-resolve.job.ts`, the campaign controllers) | campaign, recipients, suppressions | materialise, drain, close, decide a test, pause, resume, cancel, receipts, unsubscribe | poll, A/B job, administrators, mail provider | no claim before a send, blind status writes, stale copies | a stop holds; leavers are not mailed; SENT means nobody waits |
| Outbound webhooks (`webhooks/dispatch.job.ts`) | cursor, deliveries | scan, sweep, deliver, retry, redeliver | audit log, BullMQ retries | a cursor over rows that become visible out of order, crash before the cursor is saved, sweep during delivery | each event delivered, and in bounds |
| SLA clock and breach scan (`sla-clock.util.ts`, `breach-scan.job.ts`) | due times, holds, breach flags | start, pause, resume, satisfy, breach, escalate | case status changes, notifications | a hold racing the scan, repeated holds, closed days | due dates are exact; every breach is told |
| Case and claim life cycles | status, closure approvals | transitions, closure request and decision | SLA clock, automations, bulk edit, merge | writers of one status, racing deciders | only decided complaints close; clocks follow the status |
| Offline outbox (`outbox.ts`, `apiFetch`, `app/api`) | IndexedDB entries | queue, flush, park, discard | several open pages, route handlers, the interceptor | lost answers, two flushes at once, 409 | applied once, in order |
| HTTP idempotency (`idempotency.interceptor.ts`) | Redis keys | claim, replay, record, expire | every mutating request with a key | crash while in flight, expiry, the unawaited record | one execution per key |
| Notifications (`notification-email-dispatch.job.ts`) | notification rows | claim, send, fail | engine, scans, closure requests | claim before send, replicas | at most one mail |
| Loyalty ledger (`loyalty-ledger.util.ts`) | ledger rows | enroll, earn, redeem, adjust | row lock | two redemptions | no negative balance |
| Audit chain (triggers 001 and 003, `create-checkpoint.job.ts`) | hash chain, checkpoints | insert, anchor, verify | every write | ids drawn before the lock, rows visible late | one chain per lane, anchored and read |
| Teams buttons | one-time tokens | claim, decide | decision endpoint | token used, decision failed | a button decides at most once |
| Policy versions, renewals, scheduled reports, tenant provisioning, identity, integrations, AI gateway, portal, CRM records, the rest of the frontend | see `PROJECT.json` | | | | not modelled; the reasons are given there |

The hazards found while reading, each at its line and with the properties that
cover it, are listed in `PROJECT.json`.

## 2. Modules

An arrow reads "is extended by"; MC modules are for TLC.

```
StepGraph --> WorkflowEngine --> WorkflowProperties --> MCWorkflow
    \                                   |    \--> WorkflowProofs --> RunProofs
     \                                  |
      \--> GatedWorkflow <--(INSTANCE)--+
ScheduleScan --> MCSchedule, ScanProofs
AbSplit --> CampaignDispatch --> MCCampaign, CampaignProofs
    \-----> SplitProofs -----------------------/
AuditLog --> MCAudit
    \-----> WebhookDelivery --> MCWebhook, AuditProofs
CaseDesk --> MCCaseDesk, CaseProofs
LoyaltyLedger --> OfflineOutbox --> MCOutbox
                        \--> LoyaltyProofs
```

Three of these are compositions. WebhookDelivery runs the webhook poll over the
audit log's own specification: its next-state relation is a step of AuditLog or
one of the webhooks', and the cursor reads the log AuditLog writes.
OfflineOutbox puts phone, route handlers and interceptor in front of the ledger:
a request's handler steps are LoyaltyLedger's actions, and that the composition
never drives the ledger otherwise is a theorem (`Spec => LedgerSpec`). CaseDesk
composes case, clocks, breach scan, closure approval and mail dispatcher, which
share rows so closely that one module holds them.

**StepGraph** is the data of a rule: steps with their gotos, and the graph the
gotos span. `Reachable(s, v, i)` says that step `i` lies in every set of steps
that holds the first one and is closed under `Successors`, where a gate lets
nothing past unless the set `v` of verdicts holds a decision on it. It is
written as an intersection of closed sets, not by recursion, so that it can be
reasoned about.

**WorkflowEngine** is `run-engine.ts` and `automation-run-decision.ts`. A
consumer (`thread`) and an API request carry a program counter and the values
their handler holds in local variables: the steps read with the run, the walk's
index, the row a decision was taken on. Actions correspond to code as follows.

| Code | Actions |
|---|---|
| event or schedule job reaches `startRun` | `Trigger`, `Take`, `CheckActive`, `CreateRun` |
| `advanceRun`: load, walk | `LoadRun`, `EvalCondition`, `RunAction`, `FailAction`, `RecordFailure`, `Complete` |
| opening a gate: create the row, point the run at it, notify | `OpenChain`/`OpenApproval`, `RecordGate`, `NotifyApprovers` |
| `decideAutomationRun` | `ReceiveDecision` |
| `decideSingleGate` | `CheckApproval`, `WriteVerdict`, `MoveRun`, `EnqueueResume` |
| `decideChainedGate` | `CheckChain`, `CheckVoted`, `CastVote`, `CountVotes`, `CloseChain`, `MoveRun`, `EnqueueResume` |
| rule update; delegation window | `EditRule`, `ToggleDelegation` |
| process death and BullMQ's stalled redelivery; a job that throws; a lost request or enqueue | `Crash`, `FailJob`, `LoseRequest` |

Abstracted: the value a condition compares (either branch is possible), what an
action does (it takes effect or fails), the addressees of a gate (the field
`resolves` of a gate lists the allow-lists it may be given; `{}` is none), the
text of everything. Row-level security is kept: a write by a user whom the
policies of `002_policies.sql` would refuse fails as it does in the code. The
history variables `done`, `verdicts`, `overlapped`, `edited`, `stranded` (the
last decision was stored and could not move the run) and `starter` (the consumer
that created the run) record what happened and guard nothing.

**GatedWorkflow** is the abstract specification: per run, the actions that took
effect and the gates decided; an action may take effect, and a gate may be
decided, only at a step that is reachable under the decisions so far. There are
no threads, rows, queues or crashes in it. `WorkflowProperties` instantiates it
with `effects <- Effects` (steps executed at least once) and `granted <-
verdicts`.

**ScheduleScan** is the scheduled scan of one rule: read the due rule, match
(`Oldest(Cap + 1)`, as the query does), exclude what the log shows as handled,
act and log record by record, compute the next due time from the schedule read
and the moment the scan began. Time is relative (distance to the next due time,
age of a log row) so that the state space is finite without a last moment; a
cron expression is its period, and `NextRun` leaves open where in a period the
scan falls. An action works, or fails altogether when `healthy` is false. The
start of a run is one step here and counts as an execution on the record; its
inside is WorkflowEngine's business. A PATCH is two steps, as in the controller:
`ReadRule` reads the row and computes the next due time from the schedule the body
gives or the row holds, `WriteRule` writes that time and the fields the body gives
(`Merge`). Any number of them may overlap each other and the scans.

**AbSplit** is arithmetic: the largest-remainder allocation of a sample, the
variant of the p-th contact, the rate and the winner. **CampaignDispatch** is one
campaign. A worker (`work`) holds the copy of the campaign it read at the start,
the contacts it is filling or draining, the recipient it is at.

| Code | Actions |
|---|---|
| `dispatchCampaign`, `materializeIfEmpty` | `Begin`, `ReadAudience`, `CreateRecipient`, `Filled`, `Open` |
| `drainRecipients` | `ListPending`, `NextRecipient`, `Vet`, `Send`, `RecordSent`, `RecordFailed`, `Close`, `Sampled`, `FinishCampaign` |
| `runAbTestResolve`, `decideWinner` | `JudgeTest`, `Compare`, `Decide`, `ListHeldBack`, `AssignWinner`, `Decided` |
| the campaign endpoints | `Request`, `CountRecipients`, `WriteCampaign` |
| receipts, bounces, the unsubscribe link | `Receive`, `WriteReceipt`, `SuppressBounced`, `Unsubscribe` |
| time, process death | `DateComes`, `WindowPasses`, `Crash` |

A campaign begins as `create` leaves it (`Kind`: a test has a metric and
variants); an edit may change `abTestEnabled` and `abTestMetric` to anything, as
`update` does, and what cannot be decided is passed over or refused
(`Judgeable`). The sample's percentage stays as created. Contacts are numbers in
the order of their ids. The segment's filter is any set of `Segments`. An ad-hoc
dispatch job runs on the poll's queue and does what the poll would do, sooner;
it is not a separate actor.

**AuditLog** is a transaction that draws an id (`DrawId`), waits for its lane's
lock and reads the head (`Chain`), and becomes visible (`Commit`); beside it
`CreateCheckpoint` and `Verify`. A hash is represented by the row it was computed
from, a moment by the number of checkpoints before it.

**WebhookDelivery**: `BeginPoll`, `ReadBatch`, `CreateDelivery`,
`SwallowFailure`, `EndBatch`, `SaveCursor` are `scanNewAuditRows`; `Sweep`,
`Enqueue`, `EndPoll` are `sweepDueDeliveries` (any `SweepLimit` of the
`DueDeliveries`, since the query has no order); `LoadDelivery`, `RefuseInactive`,
`Post`, `AnswerTooLate`, `RecordAttempt` are `processDeliveryJob`. What BullMQ
does around it (`TakeJob`, `Settle`, `ConsumerDies`) is external: a job id is
unique while its job exists, a job that returned or failed for the last time is
removed, a stalled job is delivered once more. The consumer runs without a
tenant's schema, that is in `public`, where it does not find another tenant's
delivery; the model has a tenant of either kind.

**CaseDesk**. Business hours are a set of ticks of a day and a set of closed
days; `AddBusiness` and `BusinessBetween` are `addBusinessMinutes` and
`businessMinutesBetween`.

| Code | Actions |
|---|---|
| `applyCaseStatusTransition` from the status endpoint, the bulk endpoint, the automation handler or a merge | `ReadCase`, `WriteStatus` |
| `pause`, `resume`, `satisfyCaseResolutionClock`, `satisfyCaseFirstResponseClock` | `FindClock`, `WriteClock` |
| `comments.create`, `claimCase` | `Comment`, `ClaimCase` |
| `requestClosure`, `decideClosure` | `RequestClosure`, `CreateApproval`, `Announce`, `ReadPending`, `Decide`, `ReadForClosing`, `WriteStatus` |
| `runSlaBreachScan` | `BeginScan`, `Breach`, `Tell`, `ListBreached`, `TellTeam`, `MarkEscalated`, `EndScan` |
| `dispatchForScope` | `ListMail`, `ClaimMail`, `SendMail` |
| process deaths | `RequestDies`, `ScanDies`, `MailerDies` |

Simplified: no request spans a tick (ticks are minutes, requests milliseconds);
the calendar has the same hours every day but holidays; a scan that would find
nothing is skipped; the two pending states are one; reading and writing
`firstRespondedAt` is one step; the case begins NEW or OPEN with its clocks.

**LoyaltyLedger** has an action per await of the ledger's one transaction
(`LockAccount`, `SumPoints`, `InsertRow`) behind the controller's checks.
**OfflineOutbox** has `Act`, `FirstFetchThrows`, `FirstFetchAnswered` for
`apiFetch`; `BeginFlush`, `SkipParked`, `Replay`, `ReplayThrows`, `TakeAnswer`
for `flushOutbox`, in every open page; `Claim`, `Look`, `SettleKey`, `Expire` for
the interceptor; and `EnterLedger`, `LedgerStep`, `LedgerAnswers` for a handler
behind it. `Create` stands for a handler under `/api/crm`, whose route handler
relays the key; the loyalty routes' does not. `RefuseCreate` is its refusal on the
merits, after which the interceptor deletes the key.

Definitions whose comment begins with "Fault:" are variants of the definition
that follows them, each with one plausible bug. No specification uses them; the
mutants of `PROJECT.json` do, to show that each property can fail.

## 3. What the runs check

| Run | Question | Instance | Result |
|---|---|---|---|
| WorkflowSingleReplica | Are the tables sound under every interleaving of one process and two decisions at once? | one run through a single gate whose rejection jumps and a quorum of two; three users | holds, 282 thousand states |
| WorkflowFaults | Do safety and segregation of duties survive a fault, an edit, delegations, and what strands a waiting run? | a branching workflow whose gate may or may not resolve its approver; an officer who is the author, a delegate; one fault | holds, about a million states |
| WorkflowLiveness | Does every running run come to rest, and which runs are active at once? | two triggers, handled by the consumer of events or that of schedules, two run rows, a branch around a gate | holds, 300 thousand states |
| ScheduleRepeats | Do repeats and due times keep to the rule, and is what failed made up for? | two records, cap 1, cooldown 1, periods 1 and 2; two PATCHes that may overlap, or one and a fault | holds, 746 thousand states |
| CampaignStops | Do a pause and a cancellation hold, and does sending end? | a test that holds one of two back, a plain dynamic campaign, an SMS one; three requests of any kind | holds, 172 thousand states |
| CampaignReceipts | Who is mailed, how often, and what do late receipts do? | tests of two contacts; two receipts, handled one after the other or at once, an unsubscription, a fault | holds, 2.8 million states |
| AuditChain | Which rows fork, are anchored, are read? | four rows of three transactions in two lanes, two checkpoints, one fault | holds, 386 thousand states |
| WebhookFlow | When is an event lost or delivered twice? | two rows, batches of one, two attempts, a fault and a pause, outage or redelivery | holds, 630 thousand states |
| CaseSla | Are due dates exact, breaches told, complaints decided? | every second tick open, three ticks, three requests or crashes, two at a time; an enquiry with clocks, a complaint without | holds, 1.9 million states |
| OutboxReplays | Is a replay applied once and in order, the balance safe? | two writes, two pages, two requests at a time; two mishaps: lost connections, refusals, a failure | holds, 3.1 million states |
| ClaimDistinct, ClaimReplay | Does the code do what its comments say? | the smallest instance that shows it | violated, see section 6 |

The workflow engine:

* `EffectsJustified`, `ImplementsGated`: while nobody edits the rule, an action
  ran only if a path of decided gates leads to it.
* `NoSelfApproval`: no decision is stored in the name of the rule's author.
* `QuorumStored`: an approved chain has its quorum of stored votes.
* `RepeatsExplained`: a step ran twice only after a fault, or after a decision
  overwrote a decided row (two deciders at once on one gate).
* `FinishedIsFinal`: a finished run changes only after such an overwrite.
* `RunningIsOwned`: without a fault, a RUNNING run has a consumer or a job.
* `WaitingIsDecidable`: without a fault, a WAITING run has a pending row or a
  request about to move it. The one exception is the code's: a decision that was
  stored and then could not move the run, because an edit removed the step its goto
  leads to or a delegation ended (`stranded`). WorkflowFaults reaches both, and
  shows that nothing else strands a run; WorkflowSingleReplica has the two kinds of
  gate in turn.
* `OneActiveRunEach`: one consumer never has two active runs of a rule on a record,
  unless an overwrite revived an old one. A worker process has two consumers that
  start runs, so there may be two (section 6), but never more.
* `RunsSettle`: RUNNING leads to not RUNNING.

The scheduled scan:

* `RepeatsSpaced`: an execution on a record follows one that is to be logged before
  the rule's repeat allows at most once per fault, each of which can lose one log
  row. What is not logged by design, the start of a run, is set apart (section 6).
* `AllMatchesOrNone`: a scan acts on all its matches or on none.
* `NextRunFitsCadence`: the next due time lies within a period of the schedule
  on the rule, unless who wrote it last was overtaken: a scan, or a PATCH that
  leaves the schedule alone, that had read the rule before another PATCH replaced
  the schedule (section 6).
* `HandledAtLast`: a record that keeps matching is acted on once an outage is
  over for good.

Campaigns:

* `StopHolds`: after a pause or cancellation was acknowledged a worker sends at
  most the message it had got to. The exception is the code's: a worker's own
  write of SENDING (`dispatch.job.ts:282`) or SENT is unconditional and may
  replace the administrator's status.
* `EveryoneReached`: a campaign marked SENT has a row for everyone in its frozen
  audience and no row waits. It holds through edits, decisions and two workers.
* `SendingEnds`: SENDING leads to an end or a stop, except for a test that cannot be
  decided: it reached nobody, or an edit enabled it without a metric or variants
  (section 6).
* `OnceExplained`: nothing claims a recipient before the send, so a second mail
  is possible; but no worker mails a contact twice, however often it lists the
  pending ones, unless it crashed in between. A second mail is another worker's, the
  poll and the resolution having the same recipient on their lists.
* `LeaversNotMailed`: nobody is mailed who had left when the worker last looked,
  however long the campaign paused after its audience was taken.
* `FairSample`: the sample has the announced size, each variant its share to
  within one.
* `FunnelForward`: receipts late or repeated never take a recipient down the
  funnel DELIVERED, OPENED, CLICKED, unless the row changed between a receipt's
  reading and its writing, that is, while two are handled at once.

The audit log, where *overtaken* means that a row with a higher id of the same
lane was inserted first:

* `ForksExplained`: two rows of a lane have one predecessor only where one of
  them was overtaken.
* `PredecessorInOrder`: nothing is ever chained onto an overtaken row, nor onto
  one that was rolled back.
* `SpineIsWhole`: the rows in order form one chain that skips none of them, and
  every anchored head is on it. Overtaken rows are leaves beside it, which no
  later row and no checkpoint covers.
* `UnverifiedExplained`: without crashes, a row that no verification reads
  belongs to a transaction that was open while a checkpoint was made.

Webhooks:

* `EachEventOnce`: an event behind the cursor has one delivery. Two need a crash
  before the cursor was saved; none needs a `create` that failed, or a row that
  became visible after one with a higher id: the cursor passes over it for good.
* `TwiceExplained`: the target takes an event twice only after a crash, a late
  answer, a redelivery, or a sweep that listed a delivery which completed before
  it was queued; the last costs one more post at most (section 6).
* `DeliveriesEnd`: deliveries of the public schema are taken or given up.

Cases:

* `SlaExact`: through any number of holds and closed days the resolution clock
  falls due after exactly the target's open minutes not spent on hold, and is
  never breached earlier. The exception is a clock written from a row that was
  out of date by then (scan against request).
* `ClocksFollowCase`: without such a race, a crash, or a writer that leaves the
  clocks alone (automation, merge), a pending case has no running resolution
  clock and a resolved or answered one no open clock.
* `BreachTold`: every breach was told to the assignee there was, every
  escalation to everyone in the team; each is owed by its own dedupe key.
* `ClosureDecided`: a complaint is closed by the status endpoint or an approval
  at most as often as approvals were granted, and never by whoever asked.
* `MailedOnce`: one mail at most, whatever replicas; exactly one if none crashed.

Offline writes:

* `AppliedOnce`: unless the server failed, a write is applied once, from however
  many pages it is replayed, if its route relays the key, its first request was not
  lost before the key existed, and no replay ran on finding the key gone (section 6).
* `KeptInOrder`: what was queued stays queued until applied or given up, and
  nothing behind it is applied before that.
* `NoOverdraft`: no balance goes negative.

**Bounds.** Every race above is between a read of one actor and a write of
another, so two actors of a kind suffice: two decisions, two case requests, two
pages, two dispatchers, a poll and a resolution. Two rows are the fewest that
can be out of order, four in two lanes the fewest that fork and go on; batches
of one row make the cursor stop between any two. Targets of one open tick with
every second tick closed make every hold cross a closed tick. Constants named
`Max...` (and `MaxTime`, `MaxEvents`) appear in the guards they bound. One fault
is the interesting number in most models: a second adds no new pair of steps.
Symmetry is used only for identifiers the specification treats alike, and never
in a run with a liveness property. Row ids are used up and never freed, so the
number of ids bounds the number of rows. Three runs have a state constraint.
`FewMishaps` (OutboxReplays) allows two lost connections, refusals and failures
together, which is what a replay that runs unclaimed takes. `FewAndBrief`
(ScheduleRepeats) allows two PATCHes and faults together, and has a PATCH that
read the rule finish before time passes; scans take as long as they like.
`OneByOne` (WorkflowLiveness) gives new rows the free ids in order, and has no
request handled while the consumer of schedules is at work; decisions race each
other, the consumer of events and the resumption. In these two runs, which check
liveness, no constraint lets an actor be cut off for good: what a constraint
keeps waiting goes on when another has finished, as fairness says it will. All
these systems really stop when nothing is left to do or a bound is reached; only
ScheduleScan, where time goes on, is checked for deadlock.

**Fairness.** Weak fairness of each consumer's and each accepted request's next
step: BullMQ workers keep polling, the polls fire every minute (every five for
the scheduled scan), and an accepted request runs to its end. In ScheduleScan
and CampaignDispatch also of time. None is assumed of people, triggers, receipts,
faults, outages or delegations; `RunsSettle` ends with a run that waits for
people, `HandledAtLast` assumes in its premise that the outage ends, and
`DeliveriesEnd` that nobody pauses the subscription.

## 4. What is proved

TLAPS proves the following for every value of the constants that satisfies the
module's assumption (`ConstantsAssumption`, `AuditAssumption`,
`LedgerAssumption`, `OutboxAssumption`, `DistinctAssumption`, `ScanAssumption`,
`CampaignAssumption`, `WebhookAssumption`, `CaseAssumption`: types of the
constants, `None` distinct from what it stands beside, finite sets where something
is counted). Conditions beyond those are named in the row; the code does not
ensure them by itself, and the paragraphs below say what each one stands for.

| Theorem | Statement |
|---|---|
| `WorkflowProofs!TypeCorrect` | `Spec => []TypeOK` |
| `WorkflowProofs!Justified` | `Spec => []JustifiedInv` |
| `WorkflowProofs!EffectsNeedVerdicts` | `Spec => []EffectsJustified` |
| `WorkflowProofs!SegregationOfDuties` | `Spec => []NoSelfApproval` |
| `WorkflowProofs!QuorumIsStored` | `Spec => []QuorumStored` |
| `WorkflowProofs!EngineImplementsGated` | `Spec => ImplementsGated` |
| `RunProofs!RunningRunsAreOwned` | with `GotosExist`, `Spec => []RunningIsOwned` |
| `RunProofs!FinishedRunsStay` | with `OneResumer`, `Spec => FinishedIsFinal` |
| `RunProofs!OneRunPerStarter` | with `OneResumer`, `Spec => []OneActiveRunEach` |
| `RunProofs!StepsRunOnce` | with `NoEdits`, `ForwardOnly` and `OneResumer`, `Spec => []RepeatsExplained` |
| `RunProofs!WaitingRunsCanBeDecided` | with either of `GatesAlike`, `InStages`, `Spec => []WaitingIsDecidable` |
| `LoyaltyProofs!LedgerSafe` | `LedgerSpec => [](LedgerTypeOK /\ NoOverdraft)` |
| `LoyaltyProofs!OutboxKeepsLedger` | `Spec => LedgerSpec` |
| `LoyaltyProofs!NoOverdraftEver` | `Spec => []NoOverdraft` |
| `LoyaltyProofs!WritesAppliedOnce` | `Spec => []AppliedOnce` |
| `LoyaltyProofs!WritesKeptInOrder` | `Spec => []KeptInOrder` |
| `AuditProofs!ForksAreExplained` | `AuditSpec => []ForksExplained` |
| `AuditProofs!PredecessorsInOrder` | `AuditSpec => []PredecessorInOrder` |
| `AuditProofs!SpineStaysWhole` | `AuditSpec => []SpineIsWhole` |
| `AuditProofs!UnverifiedAreExplained` | `AuditSpec => []UnverifiedExplained` |
| `AuditProofs!WebhookTypeCorrect` | `Spec => []TypeOK`, of WebhookDelivery |
| `AuditProofs!EventsDeliveredOnce` | `Spec => []EachEventOnce` |
| `AuditProofs!SecondPostsExplained` | `Spec => []TwiceExplained` |
| `AuditProofs!LogUndisturbed` | `Spec => []` of the four properties of the log, `Spec` being WebhookDelivery's |
| `ScanProofs!ScanTypeCorrect` | `Spec => []TypeOK` |
| `ScanProofs!ActsOnAllOrNone` | `Spec => []AllMatchesOrNone` |
| `ScanProofs!CadenceKept` | `Spec => []NextRunFitsCadence` |
| `ScanProofs!RepeatsAreSpaced` | with one scanner, `Spec => []RepeatsSpaced` |
| `CampaignProofs!LeaversSpared` | `Spec => []LeaversNotMailed` |
| `CampaignProofs!StopsHold` | `Spec => []StopHolds` |
| `CampaignProofs!CampaignTypeCorrect` | `Spec => []TypeOK` |
| `CampaignProofs!ReceiptsGoForward` | `Spec => FunnelForward` |
| `CampaignProofs!MailsExplained` | `Spec => []OnceExplained` |
| `CampaignProofs!EveryoneIsReached` | with `OnePoller`, `Spec => []EveryoneReached` |
| `CampaignProofs!SampleIsFair` | with `OnePoller`, no edits and shares that are not all zero, `Spec => []FairSample` |
| `SplitProofs!AllocationIsFair` | with shares not all zero, the allotments are the quotas rounded up or down and add up to the sample |
| `SplitProofs!SharesFilled` | likewise, as many contacts fall to a variant as it was allotted |
| `SplitProofs!WinnerIsBest` | the winner is the first variant of the highest rate, none is really better by 1/10000, and it is nobody only if nothing was sent |
| `CaseProofs!MailGoesOutOnce` | `Spec => []MailedOnce` |
| `CaseProofs!BreachesTold` | `Spec => []BreachTold` |
| `CaseProofs!ClosuresDecided` | `Spec => []ClosureDecided` |
| `CaseProofs!ClocksFollow` | `Spec => []ClocksFollowCase` |
| `CaseProofs!SlaClockIsExact` | `Spec => []SlaExact` |
| `CaseProofs!DueTimeIsFirst` | `AddBusiness(from, n)` is the first moment by which `n` open minutes have passed |
| `CaseProofs!DueTimesAddUp` | `AddBusiness(AddBusiness(from, n), k) = AddBusiness(from, n + k)` |

*The workflow engine.* `EffectsJustified` is not inductive: it speaks of what has
happened, and the next effect depends on where a consumer stands. `JustifiedInv`
adds three parts. `LocalsOK` says what a program counter implies about the local
variables beside it (a request about to write is not the author's; a consumer at
a gate stands on a gate). `PositionsOK` says that every position anyone holds, in
a run row, in a consumer, in a request, is reachable under the verdicts on
record, and that a request about to move a run has its verdict on record.
`TypeOK` makes the rest meaningful. The step that matters is a move: the
successors of a reachable step are reachable, and verdicts only accumulate, so
that reachability is monotone (lemmas of StepGraph, at the head of
WorkflowProofs). The proof has a lemma per action. Redeliveries and stale
decisions are harmless for this property because whatever a stale actor holds was
justified when it was read, and stays so. The refinement uses the same invariant:
`RunAction` is `Perform`, `WriteVerdict` and `CloseChain` are `Decide`,
`EditRule` is `Edit`, all else stutters.

*Quorum.* The votes are counted in one query and the chain is closed in the next,
so `QuorumStored` needs `QuorumInv`: a request about to close a chain has seen a
full count. That the count still holds rests on votes never being taken back,
which is less evident than it sounds, because the decision on a single gate
writes any row its id names. `Settled` says what no step does to existing rows,
and `QuorumInv` why: a PENDING approval belongs to no chain, and a request about
to write a verdict has found its row PENDING.

*The life of a run.* RunProofs builds one invariant on another, all over the
frame that each consumer and each request changes only its own locals.

* `OwnedInv`, for `RunningIsOwned`: a RUNNING run is held by a consumer, by a
  resume job, or by a request about to enqueue one. A consumer drops a run without
  settling it only where a goto leads nowhere, so the theorem needs `GotosExist`.
  The rule editor does not ensure that; section 6 tells what happens otherwise.
* `FirstInv` and `RootInv`: a run that has just been created is known to nobody
  but the consumer walking it, and whoever refers to an approval or a chain refers
  to one that is there. With one consumer of the resume queue (`OneResumer`, one
  worker process) they give `SoloInv`: short of an overwritten decision, a run is
  walked only while RUNNING, and moved only while it waits at the gate that was
  decided, by one request. From that `FinishedIsFinal`.
* `StartInv` adds, for any number of consumers of both start queues, that one past
  its look for an active run has still none of its own (`CheckHolds`): others may
  create theirs meanwhile, but only the consumer itself creates one in its name, and
  a finished run becomes active again only by an overwritten decision.
* `ProgressInv`: everything executed lies before the place where the run stands,
  in its walker or, while it waits, in its row. It needs a rule that is not edited
  (`NoEdits`) and whose gotos lead forward (`ForwardOnly`).
* `WaitInv`: a row belongs to one run, and one just opened only to its opener; so
  the row a WAITING run refers to is pending, or a request that decided it is about
  to move the run. The endpoint consults the chain first, and a run keeps its chain
  when it goes on to a single gate. Where all gates are alike (`GatesAlike`) that
  never happens. Otherwise `StagedInv` is needed: the run refers to a chain only
  beyond the single gate. It holds where only the first gate is single
  (`InStages`), as in the run WorkflowSingleReplica. A single gate after a quorum
  strands the run (section 6). With two single gates before a quorum, a late
  decision on the first can move the run back behind it, with the chain in hand.
  Nothing is assumed about who may write or where gotos lead: a request that stored
  its decision moves the run, or records it as stranded, in one step.

*The scheduled scan.* `ScanInv` adds to types and cadence what a scanner under way
holds: past the cap check, its candidates are everything it matched (the lemmas
on `Oldest` say that the oldest n of a set are all of it unless there are more
than n), and what scanners and PATCHes under way will write (`Reckoning`): a period
computed from a schedule nobody has replaced since is the rule's. `RepeatsSpaced`
needs `SpacedInv`: the executions that were too early, and the records whose last
execution is neither logged nor about to be (`Unlogged`), are together no more than
the faults, for only a fault separates acting from logging; and a scan's remaining
targets are none of them handled by the log (`UnhandledTargets`). An execution too
early turns one unlogged record into one early execution. It is
proved, as it is checked, for one scanner (`OneScanner`):
two scans that overlap find a record in nobody's log and both act on it.

*Campaigns.* `CampaignInv` follows a message through the worker: between the look
at the suppression list and the sending, the contact is either on no list or is
on record as having left in between (`Vetted`); and after a stop that nothing
has undone, the campaign is not SENDING and a worker on its way to a message has
sent none since (`Halted`). One lemma covers every step that turns a worker to
something other than a message, however blind its status write.

Types need more than their own induction: a handler writes to a row it listed or
found earlier, which `TypedInv` justifies by rows never going away. That the winner
of a test is one of its variants is part of `WinnerIsBest`.
`FunnelForward` is a property of `WriteReceipt` alone, given that a receipt
outranks the status it saw. `OnceExplained` is counted per worker and contact
(`Once`): while a row is PENDING, only a worker that has yet to record its message
has mailed the contact; once it is not, a worker that still has the contact on its
list has not mailed it, and no row becomes PENDING again. A crash starts the worker's
count anew. `EveryoneReached` rests on
`ReachInv`: as long as the audience is being filled no row has left PENDING, while
whatever comes later (a resolver past its comparison, a receipt) shows that one
has. So nobody drains, closes or decides beside the filling, if one poller does it
(`OnePoller`, the queue's one consumer). Two pollers that read the segment at
different moments may disagree about the audience, and the slower one then adds
rows to a campaign already SENT.

`SampleIsFair` adds `ShareInv` to the last two invariants: until a winner is known
and while nothing fails, every row carries the variant its contact's place in the
frozen audience gives it, and nobody has touched the test (`TestKept`). Two pollers
could freeze different audiences. An edit may rewrite the shares between the
filling and the look, so the theorem asks that `Ops` has no `edit`. Shares
that are all zero would divide by zero; `campaigns.controller.ts:74-75` refuses them.
What remains is arithmetic, in SplitProofs.

*The split.* The sums of `AbSplit` are folds over a set. `IsSum(g, f, D)` says of a
function `g` on the subsets of `D` that it adds `f` up, whichever element is taken
first; there is one such function (`SumExists`, `SumUnique`) and the fold is its
value (`TotalIsSum`). The induction they need is over finite sets. The library's
takes a predicate as its parameter, which no prover here can instantiate;
`SubsetInduction` takes the *set* of subsets that satisfy it, so that an instance
is an ordinary set. From sums: what the floors leave over is at most the
number of quotas that were cut (`LeftOver`), and an order without ties has exactly `r`
elements of rank less than `r` (`FirstOnes`), so that the extra contacts add up. The
ends of the variants' stretches increase (`SharesEnd`), and a contact's position
lies in exactly one.

*Cases.* Five invariants over different columns. `MailInv`: one dispatcher at
most is between claim and sending. `TellInv`: a breach on record was told, or the
scan is at telling it, and a dedupe key that is taken was taken by the same
target (`KeysDiffer`). `ClosureInv`: closings, plus requests on their way to
close, are at most the approvals granted; a decision adds one to either side.
`FollowInv`: without a race one request at most is keeping the clocks, and what it
is at tells which of them may still contradict the case's status. `ExactInv`: the
due time has as many open ticks before it as the target has, plus those on hold.
Open ticks add up over adjoining stretches (`OpenIn`), so that a hold moves the due
time by exactly what it lasted; and `AddBusiness` always finds its moment, because
every day but finitely many holidays has an open tick. The moment found is the first
(`DueTimeIsFirst`), and so several holds move a due time as one of their sum
(`DueTimesAddUp`).

*The ledger.* `NoOverdraft` is not inductive, since an insertion trusts a sum
read earlier. `LockOK` says that two handlers never hold one account, `SumOK`
that the sum a holder carries is still the account's: only a holder inserts. The
composition is proved from `OutboxTypes`, which says that whatever is on its way
through the interceptor is an item of the plan; then each step of phone, route
handler and interceptor is a step of `LedgerNext` or leaves its variables alone.
`NoOverdraftEver` follows from the two, as a property of the parts carried over
to the whole.

*The outbox.* `AppliedOnce` rests on `OnceInv`, which holds while the server has
not failed. The key of an item belongs to one request at a time, from the claim
until that request, answered, has recorded or deleted it (`Owns`); whoever is to
delete it has had no effect (`Undone`); and while the key is absent nothing was
applied and nobody owns it (`ItemOK`). Items whose first request was lost without a
key, or a replay of which ran unclaimed, are left out (`Loose`).
That a page holds only what is queued (`InPage`) is what makes a request with a
key a replay, and the only request without one the first. `KeptInOrder` rests on
`OrderInv`, which holds whatever fails: a page that is to send an entry has
everything queued before it either done with or before it in the same flush
(`InTurn`; that a flush misses nothing is a counting argument, `SnapshotOrder`),
and a request answered below 300 has taken effect (`Answered`), through whichever
of the handler, the recorded key or the ledger the answer came. It takes from the
code that a page has one request at a time and that a 409 ends the flush: with
`TakeAnswerOn`, which goes on after it, the step of `InTurn` fails.

*The audit log.* The three properties of the chain rest on one invariant:
`LockHeld` (one transaction per lane between hashing and commit), `OnHead` (the
row it hashed onto is still the head of the lane, because nobody else may insert)
and `HeadInOrder` (the highest id of a lane is always a row in order). The
numbering of checkpoints (`Clock`) gives the fourth.

*Webhooks.* `HookInv` stands on the log's invariant, which every step of
WebhookDelivery keeps: it is one of AuditLog's, or changes nothing of the log but
the count of faults the two share. `LogUndisturbed` draws the conclusion.
`Covered` says that a row at or before the poll's position has its delivery or was
overtaken. The position goes forward over the rows that are visible, and one that
becomes visible below it later is overtaken by the one at it (`PlacesOK` counts the
order in which rows appeared). Each delivery made twice is charged to a fault
(`Counted`). For the second property `Calm` says that, as long as nothing has
failed and nobody intervened, a job that has not posted yet has one post to spend,
and that a sweep which had listed the delivery before it completed adds one job at
most (`Spare`). A consumer's step concerns its own delivery alone, because a job
has one consumer (`Holding`).

Every invariant and action property the passing runs check is stated by a theorem.
Only model-checked are the liveness properties `RunsSettle`, `HandledAtLast`,
`SendingEnds` and `DeliveriesEnd`, since fairness is out of the prover's reach.

## 5. What is not modelled

* Most of the repository is pages, forms, DTOs and endpoints that read or write
  one row; there is no protocol in them to state a property about.
* Workflow runs of several rules, records or tenants at once: they share no row.
* Workflows whose conditions jump backwards. The engine walks them in one job
  and loops for ever if the field never changes.
* What an edit does to a run in flight, beyond `JustifiedInv` and
  `WaitingIsDecidable`: nothing in the repository says what it should do.
* Gates that cannot be decided by anyone: a quorum larger than the allow-list, or
  a resolved manager who is the author. Nothing validates against these.
* In ScheduleScan: several rules per scan, rules without a valid record type, and
  a cron that does not parse (the rule editor refuses it; the comment at
  `schedule-scan.job.ts:302-304` expects a null due time to take a rule out of
  the due query, while the query at 100-102 takes null for due at once).
* Campaigns: the template's text, the filter language, creation and deletion, an
  edit of the sample's percentage.
* Webhooks: the mapping of audit rows to event types, signatures, the delay
  between attempts, creation and deletion of subscriptions.
* Cases: actions a policy runs on breach or escalation, claims and their stage
  clocks, `resolveSlaPolicy`'s choice among policies, daylight saving, and hours
  that differ between weekdays.
* The tier of a loyalty account; alerts after a hash mismatch, since nothing in
  the model alters a row.
* The components marked not_modelled in `PROJECT.json`.

## 6. Where the code and its comments part

These two have a run that TLC ends with a counterexample.

* `ClaimDistinct`: one approver's double click counts as two votes.
* `ClaimReplay`: `apiFetch` sends its first request without a key and makes one
  only when that request failed. If the API had committed it, the replay creates
  the record again, which is the case `outbox.ts:26-31` says the key prevents.

Met on the way and not given a run. Where a property of section 3 sets a case apart,
it is named: TLC finds the case when the exception is dropped.

In the workflow engine:

* a goto to a removed step leaves the run RUNNING for ever and blocks the rule for
  that record (`run-engine.ts:125`; the comment at 118-121 promises FAILED);
* a quorum gate followed by a single gate leaves both references set
  (`run-engine.ts:425`; `schema.prisma:2156-2161` calls them mutually exclusive),
  and the decision endpoint then consults the decided chain;
* an unrestricted gate keeps the allow-list of the gate before
  (`run-engine.ts:405`; `schema.prisma:2151-2152`);
* the consumers of events and of schedules, which live in one process, may both
  find no active run and both create one (`run-engine.ts:156-161`; the comment at
  142-147: "two events firing in close succession must not start two overlapping
  runs"; set apart by `starter` in `OneActiveRunEach`);
* a rejection of a quorum may be overwritten by the approval that raced it; a
  crash between `create` and `advanceRun` leaves a run RUNNING that its own
  redelivery refuses to touch;
* a decision is stored and the run not moved, where an edit removed the step the
  decision's goto leads to (`automation-run-decision.ts:103`) or a delegation ended
  between the two writes (`002_policies.sql:1087`): the endpoint refuses every
  further decision (`stranded` in `WaitingIsDecidable`).

In the scheduled scan and the rule editor:

* a once-per-record rule with steps starts a run on the same record as soon as the
  last one has ended, since `startRun` is followed by no `logExecution`
  (`schedule-scan.job.ts:191-199`; the comment at 226: "act once, ever"; `byRun` in
  `RepeatsSpaced`);
* a schedule changed during a scan keeps the due time of the old one, which the
  scan's end writes (`schedule-scan.job.ts:294`), and of two PATCHes that overlap
  the one that leaves the schedule alone may store the due time of the schedule it
  read beside the schedule of the other, with no scan involved
  (`automation-rules.controller.ts:147-181`; the comment at 179-180: "so a cadence
  change takes effect now"; `stale` in `NextRunFitsCadence`).

Elsewhere:

* `create-checkpoint.job.ts:62-65` says that `prev_hash` "always correctly
  reflects its true predecessor"; an overtaken row and a later one may share one
  (`001_audit_chain_function.sql:28-32`), as `ForksExplained` delimits.
* A webhook cursor passes over rows that become visible late, for good; and
  deliveries of tenants other than `public` are never found by the consumer.
* The sweep reads its list and enqueues from it one by one
  (`webhooks/dispatch.job.ts:158`, 171), while the processor writes `attemptCount`
  only when the post is over (236-238, 262-264). A delivery completed in between has
  left the queue, its job id is free again, and it is posted a second time; the
  comment at 19-22 says that `attemptCount` is bumped "immediately" and the sweep
  therefore cannot enqueue twice (`stale` in `TwiceExplained`).
* A replay that finds its key taken and then gone runs without a claim
  (`idempotency.interceptor.ts:126`): an expiry does that, but so does a request
  refused in between, which deletes the key (101). Another may claim it then, and
  both take effect, contrary to 20-23 and 109 (`unclaimed` in `AppliedOnce`).
* `update` of a campaign stores `abTestEnabled` without the checks `create` makes
  (`campaigns.controller.ts:137`, against 73-76: "abTestMetric is required when
  abTestEnabled"): the sample goes out, the resolution passes the test over
  (`ab-test-resolve.job.ts:52`), nobody can decide it (307-308), and the campaign
  stays SENDING (`Undecidable` in `SendingEnds`).
* A 409 of a handler (an enrolment that exists) is taken for a request in flight:
  the flush stops at that item for ever, contrary to `outbox.ts:40`. A parked item
  is passed over and later ones sent, contrary to `outbox.ts:136-139`. Routes
  outside `forwardBody` drop the key. A crash between the claim and the record
  leaves the key claimed for a day, with 409 for every replay.
* The bulk endpoint, automations and merges close complaints without the approval
  `cases.controller.ts:449` asks for; a case closed while pending keeps a paused
  clock; a second closure request after a rejection notifies nobody, its dedupe
  key being the first one's; the breach scan runs in `public` only.
* A campaign paused between a worker's read of SCHEDULED and its write of SENDING
  goes on sending.
* Two receipts for one recipient handled at once can take its row from OPENED back
  to DELIVERED: the status is compared when the row is read
  (`campaign-webhooks.controller.ts:65-76`) and written by id at 78, while the
  comment at line 12 says that an out-of-order retry must not regress it.

## 7. Plan

Done: the workflow engine with its abstract specification, refinement and proofs;
the scheduled scan, campaigns, cases with SLA clocks, closure and mail, each with
proofs; the audit log with proofs, and webhooks over it; the loyalty ledger with
proofs, and the offline outbox and idempotency in front of it.

Left, in this order:

1. **Teams buttons**: the one-time token as a front end of the engine's requests.
2. **Policy approvals and claims**: the read-then-write shape of case closure
   again, with stage clocks.
3. **Renewal alerts**: dedupe by threshold; **scheduled reports**: `next-run`
   against a reference definition; **tenant provisioning**: a saga with retries.

Proofs to come: `WaitingIsDecidable` for several single gates before a quorum, up
to an overlapping decision; `RepeatsExplained` for gotos that lead back.
