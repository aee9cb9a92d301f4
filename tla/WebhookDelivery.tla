--------------------------- MODULE WebhookDelivery --------------------------
(***************************************************************************)
(* Outbound webhooks (webhooks/dispatch.job.ts) of one tenant: a poll that *)
(* reads the audit log behind a cursor and creates deliveries, a sweep     *)
(* that queues them, and the consumers that post them, with BullMQ's       *)
(* retries; and the administrators' endpoints.                             *)
(*                                                                         *)
(* The log it reads is AuditLog, whose rows become visible in another      *)
(* order than that of their ids.  There is one subscription, and every row *)
(* is an event of a type it asks for.  The delay between attempts is left  *)
(* open.                                                                   *)
(***************************************************************************)
EXTENDS AuditLog, FiniteSetsExt

CONSTANTS
  DeliveryIds,  \* rows webhook_deliveries may hold, numbered
  Consumers,    \* consumers of webhook-dispatch
  Tenants,      \* the schemas to consider: "public" and others
  BatchSize,    \* AUDIT_LOG_BATCH_SIZE
  SweepLimit,   \* DUE_DELIVERY_SWEEP_LIMIT
  MaxAttempts,  \* MAX_ATTEMPTS
  MaxToggles    \* bound: pauses, outages and redeliveries, with the faults before

Delivery == [row : Ids, status : {"PENDING", "SUCCEEDED", "FAILED", "EXHAUSTED"},
             attempts : 0 .. MaxAttempts]
Job == [state : {"waiting", "active"}, made : 0 .. MaxAttempts - 1, stalls : 0 .. 1]

ASSUME WebhookAssumption ==
  /\ DeliveryIds \subseteq Nat /\ IsFiniteSet(DeliveryIds)
  /\ Tenants \subseteq {"public", "tenant"}
  /\ BatchSize \in Nat \ {0} /\ SweepLimit \in Nat \ {0}
  /\ MaxAttempts \in Nat \ {0} /\ MaxToggles \in Nat
  /\ None \notin Delivery /\ None \notin Job

VARIABLES
  schema,      \* the tenant's schema
  active,      \* the subscription's isActive
  up,          \* whether the target answers
  cursor,      \* webhooks.audit_log_cursor
  poll,        \* what the poll is doing
  delivery,    \* webhook_deliveries
  job,         \* the BullMQ job of each delivery
  consumer,    \* what each consumer is doing
  toggles,
  accepted,    \* history: posts the target took, per delivery
  stale        \* history: deliveries queued again from a list out of date

hookVars == <<schema, active, up, cursor, poll, delivery, job, consumer, toggles, accepted, stale>>
vars == <<auditVars, hookVars>>
world == <<schema, active, up, toggles>>

IdlePoll == [pc |-> "idle", at |-> 0, todo |-> {}, full |-> FALSE, due |-> {}]
IdleConsumer == [pc |-> "idle", at |-> None, ok |-> FALSE]

Init ==
  /\ AuditInit
  /\ schema \in Tenants /\ active = TRUE /\ up \in BOOLEAN
  /\ cursor = 0
  /\ poll = IdlePoll
  /\ delivery = [d \in DeliveryIds |-> None]
  /\ job = [d \in DeliveryIds |-> None]
  /\ consumer = [c \in Consumers |-> IdleConsumer]
  /\ toggles = 0
  /\ accepted = [d \in DeliveryIds |-> 0]
  /\ stale = {}

-----------------------------------------------------------------------------
(* scanNewAuditRows.                                                       *)

(* Without an active subscription the cursor stays where it is.            *)
BeginPoll ==
  /\ poll.pc = "idle"
  /\ poll' = IF active THEN [IdlePoll EXCEPT !.pc = "batch", !.at = cursor]
             ELSE [IdlePoll EXCEPT !.pc = "sweep"]
  /\ UNCHANGED <<auditVars, world, cursor, delivery, job, consumer, accepted, stale>>

(* Fault: the row at the cursor is read again.                             *)
AtOrAbove(id) == {i \in Rows : i >= id}
Above(id) == {i \in Rows : i > id}
Batch == {i \in Above(poll.at) : Cardinality({o \in Above(poll.at) : o <= i}) <= BatchSize}

ReadBatch ==
  /\ poll.pc = "batch"
  /\ poll' = IF Batch = {} THEN [poll EXCEPT !.pc = "save"]
             ELSE [poll EXCEPT !.pc = "create", !.todo = Batch,
                                 !.full = (Cardinality(Batch) = BatchSize)]
  /\ UNCHANGED <<auditVars, world, cursor, delivery, job, consumer, accepted, stale>>

Free == {d \in DeliveryIds : delivery[d] = None}

(* The next row of the batch; its place in the batch is the cursor in hand. *)
CreateDelivery ==
  LET i == Min(poll.todo) IN
  /\ poll.pc = "create" /\ poll.todo # {} /\ Free # {}
  /\ delivery' = [delivery EXCEPT ![Min(Free)] = [row |-> i, status |-> "PENDING", attempts |-> 0]]
  /\ poll' = [poll EXCEPT !.todo = @ \ {i}, !.at = i]
  /\ UNCHANGED <<auditVars, world, cursor, job, consumer, accepted, stale>>

(* create fails; the error is logged and the row passed over.              *)
SwallowFailure ==
  LET i == Min(poll.todo) IN
  /\ poll.pc = "create" /\ poll.todo # {} /\ faults < MaxFaults
  /\ faults' = faults + 1
  /\ poll' = [poll EXCEPT !.todo = @ \ {i}, !.at = i]
  /\ UNCHANGED <<lastId, tx, log, heads, checker, verified, world, cursor, delivery, job,
                 consumer, accepted, stale>>

(* A full batch is followed by another.                                    *)
EndBatch ==
  /\ poll.pc = "create" /\ poll.todo = {}
  /\ poll' = [poll EXCEPT !.pc = IF poll.full THEN "batch" ELSE "save"]
  /\ UNCHANGED <<auditVars, world, cursor, delivery, job, consumer, accepted, stale>>

SaveCursor ==
  /\ poll.pc = "save"
  /\ cursor' = poll.at
  /\ poll' = [IdlePoll EXCEPT !.pc = "sweep"]
  /\ UNCHANGED <<auditVars, world, delivery, job, consumer, accepted, stale>>

-----------------------------------------------------------------------------
(* sweepDueDeliveries.                                                     *)

DueDeliveries ==
  {d \in DeliveryIds : delivery[d] # None /\ delivery[d].status = "PENDING" /\ delivery[d].attempts = 0}

(* The list is in no order: beyond the limit, any of the due are on it.    *)
Sweep ==
  /\ poll.pc = "sweep"
  /\ \E due \in kSubset(Min({SweepLimit, Cardinality(DueDeliveries)}), DueDeliveries) :
       poll' = [poll EXCEPT !.pc = "queue", !.due = due]
  /\ UNCHANGED <<auditVars, world, cursor, delivery, job, consumer, accepted, stale>>

NewJob == [state |-> "waiting", made |-> 0, stalls |-> 0]

(* Queue.add with the delivery's jobId does nothing while its job exists.  *)
Enqueue ==
  LET d == Min(poll.due) IN
  /\ poll.pc = "queue" /\ poll.due # {}
  /\ job' = [job EXCEPT ![d] = IF @ = None THEN NewJob ELSE @]
  /\ stale' = IF job[d] = None /\ delivery[d].status # "PENDING" THEN stale \cup {d} ELSE stale
  /\ poll' = [poll EXCEPT !.due = @ \ {d}]
  /\ UNCHANGED <<auditVars, world, cursor, delivery, consumer, accepted>>

EndPoll ==
  /\ poll.pc = "queue" /\ poll.due = {}
  /\ poll' = IdlePoll
  /\ UNCHANGED <<auditVars, world, cursor, delivery, job, consumer, accepted, stale>>

-----------------------------------------------------------------------------
(* processDeliveryJob.  It runs without a tenant schema, that is in        *)
(* "public", and does not find another tenant's delivery.                  *)

Turn(c, pc, ok) == consumer' = [consumer EXCEPT ![c].pc = pc, ![c].ok = ok]

TakeJob(c) ==
  /\ consumer[c].pc = "idle"
  /\ \E d \in DeliveryIds :
       /\ job[d] # None /\ job[d].state = "waiting"
       /\ job' = [job EXCEPT ![d].state = "active"]
       /\ consumer' = [consumer EXCEPT ![c] = [pc |-> "load", at |-> d, ok |-> FALSE]]
  /\ UNCHANGED <<auditVars, world, cursor, poll, delivery, accepted, stale>>

LoadDelivery(c) ==
  /\ consumer[c].pc = "load"
  /\ IF schema # "public" THEN Turn(c, "settle", TRUE)
     ELSE IF active THEN Turn(c, "post", FALSE)
     ELSE Turn(c, "refuse", TRUE)
  /\ UNCHANGED <<auditVars, world, cursor, poll, delivery, job, accepted, stale>>

RefuseInactive(c) ==
  /\ consumer[c].pc = "refuse"
  /\ delivery' = [delivery EXCEPT ![consumer[c].at].status = "FAILED"]
  /\ Turn(c, "settle", TRUE)
  /\ UNCHANGED <<auditVars, world, cursor, poll, job, accepted, stale>>

Post(c) ==
  LET d == consumer[c].at IN
  /\ consumer[c].pc = "post"
  /\ accepted' = [accepted EXCEPT ![d] = IF up THEN @ + 1 ELSE @]
  /\ Turn(c, "record", up)
  /\ UNCHANGED <<auditVars, world, cursor, poll, delivery, job, stale>>

(* The target takes the event, its answer comes after the timeout.         *)
AnswerTooLate(c) ==
  LET d == consumer[c].at IN
  /\ consumer[c].pc = "post" /\ up /\ faults < MaxFaults
  /\ faults' = faults + 1
  /\ accepted' = [accepted EXCEPT ![d] = @ + 1]
  /\ Turn(c, "record", FALSE)
  /\ UNCHANGED <<lastId, tx, log, heads, checker, verified, world, cursor, poll, delivery, job, stale>>

(* Fault: the final attempt is one later.                                  *)
RecordAttemptLate(c) ==
  LET d == consumer[c].at  made == job[d].made + 1 IN
  /\ consumer[c].pc = "record"
  /\ delivery' = [delivery EXCEPT ![d].attempts = made, ![d].status =
       IF consumer[c].ok THEN "SUCCEEDED" ELSE IF made > MaxAttempts THEN "EXHAUSTED" ELSE "FAILED"]
  /\ Turn(c, "settle", consumer[c].ok)
  /\ UNCHANGED <<auditVars, world, cursor, poll, job, accepted, stale>>

(* Fault: the job throws whether the attempt succeeded or not.             *)
RecordAndThrow(c) ==
  LET d == consumer[c].at  made == job[d].made + 1 IN
  /\ consumer[c].pc = "record"
  /\ delivery' = [delivery EXCEPT ![d].attempts = made, ![d].status =
       IF consumer[c].ok THEN "SUCCEEDED" ELSE IF made >= MaxAttempts THEN "EXHAUSTED" ELSE "FAILED"]
  /\ Turn(c, "settle", FALSE)
  /\ UNCHANGED <<auditVars, world, cursor, poll, job, accepted, stale>>

(* recordAttemptOutcome; on failure the job throws.                        *)
RecordAttempt(c) ==
  LET d == consumer[c].at  made == job[d].made + 1 IN
  /\ consumer[c].pc = "record"
  /\ delivery' = [delivery EXCEPT ![d].attempts = made, ![d].status =
       IF consumer[c].ok THEN "SUCCEEDED" ELSE IF made >= MaxAttempts THEN "EXHAUSTED" ELSE "FAILED"]
  /\ Turn(c, "settle", consumer[c].ok)
  /\ UNCHANGED <<auditVars, world, cursor, poll, job, accepted, stale>>

(* BullMQ: a job that returned, or failed for the last time, is removed.   *)
Settle(c) ==
  LET d == consumer[c].at IN
  /\ consumer[c].pc = "settle"
  /\ job' = [job EXCEPT ![d] =
       IF consumer[c].ok \/ @.made + 1 >= MaxAttempts THEN None
       ELSE [@ EXCEPT !.state = "waiting", !.made = job[d].made + 1]]
  /\ consumer' = [consumer EXCEPT ![c] = IdleConsumer]
  /\ UNCHANGED <<auditVars, world, cursor, poll, delivery, accepted, stale>>

-----------------------------------------------------------------------------
(* The process dies: the job is delivered once more as stalled, and failed *)
(* the second time; the poll begins afresh with the cursor that was saved. *)
ConsumerDies(c) ==
  LET d == consumer[c].at IN
  /\ consumer[c].pc # "idle" /\ faults < MaxFaults
  /\ faults' = faults + 1
  /\ job' = [job EXCEPT ![d] = IF @.stalls > 0 THEN None
                               ELSE [@ EXCEPT !.state = "waiting", !.stalls = 1]]
  /\ consumer' = [consumer EXCEPT ![c] = IdleConsumer]
  /\ UNCHANGED <<lastId, tx, log, heads, checker, verified, world, cursor, poll, delivery,
                 accepted, stale>>

PollDies ==
  /\ poll.pc # "idle" /\ faults < MaxFaults
  /\ faults' = faults + 1
  /\ poll' = IdlePoll
  /\ UNCHANGED <<lastId, tx, log, heads, checker, verified, world, cursor, delivery, job,
                 consumer, accepted, stale>>

(* PATCH of the subscription, an outage of the target, and redelivery.     *)
Toggle ==
  /\ toggles + faults < MaxToggles /\ toggles' = toggles + 1
  /\ \/ active' = ~ active /\ UNCHANGED up
     \/ up' = ~ up /\ UNCHANGED active
  /\ UNCHANGED <<auditVars, schema, cursor, poll, delivery, job, consumer, accepted, stale>>

Redeliver(d) ==
  /\ toggles + faults < MaxToggles /\ toggles' = toggles + 1
  /\ delivery[d] # None /\ delivery[d].status # "PENDING"
  /\ delivery' = [delivery EXCEPT ![d].status = "PENDING", ![d].attempts = 0]
  /\ UNCHANGED <<auditVars, schema, active, up, cursor, poll, job, consumer, accepted, stale>>

-----------------------------------------------------------------------------
PollStep ==
  \/ BeginPoll \/ ReadBatch \/ CreateDelivery \/ EndBatch \/ SaveCursor
  \/ Sweep \/ Enqueue \/ EndPoll
ConsumerStep(c) ==
  \/ TakeJob(c) \/ LoadDelivery(c) \/ RefuseInactive(c) \/ Post(c)
  \/ RecordAttempt(c) \/ Settle(c)

HookNext ==
  \/ PollStep \/ SwallowFailure \/ PollDies
  \/ \E c \in Consumers : ConsumerStep(c) \/ AnswerTooLate(c) \/ ConsumerDies(c)
  \/ Toggle \/ \E d \in DeliveryIds : Redeliver(d)

Next == (AuditNext /\ UNCHANGED hookVars) \/ HookNext
Spec == Init /\ [][Next]_vars

(* The poll fires every minute, consumers go on with what they took.       *)
Fairness == WF_vars(PollStep) /\ \A c \in Consumers : WF_vars(ConsumerStep(c))
FairSpec == Spec /\ Fairness

-----------------------------------------------------------------------------
(* Type correctness of the poll, the deliveries, their jobs and consumers. *)
TypeOK ==
  /\ AuditTypeOK
  /\ schema \in Tenants /\ active \in BOOLEAN /\ up \in BOOLEAN
  /\ cursor \in 0 .. MaxId
  /\ poll \in [pc : {"idle", "batch", "create", "save", "sweep", "queue"}, at : 0 .. MaxId,
               todo : SUBSET Ids, full : BOOLEAN, due : SUBSET DeliveryIds]
  /\ delivery \in [DeliveryIds -> Delivery \cup {None}]
  /\ job \in [DeliveryIds -> Job \cup {None}]
  /\ consumer \in [Consumers ->
       [pc : {"idle", "load", "refuse", "post", "record", "settle"},
        at : DeliveryIds \cup {None}, ok : BOOLEAN]]
  /\ toggles \in 0 .. MaxToggles
  /\ accepted \in [DeliveryIds -> Nat] /\ stale \subseteq DeliveryIds

Of(i) == {d \in DeliveryIds : delivery[d] # None /\ delivery[d].row = i}

(* Each event behind the cursor has its one delivery.  A second one needs  *)
(* a crash before the cursor was saved; none at all, a row that became     *)
(* visible after one with a higher id had, or a create that failed.        *)
EachEventOnce ==
  \A i \in Rows :
    /\ Cardinality(Of(i)) <= 1 + faults
    /\ faults = 0 /\ i <= cursor /\ Of(i) = {} =>
         \E j \in Rows : j > i /\ log[j].place < log[i].place

(* The target takes an event again only after a crash or a late answer, a  *)
(* redelivery, or a sweep whose list was older than the completion: that   *)
(* costs one more post, contrary to dispatch.job.ts:19-22, which calls the *)
(* sweep safe against double-enqueuing.                                    *)
TwiceExplained ==
  faults = 0 /\ toggles = 0 =>
    \A d \in DeliveryIds : accepted[d] <= 1 + (IF d \in stale THEN 1 ELSE 0)

(* The deliveries of the public schema come to an end, whatever the target *)
(* does: each is taken, or given up after the last attempt.                *)
With(statuses) == {d \in DeliveryIds : delivery[d] # None /\ delivery[d].status \in statuses}
DeliveriesEnd ==
  (schema = "public" /\ With({"PENDING", "FAILED"}) # {})
    ~> (With({"PENDING", "FAILED"}) = {} \/ faults > 0 \/ toggles > 0)
=============================================================================
