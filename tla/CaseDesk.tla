------------------------------ MODULE CaseDesk ------------------------------
(***************************************************************************)
(* A case, its two SLA clocks, the scan that breaches and escalates them,  *)
(* the approval that closes a complaint, and the mail that announces it.   *)
(*                                                                         *)
(* A request is several transactions: it reads the case, checks, writes    *)
(* the status by id, then finds the clocks concerned and writes each.  The *)
(* scan works the same way from a list of its own.  Time is counted in     *)
(* ticks, long against a request and short against a target; the calendar  *)
(* has the same hours every day but on holidays.                           *)
(***************************************************************************)
EXTENDS Naturals, FiniteSetsExt

CONSTANTS
  Users,         \* who may change the case and decide its closure
  Requests,      \* API requests under way at a time
  Mailers,       \* replicas of the mail dispatcher
  ApprovalIds,   \* rows the approvals table may hold, numbered
  Cases,         \* the cases to consider: their type, and whether an SlaPolicy matches
  Vias,          \* the ways of changing the status to consider
  Target,        \* targetMinutes of each metric
  EscalateAfter, \* escalateAfterMinutes
  Day, Hours,    \* ticks of a day, and those within opening hours
  Holidays,      \* days that are closed
  MaxTime,       \* bound: ticks
  MaxFaults,     \* bound: crashes
  MaxEvents,     \* bound: requests and crashes
  None           \* a null column

Metrics == {"FIRST_RESPONSE", "RESOLUTION"}
Statuses == {"NEW", "OPEN", "PENDING", "RESOLVED", "CLOSED", "REOPENED"}
Approval == [status : {"PENDING", "APPROVED", "REJECTED"}, requester : Users,
             by : Users \cup {None}]

ASSUME CaseAssumption ==
  /\ Cases \subseteq [kind : {"COMPLAINT", "ENQUIRY"}, policy : BOOLEAN]
  /\ Vias \subseteq {"status", "bulk", "automation", "merge"}
  /\ ApprovalIds \subseteq Nat /\ IsFiniteSet(ApprovalIds)
  /\ Target \in [Metrics -> Nat] /\ EscalateAfter \in Nat
  /\ Day \in Nat \ {0} /\ Hours \subseteq 0 .. Day - 1 /\ Hours # {} /\ Holidays \subseteq Nat
  /\ MaxTime \in Nat /\ MaxEvents \in Nat /\ MaxFaults \in Nat
  /\ IsFiniteSet(Requests) /\ IsFiniteSet(Holidays)
  /\ None \notin Nat \cup Users \cup Approval
  /\ None \notin {"breach", "escalation"} \X Metrics \X (Users \cup {None})

VARIABLES
  now,
  kase,        \* the case
  clock,       \* its sla_clocks, one per metric if a policy matches
  approval,    \* its CASE_CLOSURE approvals
  mail,        \* the officer's EMAIL notification
  request,     \* what each request is doing
  scan,        \* what the breach scan is doing
  mailer,      \* what each dispatcher is doing
  requests, faults,
  told,        \* history: notifications the scan created
  held,        \* history: open ticks the resolution clock was paused for
  sent,        \* history: mails sent
  closings,    \* history: closings of the case that were up to an approval
  overtaken,   \* history: a clock was written from a row out of date
  raced,       \* history: a status was written over another, or past the clocks
  onHold       \* history: the case was closed while pending

desk == <<kase, clock, approval, mail>>
history == <<told, held, sent, closings, overtaken, raced, onHold>>
vars == <<now, desk, request, scan, mailer, requests, faults, history>>

-----------------------------------------------------------------------------
(* business-hours.util.ts *)

OpenAt(t) == t % Day \in Hours /\ t \div Day \notin Holidays
BusinessBetween(from, to) == Cardinality({t \in from .. to - 1 : OpenAt(t)})

(* Fault: minutes are minutes.                                             *)
AddMinutes(from, minutes) == from + minutes

(* The first moment by which so many open minutes have passed.             *)
AddBusiness(from, minutes) ==
  Min({t \in from .. from + Day * (minutes + 1 + Cardinality(Holidays)) :
         BusinessBetween(from, t) = minutes})

-----------------------------------------------------------------------------
(* case-lifecycle.ts.  PENDING is PENDING_CUSTOMER or PENDING_CARRIER, none *)
(* of which leads to the other.                                            *)
Transitions ==
  [NEW |-> {"OPEN", "CLOSED"}, OPEN |-> {"PENDING", "RESOLVED", "CLOSED"},
   PENDING |-> {"OPEN", "RESOLVED", "CLOSED"}, RESOLVED |-> {"CLOSED", "REOPENED"},
   CLOSED |-> {"REOPENED"}, REOPENED |-> {"OPEN"}]

IdleRequest == [pc |-> "idle", user |-> None, via |-> None, from |-> None, to |-> None,
                at |-> 0, row |-> None, approval |-> None]
IdleScan == [pc |-> "idle", at |-> 0, todo |-> {}, metric |-> None]
NoClock == [status |-> "ABSENT", due |-> 0, pausedAt |-> None, breachedAt |-> None,
            escalated |-> FALSE]
NewClock(m) == [status |-> "RUNNING", due |-> AddBusiness(0, Target[m]), pausedAt |-> None,
                breachedAt |-> None, escalated |-> FALSE]

(* A case created or opened a moment ago, with the clocks                  *)
(* ensureCaseSlaClocks started.                                            *)
Init ==
  /\ now = 0
  /\ \E c \in Cases, a \in Users \cup {None}, s \in {"NEW", "OPEN"} :
       /\ kase = [kind |-> c.kind, status |-> s, assignee |-> a, responded |-> FALSE]
       /\ clock = [m \in Metrics |-> IF c.policy THEN NewClock(m) ELSE NoClock]
  /\ approval = [a \in ApprovalIds |-> None]
  /\ mail = "none"
  /\ request = [q \in Requests |-> IdleRequest]
  /\ scan = IdleScan
  /\ mailer = [d \in Mailers |-> "idle"]
  /\ requests = 0 /\ faults = 0
  /\ told = {} /\ held = 0 /\ sent = 0 /\ closings = 0
  /\ overtaken = FALSE /\ raced = FALSE /\ onHold = FALSE

(* No request spans a tick, and a settled clock does not mind it.          *)
Tick ==
  /\ now < MaxTime /\ (\E m \in Metrics : clock[m].status \in {"RUNNING", "PAUSED", "BREACHED"})
  /\ \A q \in Requests : request[q].pc = "idle"
  /\ now' = now + 1
  /\ held' = IF clock["RESOLUTION"].status = "PAUSED" /\ OpenAt(now) THEN held + 1 ELSE held
  /\ UNCHANGED <<desk, request, scan, mailer, requests, faults,
                 told, sent, closings, overtaken, raced, onHold>>

Go(q, pc) == request' = [request EXCEPT ![q].pc = pc]
Done(q) == request' = [request EXCEPT ![q] = IdleRequest]
Start(q) == request[q].pc = "idle" /\ requests + faults < MaxEvents /\ requests' = requests + 1

-----------------------------------------------------------------------------
(* applyCaseStatusTransition, up to its check.                             *)
Permitted(from, to) == from # to /\ to \in Transitions[from]

(* Fault: the endpoint closes whatever it is given.                        *)
AnyCloses(via, to) == TRUE

(* POST :id/status refuses to close a complaint; the bulk endpoint, the    *)
(* automation handler and the merge do not ask.                            *)
MayClose(via, to) == via = "status" /\ to = "CLOSED" => kase.kind # "COMPLAINT"

(* Reading the case; a merge closes whatever state it is in.               *)
ReadCase(q) ==
  /\ Start(q)
  /\ \E via \in Vias, to \in Statuses :
       /\ IF via = "merge" THEN to = "CLOSED" ELSE Permitted(kase.status, to)
       /\ MayClose(via, to)
       /\ request' = [request EXCEPT ![q] =
            [IdleRequest EXCEPT !.pc = "write", !.via = via, !.from = kase.status, !.to = to]]
  /\ UNCHANGED <<now, desk, scan, mailer, faults, history>>

(* What the clocks are due for: automation and merge leave them alone.     *)
Bookkeeping(via, from, to) ==
  CASE via \in {"automation", "merge"} -> "idle"
    [] from # "PENDING" /\ to = "PENDING" -> "pause"
    [] from = "PENDING" /\ to = "OPEN" -> "resume"
    [] to = "RESOLVED" -> "satisfy"
    [] OTHER -> "idle"

(* The status is written by id, whatever it has become.                    *)
WriteStatus(q) ==
  LET r == request[q]  next == Bookkeeping(r.via, r.from, r.to) IN
  /\ r.pc = "write"
  /\ kase' = [kase EXCEPT !.status = r.to]
  /\ request' = [request EXCEPT ![q] = IF next = "idle" THEN IdleRequest
                                       ELSE [r EXCEPT !.pc = next, !.at = now]]
  /\ raced' = (raced \/ kase.status # r.from \/ r.via \in {"automation", "merge"}
                 \/ \E o \in Requests : request[o].pc \in {"pause", "resume", "satisfy"})
  /\ onHold' = (onHold \/ (kase.status = "PENDING" /\ r.to = "CLOSED"))
  /\ closings' = IF r.to = "CLOSED" /\ r.via \in {"status", "approval"} THEN closings + 1 ELSE closings
  /\ UNCHANGED <<now, clock, approval, mail, scan, mailer, requests, faults,
                 told, held, sent, overtaken>>

(* comments.create: the first outbound comment.                            *)
Comment(q) ==
  /\ Start(q)
  /\ ~ kase.responded
  /\ request' = [request EXCEPT ![q] = [IdleRequest EXCEPT !.pc = "respond"]]
  /\ kase' = [kase EXCEPT !.responded = TRUE]
  /\ UNCHANGED <<now, clock, approval, mail, scan, mailer, faults, history>>

MetricOf(op) == IF op = "respond" THEN "FIRST_RESPONSE" ELSE "RESOLUTION"

(* Fault: a clock on hold is not satisfied.                                *)
WantedRunning(op) == IF op = "resume" THEN {"PAUSED"} ELSE {"RUNNING"}

(* The states in which pause-, resume- and satisfyCaseResolutionClock and  *)
(* satisfyCaseFirstResponseClock look for their clock.                     *)
Wanted(op) ==
  CASE op = "resume" -> {"PAUSED"} [] op = "satisfy" -> {"RUNNING", "PAUSED"}
    [] OTHER -> {"RUNNING"}

FindClock(q) ==
  LET r == request[q]  c == clock[MetricOf(r.pc)] IN
  /\ r.pc \in {"pause", "resume", "satisfy", "respond"} /\ r.row = None
  /\ IF c.status \in Wanted(r.pc) THEN request' = [request EXCEPT ![q].row = c] ELSE Done(q)
  /\ UNCHANGED <<now, desk, scan, mailer, requests, faults, history>>

(* What is written of the row found; the other columns stay as they are.   *)
Written(op, row, at, c) ==
  CASE op = "pause" -> [c EXCEPT !.status = "PAUSED", !.pausedAt = at]
    [] op = "resume" ->
         [c EXCEPT !.status = "RUNNING", !.pausedAt = None,
                   !.due = AddBusiness(row.due, BusinessBetween(row.pausedAt, at))]
    [] op = "satisfy" -> [c EXCEPT !.status = "SATISFIED", !.pausedAt = None]
    [] op = "respond" -> [c EXCEPT !.status = "SATISFIED"]

WriteClock(q) ==
  LET r == request[q]  m == MetricOf(r.pc) IN
  /\ r.pc \in {"pause", "resume", "satisfy", "respond"} /\ r.row # None
  /\ clock' = [clock EXCEPT ![m] = Written(r.pc, r.row, r.at, @)]
  /\ overtaken' = (overtaken \/ clock[m] # r.row)
  /\ Done(q)
  /\ UNCHANGED <<now, kase, approval, mail, scan, mailer, requests, faults,
                 told, held, sent, closings, raced, onHold>>

(* POST :id/claim, whose condition is part of the update.                  *)
ClaimCase(u) ==
  /\ kase.assignee = None /\ requests + faults < MaxEvents /\ requests' = requests + 1
  /\ kase' = [kase EXCEPT !.assignee = u]
  /\ UNCHANGED <<now, clock, approval, mail, request, scan, mailer, faults, history>>

-----------------------------------------------------------------------------
(* requestClosure and decideClosure, for a complaint.                      *)
Pending == {a \in ApprovalIds : approval[a] # None /\ approval[a].status = "PENDING"}
FreeApprovals == {a \in ApprovalIds : approval[a] = None}

RequestClosure(q) ==
  /\ Start(q)
  /\ kase.kind = "COMPLAINT" /\ "CLOSED" \in Transitions[kase.status]
  /\ Pending = {} /\ FreeApprovals # {}
  /\ \E u \in Users :
       request' = [request EXCEPT ![q] = [IdleRequest EXCEPT !.pc = "create", !.user = u]]
  /\ UNCHANGED <<now, desk, scan, mailer, faults, history>>

CreateApproval(q) ==
  /\ request[q].pc = "create"
  /\ \E a \in FreeApprovals :
       /\ \A b \in FreeApprovals : a <= b
       /\ approval' = [approval EXCEPT ![a] =
            [status |-> "PENDING", requester |-> request[q].user, by |-> None]]
  /\ Go(q, "announce")
  /\ UNCHANGED <<now, kase, clock, mail, scan, mailer, requests, faults, history>>

(* The notification's dedupeKey names the case and the officer.            *)
Announce(q) ==
  /\ request[q].pc = "announce"
  /\ mail' = IF mail = "none" THEN "PENDING" ELSE mail
  /\ Done(q)
  /\ UNCHANGED <<now, kase, clock, approval, scan, mailer, requests, faults, history>>

(* decideClosure: any officer but the one who asked.                       *)
ReadPending(q) ==
  /\ Start(q)
  /\ \E u \in Users, a \in Pending :
       /\ approval[a].requester # u
       /\ request' = [request EXCEPT ![q] =
            [IdleRequest EXCEPT !.pc = "decide", !.user = u, !.approval = a]]
  /\ UNCHANGED <<now, desk, scan, mailer, faults, history>>

(* The decision is written by id; an approval then goes on to the status.  *)
Decide(q) ==
  LET r == request[q] IN
  /\ r.pc = "decide"
  /\ \E s \in {"APPROVED", "REJECTED"} :
       /\ approval' = [approval EXCEPT ![r.approval].status = s, ![r.approval].by = r.user]
       /\ IF s = "APPROVED" THEN Go(q, "close") ELSE Done(q)
  /\ raced' = (raced \/ approval[r.approval].status # "PENDING")
  /\ UNCHANGED <<now, kase, clock, mail, scan, mailer, requests, faults,
                 told, held, sent, closings, overtaken, onHold>>

(* applyCaseStatusTransition reads the case again, and may refuse.         *)
ReadForClosing(q) ==
  /\ request[q].pc = "close"
  /\ IF Permitted(kase.status, "CLOSED")
       THEN request' = [request EXCEPT ![q].pc = "write", ![q].via = "approval",
                                       ![q].from = kase.status, ![q].to = "CLOSED"]
       ELSE Done(q)
  /\ UNCHANGED <<now, desk, scan, mailer, requests, faults, history>>

-----------------------------------------------------------------------------
(* runSlaBreachScan *)

Due == {m \in Metrics : clock[m].status = "RUNNING" /\ clock[m].due <= now}
Escalable(at) == {m \in Metrics : clock[m].status = "BREACHED" /\ ~ clock[m].escalated
                                     /\ clock[m].breachedAt + EscalateAfter <= at}

(* A scan that finds nothing to do changes nothing.                        *)
BeginScan ==
  /\ scan.pc = "idle" /\ Due \cup Escalable(now) # {}
  /\ scan' = [IdleScan EXCEPT !.pc = "breach", !.at = now, !.todo = Due]
  /\ UNCHANGED <<now, desk, request, mailer, requests, faults, history>>

(* Pass 1, clock by clock: the status, then the assignee's notification.   *)
Breach ==
  /\ scan.pc = "breach"
  /\ \E m \in scan.todo :
       /\ clock' = [clock EXCEPT ![m].status = "BREACHED", ![m].breachedAt = scan.at]
       /\ overtaken' = (overtaken \/ clock[m].status # "RUNNING" \/ clock[m].due > scan.at)
       /\ scan' = [scan EXCEPT !.pc = "tell", !.metric = m, !.todo = @ \ {m}]
  /\ UNCHANGED <<now, kase, approval, mail, request, mailer, requests, faults,
                 told, held, sent, closings, raced, onHold>>

(* Fault: the dedupeKey names the case alone.                              *)
KeyOfCase(kind, m, u) == <<kind, "RESOLUTION", u>>

(* dedupeKey: the kind of notification, the case and the target, and of an *)
(* escalation the recipient.                                               *)
DedupeKey(kind, m, u) == <<kind, m, u>>

(* Without an assignee a warning is logged.                                *)
Tell ==
  LET key == DedupeKey("breach", scan.metric, None) IN
  /\ scan.pc = "tell"
  /\ told' = IF kase.assignee = None
               THEN told \cup {[key |-> None, metric |-> scan.metric, to |-> None]}
             ELSE IF key \in {n.key : n \in told} THEN told
             ELSE told \cup {[key |-> key, metric |-> scan.metric, to |-> kase.assignee]}
  /\ scan' = [scan EXCEPT !.pc = "breach", !.metric = None]
  /\ UNCHANGED <<now, desk, request, mailer, requests, faults,
                 held, sent, closings, overtaken, raced, onHold>>

(* Pass 2: the clocks breached long enough ago and not yet escalated.      *)
ListBreached ==
  /\ scan.pc = "breach" /\ scan.todo = {}
  /\ scan' = [scan EXCEPT !.pc = "escalate", !.todo = Escalable(scan.at)]
  /\ UNCHANGED <<now, desk, request, mailer, requests, faults, history>>

(* The team is told, then the clock marked.                                *)
TellTeam ==
  /\ scan.pc = "escalate" /\ scan.metric = None
  /\ \E m \in scan.todo :
       /\ told' = told \cup {[key |-> DedupeKey("escalation", m, u), metric |-> m, to |-> u] :
                               u \in {v \in Users : DedupeKey("escalation", m, v) \notin {n.key : n \in told}}}
       /\ scan' = [scan EXCEPT !.metric = m, !.todo = @ \ {m}]
  /\ UNCHANGED <<now, desk, request, mailer, requests, faults,
                 held, sent, closings, overtaken, raced, onHold>>

MarkEscalated ==
  /\ scan.pc = "escalate" /\ scan.metric # None
  /\ clock' = [clock EXCEPT ![scan.metric].escalated = TRUE]
  /\ scan' = [scan EXCEPT !.metric = None]
  /\ UNCHANGED <<now, kase, approval, mail, request, mailer, requests, faults, history>>

EndScan ==
  /\ scan.pc = "escalate" /\ scan.todo = {} /\ scan.metric = None
  /\ scan' = IdleScan
  /\ UNCHANGED <<now, desk, request, mailer, requests, faults, history>>

ScanDies ==
  /\ scan.pc # "idle" /\ faults < MaxFaults /\ requests + faults < MaxEvents
  /\ faults' = faults + 1 /\ scan' = IdleScan
  /\ UNCHANGED <<now, desk, request, mailer, requests, history>>

-----------------------------------------------------------------------------
(* notification-email-dispatch.job.ts *)

ListMail(d) ==
  /\ mailer[d] = "idle" /\ mail = "PENDING"
  /\ mailer' = [mailer EXCEPT ![d] = "claim"]
  /\ UNCHANGED <<now, desk, request, scan, requests, faults, history>>

(* Fault: the row is marked without asking what it was.                    *)
ClaimAnyMail(d) ==
  /\ mailer[d] = "claim"
  /\ mail' = "SENT"
  /\ mailer' = [mailer EXCEPT ![d] = "send"]
  /\ UNCHANGED <<now, kase, clock, approval, request, scan, requests, faults, history>>

(* The row becomes SENT, if it is still PENDING, before it is sent.        *)
ClaimMail(d) ==
  /\ mailer[d] = "claim"
  /\ mail' = IF mail = "PENDING" THEN "SENT" ELSE mail
  /\ mailer' = [mailer EXCEPT ![d] = IF mail = "PENDING" THEN "send" ELSE "idle"]
  /\ UNCHANGED <<now, kase, clock, approval, request, scan, requests, faults, history>>

(* What the mail server refuses is marked FAILED, and never tried again.   *)
SendMail(d) ==
  /\ mailer[d] = "send"
  /\ mailer' = [mailer EXCEPT ![d] = "idle"]
  /\ \/ sent' = sent + 1 /\ UNCHANGED mail
     \/ mail' = "FAILED" /\ UNCHANGED sent
  /\ UNCHANGED <<now, kase, clock, approval, request, scan, requests, faults,
                 told, held, closings, overtaken, raced, onHold>>

MailerDies(d) ==
  /\ mailer[d] # "idle" /\ faults < MaxFaults /\ requests + faults < MaxEvents
  /\ faults' = faults + 1
  /\ mailer' = [mailer EXCEPT ![d] = "idle"]
  /\ UNCHANGED <<now, desk, request, scan, requests, history>>

-----------------------------------------------------------------------------
(* A request that dies leaves undone what it had yet to do.                *)
RequestDies(q) ==
  /\ request[q].pc # "idle" /\ faults < MaxFaults /\ requests + faults < MaxEvents
  /\ faults' = faults + 1 /\ Done(q)
  /\ UNCHANGED <<now, desk, scan, mailer, requests, history>>

RequestStep(q) ==
  \/ ReadCase(q) \/ WriteStatus(q) \/ Comment(q) \/ FindClock(q) \/ WriteClock(q)
  \/ RequestClosure(q) \/ CreateApproval(q) \/ Announce(q)
  \/ ReadPending(q) \/ Decide(q) \/ ReadForClosing(q) \/ RequestDies(q)
ScanStep ==
  \/ BeginScan \/ Breach \/ Tell \/ ListBreached \/ TellTeam \/ MarkEscalated \/ EndScan
  \/ ScanDies
MailStep(d) == ListMail(d) \/ ClaimMail(d) \/ SendMail(d) \/ MailerDies(d)

Next ==
  \/ Tick \/ ScanStep
  \/ \E q \in Requests : RequestStep(q)
  \/ \E u \in Users : ClaimCase(u)
  \/ \E d \in Mailers : MailStep(d)

Spec == Init /\ [][Next]_vars

-----------------------------------------------------------------------------
(* The resolution clock is exact: unless a stale row was written back, it  *)
(* falls due when the case has been worked on for the target's open        *)
(* minutes, those it was paused for not counted, through any number of     *)
(* holds and across closed days; and it is never breached before that.     *)
SlaExact ==
  LET c == clock["RESOLUTION"]  owed == Target["RESOLUTION"] + held IN
  ~ overtaken =>
    /\ c.status = "RUNNING" => BusinessBetween(0, c.due) = owed
    /\ c.status = "PAUSED" => BusinessBetween(0, c.due) + BusinessBetween(c.pausedAt, now) = owed
    /\ c.status = "BREACHED" => BusinessBetween(0, c.breachedAt) >= owed

(* The clocks follow the case: without a race, a crash or a writer that    *)
(* leaves them alone, a pending case has no running resolution clock, a    *)
(* resolved or answered one no open clock, and only a case that went from  *)
(* its hold straight to CLOSED keeps a paused one.                         *)
ClocksFollowCase ==
  ~ raced /\ faults = 0 /\ (\A q \in Requests : request[q].pc \in {"idle", "write"}) =>
    /\ kase.status = "PENDING" => clock["RESOLUTION"].status # "RUNNING"
    /\ kase.status = "RESOLVED" => clock["RESOLUTION"].status \notin {"RUNNING", "PAUSED"}
    /\ clock["RESOLUTION"].status = "PAUSED" => kase.status = "PENDING" \/ onHold
    /\ kase.responded => clock["FIRST_RESPONSE"].status # "RUNNING"

(* No breach goes unheard but by a crash: the assignee there was has been  *)
(* told of each, and of each escalation everyone in the team.              *)
BreachTold ==
  faults = 0 =>
    \A m \in Metrics :
      /\ clock[m].status = "BREACHED" /\ scan.pc \notin {"tell"} =>
           \E n \in told : n.metric = m /\ (n.to = None \/ n.key[1] = "breach")
      /\ clock[m].escalated =>
           \A u \in Users : \E n \in told : n.metric = m /\ n.to = u /\ n.key[1] = "escalation"

(* A complaint is closed by as many decisions as there are closings, none  *)
(* of them by whoever asked for it, as long as deciders do not race.       *)
ClosureDecided ==
  LET decided == {a \in ApprovalIds : approval[a] # None /\ approval[a].status = "APPROVED"} IN
  /\ kase.kind = "COMPLAINT" /\ ~ raced => closings <= Cardinality(decided)
  /\ \A a \in ApprovalIds : approval[a] # None /\ approval[a].by # None =>
       approval[a].by # approval[a].requester

(* The officer's mail is sent once at most, by however many dispatchers,   *)
(* and once exactly if it is SENT and none of them crashed.                *)
MailedOnce ==
  /\ sent <= 1
  /\ mail = "SENT" /\ faults = 0 /\ (\A d \in Mailers : mailer[d] # "send") => sent = 1
=============================================================================
