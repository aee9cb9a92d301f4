----------------------------- MODULE CaseProofs -----------------------------
(***************************************************************************)
(* Five promises of the case desk, for any number of users, requests,      *)
(* dispatchers and approvals, any calendar and any target: the mail goes   *)
(* out once at most, breaches are told, closing a complaint takes a        *)
(* decision each time, the clocks follow the case, and the resolution      *)
(* clock is exact.                                                         *)
(*                                                                         *)
(* Each has an invariant of its own.  The last two also use those of the   *)
(* second and third, for what clocks, scan and requests look like.         *)
(***************************************************************************)
EXTENDS CaseDesk, FiniteSetTheorems, WellFoundedInduction, TLAPS

-----------------------------------------------------------------------------
(* The mail: it is PENDING until one dispatcher takes it, and only that    *)
(* one is ever between the claim and the sending.                          *)

Sending(d) == mailer[d] = "send"

MailInv ==
  /\ mailer \in [Mailers -> {"idle", "claim", "send"}]
  /\ mail \in {"none", "PENDING", "SENT", "FAILED"}
  /\ sent \in {0, 1} /\ faults \in Nat
  /\ mail \in {"none", "PENDING"} => sent = 0 /\ \A d \in Mailers : ~ Sending(d)
  /\ \A d \in Mailers : Sending(d) => sent = 0
  /\ \A d, e \in Mailers : Sending(d) /\ Sending(e) => d = e
  /\ mail = "SENT" /\ faults = 0 /\ (\A d \in Mailers : ~ Sending(d)) => sent = 1

LEMMA InitMailInv == Init => MailInv
BY DEF Init, MailInv, Sending

LEMMA StepKeepsMailInv == MailInv /\ [Next]_vars => MailInv'
<1> SUFFICES ASSUME MailInv, [Next]_vars PROVE MailInv'
  OBVIOUS
<1> DEFINE Untouched == UNCHANGED <<mail, mailer, sent>> /\ faults' \in {faults, faults + 1}
<1>1. CASE Untouched
  BY <1>1 DEF MailInv, Sending
<1>2. CASE UNCHANGED vars \/ Tick \/ ScanStep \/ \E u \in Users : ClaimCase(u)
  <2>1. Untouched
    BY <1>2 DEF vars, desk, history, Tick, ClaimCase, ScanStep, BeginScan, Breach, Tell,
                ListBreached, TellTeam, MarkEscalated, EndScan, ScanDies
  <2> QED
    BY <1>1, <2>1
<1>3. ASSUME NEW q \in Requests, RequestStep(q) PROVE MailInv'
  <2>1. CASE Announce(q)
    BY <2>1 DEF Announce, MailInv, Sending, history
  <2>2. CASE ~ Announce(q)
    <3>1. Untouched
      BY <1>3, <2>2 DEF RequestStep, desk, history, ReadCase, WriteStatus, Comment, FindClock,
        WriteClock, RequestClosure, CreateApproval, ReadPending, Decide, ReadForClosing,
        RequestDies
    <3> QED
      BY <1>1, <3>1
  <2> QED
    BY <2>1, <2>2
<1>4. ASSUME NEW d \in Mailers, MailStep(d) PROVE MailInv'
  <2>1. CASE ListMail(d)
    BY <2>1 DEF ListMail, MailInv, Sending, desk, history
  <2>2. CASE ClaimMail(d)
    BY <2>2 DEF ClaimMail, MailInv, Sending, history
  <2>3. CASE SendMail(d)
    BY <2>3 DEF SendMail, MailInv, Sending
  <2>4. CASE MailerDies(d)
    BY <2>4 DEF MailerDies, MailInv, Sending, desk, history
  <2> QED
    BY <1>4, <2>1, <2>2, <2>3, <2>4 DEF MailStep
<1> QED
  BY <1>2, <1>3, <1>4 DEF Next

(* However many dispatchers list the same notification, one mail goes out  *)
(* at most, and one exactly if it says SENT and nothing crashed.           *)
THEOREM MailGoesOutOnce == Spec => []MailedOnce
<1>1. MailInv => MailedOnce
  BY DEF MailInv, MailedOnce, Sending
<1> QED
  BY <1>1, InitMailInv, StepKeepsMailInv, PTL DEF Spec

-----------------------------------------------------------------------------
(* Breaches: told before the scan goes on, escalations before the clock is *)
(* marked; and a dedupeKey already in use was used for this very target.   *)

Keyed(n) ==
  \/ n.to = None /\ n.key = None
  \/ n.key = <<"breach", n.metric, None>>
  \/ n.key = <<"escalation", n.metric, n.to>> /\ n.to \in Users

HeardOf(m) == \E n \in told : n.metric = m /\ (n.to = None \/ n.key[1] = "breach")
TeamTold(m) ==
  \A u \in Users : \E n \in told : n.metric = m /\ n.to = u /\ n.key[1] = "escalation"

TellInv ==
  /\ DOMAIN clock = Metrics
  /\ \A m \in Metrics : {"status", "escalated"} \subseteq DOMAIN clock[m]
  /\ DOMAIN scan = {"pc", "at", "todo", "metric"} /\ scan.todo \subseteq Metrics
  /\ scan.pc = "tell" => scan.metric \in Metrics
  /\ scan.pc = "breach" => scan.metric = None
  /\ faults \in Nat
  /\ \A n \in told : Keyed(n) /\ n.metric \in Metrics
  /\ \A m \in Metrics : faults = 0 /\ clock[m].status = "BREACHED"
       => HeardOf(m) \/ (scan.pc = "tell" /\ scan.metric = m)
  /\ scan.pc = "escalate" /\ scan.metric # None => TeamTold(scan.metric)
  /\ \A m \in Metrics : clock[m].escalated => TeamTold(m)

(* A key is never mistaken for a null one, or for one of another target.   *)
LEMMA KeysDiffer ==
  ASSUME NEW n, Keyed(n), NEW k \in {"breach", "escalation"}, NEW m \in Metrics,
         NEW u \in Users \cup {None}, n.key = <<k, m, u>>
  PROVE  n.metric = m /\ (k = "escalation" => n.to = u)
<1>1. None # <<k, m, u>>
  BY CaseAssumption
<1>2. CASE n.key = <<"breach", n.metric, None>>
  BY <1>2
<1>3. CASE n.key = <<"escalation", n.metric, n.to>>
  BY <1>3
<1> QED
  BY <1>1, <1>2, <1>3 DEF Keyed

LEMMA InitTellInv == Init => TellInv
<1> SUFFICES ASSUME Init PROVE TellInv
  OBVIOUS
<1>1. \A m \in Metrics :
        /\ {"status", "escalated"} \subseteq DOMAIN clock[m]
        /\ clock[m].status # "BREACHED" /\ ~ clock[m].escalated
  BY DEF Init, NewClock, NoClock
<1>2. DOMAIN clock = Metrics
  BY DEF Init
<1> QED
  BY <1>1, <1>2 DEF Init, TellInv, IdleScan

(* Clocks that are not made to say BREACHED, or escalated, keep it all.    *)
LEMMA ClocksMove ==
  ASSUME TellInv, DOMAIN clock' = Metrics, UNCHANGED <<scan, told>>,
         faults' \in {faults, faults + 1},
         \A m \in Metrics :
           /\ {"status", "escalated"} \subseteq DOMAIN clock'[m]
           /\ clock'[m].status = "BREACHED" => clock[m].status = "BREACHED"
           /\ clock'[m].escalated => clock[m].escalated
  PROVE  TellInv'
BY DEF TellInv, Keyed, HeardOf, TeamTold

LEMMA StepKeepsTellInv == TellInv /\ [Next]_vars => TellInv'
<1> SUFFICES ASSUME TellInv, [Next]_vars PROVE TellInv'
  OBVIOUS
<1> DEFINE Untouched == UNCHANGED <<clock, scan, told>> /\ faults' \in {faults, faults + 1}
<1>1. CASE Untouched
  <2>1. DOMAIN clock' = Metrics /\ \A m \in Metrics :
           {"status", "escalated"} \subseteq DOMAIN clock'[m] /\ clock'[m] = clock[m]
    BY <1>1 DEF TellInv
  <2> QED
    BY <1>1, <2>1, ClocksMove
<1>2. CASE UNCHANGED vars \/ Tick \/ (\E u \in Users : ClaimCase(u))
                          \/ \E d \in Mailers : MailStep(d)
  <2>1. Untouched
    BY <1>2 DEF vars, desk, history, Tick, ClaimCase, MailStep, ListMail, ClaimMail, SendMail,
                MailerDies
  <2> QED
    BY <1>1, <2>1
<1>3. ASSUME NEW q \in Requests, RequestStep(q) PROVE TellInv'
  <2>1. CASE WriteClock(q)
    <3> DEFINE op == request[q].pc  m == MetricOf(op)
    <3>1. /\ op \in {"pause", "resume", "satisfy", "respond"}
          /\ clock' = [clock EXCEPT ![m] = Written(op, request[q].row, request[q].at, clock[m])]
          /\ UNCHANGED <<scan, told, faults>>
      BY <2>1 DEF WriteClock
    <3>2. m \in Metrics /\ DOMAIN clock = Metrics /\ {"status", "escalated"} \subseteq DOMAIN clock[m]
      BY DEF MetricOf, Metrics, TellInv
    <3>3. ASSUME NEW c, {"status", "escalated"} \subseteq DOMAIN c, NEW row, NEW at
          PROVE  /\ {"status", "escalated"} \subseteq DOMAIN Written(op, row, at, c)
                 /\ Written(op, row, at, c).status # "BREACHED"
                 /\ Written(op, row, at, c).escalated = c.escalated
      <4>1. CASE op = "pause"
        BY <3>3, <4>1 DEF Written
      <4>2. CASE op = "resume"
        BY <3>3, <4>2 DEF Written
      <4>3. CASE op = "satisfy"
        BY <3>3, <4>3 DEF Written
      <4>4. CASE op = "respond"
        BY <3>3, <4>4 DEF Written
      <4> QED
        BY <3>1, <4>1, <4>2, <4>3, <4>4
    <3> HIDE DEF m, op
    <3> QED
      BY <3>1, <3>2, <3>3, ClocksMove DEF TellInv
  <2>2. CASE ~ WriteClock(q)
    <3>1. Untouched
      BY <1>3, <2>2 DEF RequestStep, desk, history, ReadCase, WriteStatus, Comment, FindClock,
        Announce, RequestClosure, CreateApproval, ReadPending, Decide, ReadForClosing,
        RequestDies
    <3> QED
      BY <1>1, <3>1
  <2> QED
    BY <2>1, <2>2
<1>4. CASE BeginScan \/ ListBreached \/ EndScan \/ ScanDies
  <2>1. UNCHANGED <<clock, told>> /\ faults \in Nat
    BY <1>4 DEF BeginScan, ListBreached, EndScan, ScanDies, desk, history, TellInv
  <2>2. /\ DOMAIN scan' = {"pc", "at", "todo", "metric"} /\ scan'.todo \subseteq Metrics
        /\ scan'.pc # "tell" /\ scan'.metric = None
        /\ faults' \in {faults, faults + 1} /\ (faults' = 0 => scan.pc # "tell")
    <3>1. CASE BeginScan
      BY <2>1, <3>1 DEF BeginScan, TellInv, IdleScan, Due
    <3>2. CASE ListBreached
      BY <2>1, <3>2 DEF ListBreached, TellInv, Escalable
    <3>3. CASE EndScan \/ ScanDies
      BY <2>1, <3>3 DEF EndScan, ScanDies, IdleScan
    <3> QED
      BY <1>4, <3>1, <3>2, <3>3
  <2> QED
    BY <2>1, <2>2 DEF TellInv, HeardOf, TeamTold, Keyed
<1>5. CASE Breach
  <2>1. UNCHANGED <<told, faults>> /\ scan.pc = "breach"
    BY <1>5 DEF Breach
  <2>2. PICK m \in scan.todo :
          /\ clock' = [clock EXCEPT ![m].status = "BREACHED", ![m].breachedAt = scan.at]
          /\ scan' = [scan EXCEPT !.pc = "tell", !.metric = m, !.todo = @ \ {m}]
    BY <1>5 DEF Breach
  <2>3. /\ m \in Metrics /\ DOMAIN clock' = Metrics
        /\ \A o \in Metrics : /\ {"status", "escalated"} \subseteq DOMAIN clock'[o]
                              /\ clock'[o].escalated = clock[o].escalated
                              /\ o # m => clock'[o] = clock[o]
    BY <2>2 DEF TellInv
  <2>4. /\ DOMAIN scan' = {"pc", "at", "todo", "metric"} /\ scan'.todo \subseteq Metrics
        /\ scan'.pc = "tell" /\ scan'.metric = m
    BY <2>2 DEF TellInv
  <2> QED
    BY <2>1, <2>3, <2>4 DEF TellInv, HeardOf, TeamTold, Keyed
<1>6. CASE Tell
  <2>0. scan.metric \in Metrics
    BY <1>6 DEF Tell, TellInv
  <2> PICK m \in Metrics : m = scan.metric
    BY <2>0
  <2> DEFINE key == <<"breach", m, None>>
  <2>1. /\ scan.pc = "tell" /\ key = DedupeKey("breach", scan.metric, None)
        /\ UNCHANGED <<clock, faults>>
        /\ scan' = [scan EXCEPT !.pc = "breach", !.metric = None]
    BY <1>6 DEF Tell, TellInv, DedupeKey, desk
  <2>2. told \subseteq told' /\ \A n \in told' \ told : Keyed(n) /\ n.metric \in Metrics
    BY <1>6, <2>1 DEF Tell, Keyed, DedupeKey
  <2>3. HeardOf(m)'
    <3>1. CASE \E n \in told : n.key = key
      <4>1. PICK n \in told : n.key = <<"breach", m, None>>
        BY <3>1
      <4>2. n.metric = m /\ n.key[1] = "breach"
        BY <4>1, KeysDiffer DEF TellInv
      <4> QED
        BY <2>2, <4>2 DEF HeardOf
    <3>2. CASE ~ \E n \in told : n.key = key
      <4>1. CASE kase.assignee = None
        <5>1. [key |-> None, metric |-> m, to |-> None] \in told'
          BY <1>6, <4>1 DEF Tell
        <5> QED
          BY <5>1 DEF HeardOf
      <4>2. CASE kase.assignee # None
        <5>1. [key |-> key, metric |-> m, to |-> kase.assignee] \in told'
          BY <1>6, <2>1, <3>2, <4>2 DEF Tell
        <5> QED
          BY <5>1 DEF HeardOf
      <4> QED
        BY <4>1, <4>2
    <3> QED
      BY <3>1, <3>2
  <2>4. /\ DOMAIN scan' = {"pc", "at", "todo", "metric"} /\ scan'.todo \subseteq Metrics
        /\ scan'.pc = "breach" /\ scan'.metric = None
    BY <2>1 DEF TellInv
  <2>5. /\ \A o \in Metrics : HeardOf(o) => HeardOf(o)'
        /\ \A o \in Metrics : TeamTold(o) => TeamTold(o)'
    BY <2>2 DEF HeardOf, TeamTold
  <2>6. \A n \in told' : Keyed(n)' /\ n.metric \in Metrics
    BY <2>2 DEF Keyed, TellInv
  <2> QED
    BY <2>1, <2>3, <2>4, <2>5, <2>6 DEF TellInv
<1>7. CASE TellTeam
  <2>1. UNCHANGED <<clock, faults>> /\ scan.pc = "escalate"
    BY <1>7 DEF TellTeam, desk
  <2>2. PICK m \in scan.todo :
          /\ told' = told \cup
               {[key |-> DedupeKey("escalation", m, u), metric |-> m, to |-> u] :
                  u \in {v \in Users : DedupeKey("escalation", m, v) \notin {n.key : n \in told}}}
          /\ scan' = [scan EXCEPT !.metric = m, !.todo = @ \ {m}]
    BY <1>7 DEF TellTeam
  <2>3. m \in Metrics
    BY <2>2 DEF TellInv
  <2>4. told \subseteq told' /\ \A n \in told' \ told : Keyed(n) /\ n.metric \in Metrics
    BY <2>2, <2>3 DEF Keyed, DedupeKey
  <2>5. ASSUME NEW u \in Users
        PROVE  \E n \in told' : n.metric = m /\ n.to = u /\ n.key[1] = "escalation"
    <3>1. CASE \E n \in told : n.key = DedupeKey("escalation", m, u)
      <4>1. PICK n \in told : n.key = <<"escalation", m, u>>
        BY <3>1 DEF DedupeKey
      <4>2. n.metric = m /\ n.to = u /\ n.key[1] = "escalation"
        BY <2>3, <4>1, KeysDiffer DEF TellInv
      <4> QED
        BY <2>4, <4>2
    <3>2. CASE ~ \E n \in told : n.key = DedupeKey("escalation", m, u)
      <4>1. [key |-> DedupeKey("escalation", m, u), metric |-> m, to |-> u] \in told'
        BY <2>2, <3>2
      <4> QED
        BY <4>1 DEF DedupeKey
    <3> QED
      BY <3>1, <3>2
  <2>6. TeamTold(m)'
    BY <2>5 DEF TeamTold
  <2>7. /\ DOMAIN scan' = {"pc", "at", "todo", "metric"} /\ scan'.todo \subseteq Metrics
        /\ scan'.pc = "escalate" /\ scan'.metric = m
    BY <2>1, <2>2 DEF TellInv
  <2>8. /\ \A o \in Metrics : HeardOf(o) => HeardOf(o)'
        /\ \A o \in Metrics : TeamTold(o) => TeamTold(o)'
        /\ \A n \in told' : Keyed(n)' /\ n.metric \in Metrics
    BY <2>4 DEF HeardOf, TeamTold, Keyed, TellInv
  <2> QED
    BY <2>1, <2>6, <2>7, <2>8 DEF TellInv
<1>8. CASE MarkEscalated
  BY <1>8 DEF MarkEscalated, TellInv, HeardOf, TeamTold, Keyed, history
<1> QED
  BY <1>2, <1>3, <1>4, <1>5, <1>6, <1>7, <1>8 DEF Next, ScanStep

(* But for a crash every breach has been told, to the assignee if there is *)
(* one, and whoever is in the team has been told of every escalation.      *)
THEOREM BreachesTold == Spec => []BreachTold
<1>1. TellInv => BreachTold
  BY DEF TellInv, BreachTold, HeardOf, TeamTold
<1> QED
  BY <1>1, InitTellInv, StepKeepsTellInv, PTL DEF Spec

-----------------------------------------------------------------------------
(* Closing a complaint: every request on its way to close one has an       *)
(* approved row to itself, so that closings never outnumber the decisions. *)

RequestFields == {"pc", "user", "via", "from", "to", "at", "row", "approval"}

(* What a request holds is right for what it is about to do.               *)
Proper(r) ==
  /\ DOMAIN r = RequestFields
  /\ r.pc = "create" => r.user \in Users
  /\ r.pc = "decide" =>
       /\ r.user \in Users /\ r.approval \in ApprovalIds
       /\ approval[r.approval] # None /\ approval[r.approval].requester # r.user
  /\ r.pc = "write" /\ r.via = "status" /\ kase.kind = "COMPLAINT" => r.to # "CLOSED"

Closing(r) == r.pc = "close" \/ (r.pc = "write" /\ r.via = "approval")
Closers == {q \in Requests : Closing(request[q])}
Approved == {a \in ApprovalIds : approval[a] # None /\ approval[a].status = "APPROVED"}

ClosureInv ==
  /\ DOMAIN request = Requests /\ \A q \in Requests : Proper(request[q])
  /\ "kind" \in DOMAIN kase
  /\ approval \in [ApprovalIds -> Approval \cup {None}]
  /\ \A a \in ApprovalIds : approval[a] # None /\ approval[a].by # None =>
       approval[a].by # approval[a].requester
  /\ closings \in Nat /\ raced \in BOOLEAN
  /\ kase.kind = "COMPLAINT" /\ ~ raced =>
       closings + Cardinality(Closers) <= Cardinality(Approved)

LEMMA Counted == IsFiniteSet(Requests) /\ IsFiniteSet(ApprovalIds)
BY CaseAssumption

LEMMA InitClosureInv == Init => ClosureInv
<1> SUFFICES ASSUME Init PROVE ClosureInv
  OBVIOUS
<1>1. Closers = {} /\ Approved = {} /\ Cardinality({}) = 0
  BY FS_EmptySet DEF Init, Closers, Closing, Approved, IdleRequest
<1>2. \A q \in Requests : Proper(request[q])
  BY DEF Init, Proper, IdleRequest, RequestFields
<1>3. DOMAIN request = Requests /\ "kind" \in DOMAIN kase /\ closings = 0 /\ raced = FALSE
      /\ approval = [a \in ApprovalIds |-> None]
  BY DEF Init
<1>4. /\ approval \in [ApprovalIds -> Approval \cup {None}]
      /\ \A a \in ApprovalIds : approval[a] = None
  BY <1>3
<1>5. closings + Cardinality(Closers) <= Cardinality(Approved)
  BY <1>1, <1>3
<1> QED
  BY <1>2, <1>3, <1>4, <1>5 DEF ClosureInv

(* Nothing the closure depends on moves.                                   *)
LEMMA ClosureUntouched ==
  ASSUME ClosureInv, UNCHANGED <<request, approval, closings>>, raced' \in BOOLEAN, raced => raced',
         "kind" \in DOMAIN kase', kase'.kind = kase.kind
  PROVE  ClosureInv'
<1>1. Closers' = Closers /\ Approved' = Approved
  BY DEF Closers, Closing, Approved
<1> QED
  BY <1>1 DEF ClosureInv, Proper

(* A request turns to something that is not a closing.                     *)
LEMMA RequestMoves ==
  ASSUME ClosureInv, NEW q \in Requests, NEW r, request' = [request EXCEPT ![q] = r],
         Proper(r), ~ Closing(r), UNCHANGED approval,
         raced' \in BOOLEAN, raced => raced', "kind" \in DOMAIN kase', kase'.kind = kase.kind,
         closings' \in Nat,
         \/ closings' = closings
         \/ kase.kind # "COMPLAINT"
         \/ closings' = closings + 1 /\ Closing(request[q])
  PROVE  ClosureInv'
<1>1. /\ DOMAIN request' = Requests /\ request'[q] = r
      /\ \A o \in Requests : o # q => request'[o] = request[o]
  BY DEF ClosureInv
<1>2. Closers' = Closers \ {q} /\ Approved' = Approved
  BY <1>1 DEF Closers, Closing, Approved
<1>3. \A o \in Requests : Proper(request[o])'
  BY <1>1 DEF ClosureInv, Proper
<1>4. IsFiniteSet(Closers) /\ IsFiniteSet(Approved)
  BY Counted, FS_Subset DEF Closers, Approved
<1>5. /\ Cardinality(Closers) \in Nat /\ Cardinality(Closers') \in Nat
      /\ Cardinality(Approved) \in Nat /\ Cardinality(Closers') <= Cardinality(Closers)
      /\ (Closing(request[q]) => Cardinality(Closers') = Cardinality(Closers) - 1)
  <2>1. q \in Closers <=> Closing(request[q])
    BY DEF Closers
  <2>2. Cardinality(Closers) \in Nat /\ Cardinality(Approved) \in Nat
    BY <1>4, FS_CardinalityType
  <2>3. CASE q \in Closers
    <3>1. Cardinality(Closers \ {q}) = Cardinality(Closers) - 1 /\ IsFiniteSet(Closers \ {q})
      BY <1>4, <2>3, FS_RemoveElement
    <3>2. Cardinality(Closers \ {q}) \in Nat
      BY <3>1, FS_CardinalityType
    <3> QED
      BY <1>2, <2>2, <3>1, <3>2
  <2>4. CASE q \notin Closers
    <3>1. Closers' = Closers
      BY <1>2, <2>4
    <3> QED
      BY <2>1, <2>2, <2>4, <3>1
  <2> QED
    BY <2>3, <2>4
<1>6. kase'.kind = "COMPLAINT" /\ ~ raced' =>
        closings' + Cardinality(Closers') <= Cardinality(Approved')
  BY <1>2, <1>5 DEF ClosureInv
<1> QED
  BY <1>1, <1>3, <1>6 DEF ClosureInv

LEMMA IdleIsProper == Proper(IdleRequest) /\ ~ Closing(IdleRequest)
BY DEF Proper, Closing, IdleRequest, RequestFields

LEMMA WriteStatusKeepsClosure ==
  ASSUME ClosureInv, NEW q \in Requests, WriteStatus(q)
  PROVE  ClosureInv'
<1> DEFINE r == request[q]
           next == Bookkeeping(r.via, r.from, r.to)
           l == IF next = "idle" THEN IdleRequest ELSE [r EXCEPT !.pc = next, !.at = now]
<1>1. /\ r.pc = "write" /\ request' = [request EXCEPT ![q] = l] /\ UNCHANGED approval
      /\ kase' = [kase EXCEPT !.status = r.to]
      /\ raced' \in BOOLEAN /\ (raced => raced')
      /\ closings' = IF r.to = "CLOSED" /\ r.via \in {"status", "approval"}
                     THEN closings + 1 ELSE closings
  BY DEF WriteStatus, ClosureInv
<1>2. next \in {"idle", "pause", "resume", "satisfy"} /\ Proper(r)
  BY DEF Bookkeeping, ClosureInv
<1>3. Proper(l) /\ ~ Closing(l)
  <2>1. CASE next = "idle"
    BY <2>1, IdleIsProper
  <2>2. CASE next # "idle"
    BY <1>2, <2>2 DEF Proper, Closing, RequestFields
  <2> QED
    BY <2>1, <2>2
<1>4. /\ closings' \in Nat
      /\ \/ closings' = closings
         \/ kase.kind # "COMPLAINT"
         \/ closings' = closings + 1 /\ Closing(r)
  BY <1>1, <1>2 DEF Proper, Closing, ClosureInv
<1>5. "kind" \in DOMAIN kase' /\ kase'.kind = kase.kind
  BY <1>1 DEF ClosureInv
<1> HIDE DEF l
<1> QED
  BY <1>1, <1>3, <1>4, <1>5, RequestMoves

LEMMA DecideKeepsClosure ==
  ASSUME ClosureInv, NEW q \in Requests, Decide(q)
  PROVE  ClosureInv'
<1> DEFINE r == request[q]  a == r.approval
<1>1. PICK s \in {"APPROVED", "REJECTED"} :
        /\ approval' = [approval EXCEPT ![a].status = s, ![a].by = r.user]
        /\ request' = [request EXCEPT ![q] = IF s = "APPROVED" THEN [r EXCEPT !.pc = "close"]
                                             ELSE IdleRequest]
  BY DEF Decide, Go, Done, ClosureInv
<1>2. /\ r.pc = "decide" /\ UNCHANGED <<kase, closings>>
      /\ raced' \in BOOLEAN /\ (~ raced' => ~ raced /\ approval[a].status = "PENDING")
  BY DEF Decide, ClosureInv
<1>3. /\ a \in ApprovalIds /\ approval[a] \in Approval /\ r.user \in Users /\ DOMAIN r = RequestFields
      /\ approval[a].requester # r.user
  BY <1>2 DEF ClosureInv, Proper
<1>4. /\ approval'[a] = [approval[a] EXCEPT !.status = s, !.by = r.user]
      /\ approval'[a] \in Approval /\ approval'[a].status = s /\ approval'[a].by = r.user
      /\ approval'[a].requester = approval[a].requester
      /\ \A o \in ApprovalIds : o # a => approval'[o] = approval[o]
      /\ DOMAIN approval' = ApprovalIds
  BY <1>1, <1>3 DEF ClosureInv, Approval
<1>5. approval' \in [ApprovalIds -> Approval \cup {None}] /\ approval'[a] # None
  BY <1>1, <1>3, <1>4, CaseAssumption DEF ClosureInv
<1>6. /\ DOMAIN request' = Requests
      /\ \A o \in Requests : o # q => request'[o] = request[o]
      /\ DOMAIN request'[q] = RequestFields /\ request'[q].pc \in {"idle", "close"}
      /\ (request'[q].pc = "close" => s = "APPROVED")
  BY <1>1, <1>3 DEF ClosureInv, IdleRequest, RequestFields
<1>7. \A o \in Requests : Proper(request[o])'
  <2> SUFFICES ASSUME NEW o \in Requests PROVE Proper(request[o])'
    OBVIOUS
  <2>1. CASE o = q
    BY <1>6, <2>1 DEF Proper
  <2>2. CASE o # q
    <3>1. Proper(request[o]) /\ request'[o] = request[o]
      BY <1>6, <2>2 DEF ClosureInv
    <3>2. \A x \in ApprovalIds : approval[x] # None =>
            approval'[x] # None /\ approval'[x].requester = approval[x].requester
      BY <1>4, <1>5
    <3> QED
      BY <1>2, <3>1, <3>2 DEF Proper
  <2> QED
    BY <2>1, <2>2
<1>8. \A o \in ApprovalIds : approval'[o] # None /\ approval'[o].by # None =>
        approval'[o].by # approval'[o].requester
  BY <1>3, <1>4 DEF ClosureInv
<1>9. ~ raced' /\ kase.kind = "COMPLAINT" =>
        closings + Cardinality(Closers') <= Cardinality(Approved')
  <2> SUFFICES ASSUME ~ raced', kase.kind = "COMPLAINT"
               PROVE  closings + Cardinality(Closers') <= Cardinality(Approved')
    OBVIOUS
  <2>1. q \notin Closers /\ a \notin Approved
    BY <1>2 DEF Closers, Closing, Approved
  <2>2. IsFiniteSet(Closers) /\ IsFiniteSet(Approved)
    BY Counted, FS_Subset DEF Closers, Approved
  <2>3. CASE s = "APPROVED"
    <3>1. Approved' = Approved \cup {a}
      BY <1>3, <1>4, <1>5, <2>3 DEF Approved
    <3>2. Closers' \subseteq Closers \cup {q}
      BY <1>6 DEF Closers, Closing
    <3>3. /\ Cardinality(Approved') = Cardinality(Approved) + 1
          /\ Cardinality(Closers \cup {q}) = Cardinality(Closers) + 1
          /\ Cardinality(Closers') <= Cardinality(Closers \cup {q})
          /\ Cardinality(Closers) \in Nat /\ Cardinality(Closers') \in Nat
          /\ Cardinality(Approved) \in Nat
      BY <2>1, <2>2, <3>1, <3>2, FS_AddElement, FS_Subset, FS_CardinalityType
    <3> QED
      BY <1>2, <3>3 DEF ClosureInv
  <2>4. CASE s = "REJECTED"
    <3>1. Approved' = Approved
      BY <1>4, <2>1, <2>4 DEF Approved
    <3>2. ~ Closing(request'[q])
      BY <1>6, <2>4 DEF Closing
    <3>3. Closers' = Closers
      BY <1>6, <2>1, <3>2 DEF Closers
    <3> QED
      BY <1>2, <3>1, <3>3 DEF ClosureInv
  <2> QED
    BY <2>3, <2>4
<1> QED
  BY <1>2, <1>5, <1>6, <1>7, <1>8, <1>9 DEF ClosureInv

LEMMA CreateKeepsClosure ==
  ASSUME ClosureInv, NEW q \in Requests, CreateApproval(q)
  PROVE  ClosureInv'
<1> DEFINE row == [status |-> "PENDING", requester |-> request[q].user, by |-> None]
<1>1. PICK a \in ApprovalIds : approval[a] = None /\ approval' = [approval EXCEPT ![a] = row]
  BY DEF CreateApproval, FreeApprovals
<1>2. /\ request[q].pc = "create" /\ UNCHANGED <<kase, closings, raced>>
      /\ request' = [request EXCEPT ![q].pc = "announce"]
  BY DEF CreateApproval, Go, history
<1>3. row \in Approval /\ row # None
  BY <1>2, CaseAssumption DEF Approval, ClosureInv, Proper
<1>4. /\ approval' \in [ApprovalIds -> Approval \cup {None}] /\ approval'[a] = row
      /\ \A o \in ApprovalIds : o # a => approval'[o] = approval[o]
  BY <1>1, <1>3 DEF ClosureInv
<1>5. /\ DOMAIN request' = Requests
      /\ \A o \in Requests : o # q => request'[o] = request[o]
      /\ DOMAIN request'[q] = RequestFields /\ request'[q].pc = "announce"
  BY <1>2 DEF ClosureInv, Proper, RequestFields
<1>6. \A o \in Requests : Proper(request[o])'
  BY <1>1, <1>2, <1>4, <1>5 DEF ClosureInv, Proper
<1>7. Closers' = Closers
  BY <1>2, <1>5 DEF Closers, Closing
<1>8. Approved' = Approved
  BY <1>1, <1>4 DEF Approved
<1> QED
  BY <1>2, <1>4, <1>5, <1>6, <1>7, <1>8 DEF ClosureInv

LEMMA ReadForClosingKeepsClosure ==
  ASSUME ClosureInv, NEW q \in Requests, ReadForClosing(q)
  PROVE  ClosureInv'
<1>1. request[q].pc = "close" /\ UNCHANGED <<kase, approval, closings, raced>>
  BY DEF ReadForClosing, desk, history
<1>2. CASE Done(q)
  BY <1>1, <1>2, IdleIsProper, RequestMoves DEF Done, ClosureInv
<1>3. CASE request' = [request EXCEPT ![q].pc = "write", ![q].via = "approval",
                                      ![q].from = kase.status, ![q].to = "CLOSED"]
  <2>1. /\ DOMAIN request' = Requests
        /\ \A o \in Requests : o # q => request'[o] = request[o]
        /\ DOMAIN request'[q] = RequestFields
        /\ request'[q].pc = "write" /\ request'[q].via = "approval"
    BY <1>3 DEF ClosureInv, Proper, RequestFields
  <2>2. Closers' = Closers /\ Approved' = Approved
    BY <1>1, <2>1 DEF Closers, Closing, Approved
  <2>3. \A o \in Requests : Proper(request[o])'
    BY <1>1, <2>1 DEF ClosureInv, Proper
  <2> QED
    BY <1>1, <2>1, <2>2, <2>3 DEF ClosureInv
<1> QED
  BY <1>2, <1>3 DEF ReadForClosing

(* The other steps of a request.                                           *)
LEMMA OthersKeepClosure ==
  ASSUME ClosureInv, NEW q \in Requests,
         ReadCase(q) \/ Comment(q) \/ FindClock(q) \/ WriteClock(q) \/ RequestClosure(q)
           \/ Announce(q) \/ ReadPending(q) \/ RequestDies(q)
  PROVE  ClosureInv'
<1>1. /\ UNCHANGED <<approval, closings, raced>> /\ "kind" \in DOMAIN kase' /\ kase'.kind = kase.kind
      /\ closings' \in Nat /\ raced' \in BOOLEAN /\ Proper(request[q])
  BY DEF ReadCase, Comment, FindClock, WriteClock, RequestClosure, Announce, ReadPending,
         RequestDies, desk, history, ClosureInv
<1>2. ASSUME Done(q) PROVE ClosureInv'
  BY <1>1, <1>2, IdleIsProper, RequestMoves DEF Done
<1>3. CASE ReadCase(q)
  <2>1. PICK via \in Vias, to \in Statuses :
          /\ MayClose(via, to)
          /\ request' = [request EXCEPT ![q] =
               [IdleRequest EXCEPT !.pc = "write", !.via = via, !.from = kase.status, !.to = to]]
    BY <1>3 DEF ReadCase
  <2> DEFINE r == [IdleRequest EXCEPT !.pc = "write", !.via = via, !.from = kase.status, !.to = to]
  <2>2. Proper(r) /\ ~ Closing(r)
    BY <2>1, CaseAssumption DEF Proper, Closing, MayClose, IdleRequest, RequestFields
  <2> HIDE DEF r
  <2> QED
    BY <1>1, <2>1, <2>2, RequestMoves DEF r
<1>4. CASE Comment(q)
  <2> DEFINE r == [IdleRequest EXCEPT !.pc = "respond"]
  <2>1. request' = [request EXCEPT ![q] = r] /\ Proper(r) /\ ~ Closing(r)
    BY <1>4 DEF Comment, Proper, Closing, IdleRequest, RequestFields
  <2> HIDE DEF r
  <2> QED
    BY <1>1, <2>1, RequestMoves
<1>5. CASE FindClock(q)
  <2>1. ASSUME NEW c, request' = [request EXCEPT ![q].row = c] PROVE ClosureInv'
    <3> DEFINE r == [request[q] EXCEPT !.row = c]
    <3>1. request' = [request EXCEPT ![q] = r] /\ Proper(r) /\ ~ Closing(r)
      BY <1>1, <1>5, <2>1 DEF FindClock, Proper, Closing, RequestFields
    <3> HIDE DEF r
    <3> QED
      BY <1>1, <3>1, RequestMoves
  <2> QED
    BY <1>2, <1>5, <2>1 DEF FindClock
<1>6. CASE WriteClock(q) \/ Announce(q) \/ RequestDies(q)
  BY <1>2, <1>6 DEF WriteClock, Announce, RequestDies
<1>7. CASE RequestClosure(q)
  <2>1. PICK u \in Users :
          request' = [request EXCEPT ![q] = [IdleRequest EXCEPT !.pc = "create", !.user = u]]
    BY <1>7 DEF RequestClosure
  <2> DEFINE r == [IdleRequest EXCEPT !.pc = "create", !.user = u]
  <2>2. request' = [request EXCEPT ![q] = r] /\ Proper(r) /\ ~ Closing(r)
    BY <2>1 DEF Proper, Closing, IdleRequest, RequestFields
  <2> HIDE DEF r
  <2> QED
    BY <1>1, <2>2, RequestMoves
<1>8. CASE ReadPending(q)
  <2>1. PICK u \in Users, a \in Pending :
          /\ approval[a].requester # u
          /\ request' = [request EXCEPT ![q] =
               [IdleRequest EXCEPT !.pc = "decide", !.user = u, !.approval = a]]
    BY <1>8 DEF ReadPending
  <2> DEFINE r == [IdleRequest EXCEPT !.pc = "decide", !.user = u, !.approval = a]
  <2>2. request' = [request EXCEPT ![q] = r] /\ Proper(r) /\ ~ Closing(r)
    BY <2>1 DEF Proper, Closing, Pending, IdleRequest, RequestFields
  <2> HIDE DEF r
  <2> QED
    BY <1>1, <2>2, RequestMoves
<1> QED
  BY <1>3, <1>4, <1>5, <1>6, <1>7, <1>8

LEMMA StepKeepsClosureInv == ClosureInv /\ [Next]_vars => ClosureInv'
<1> SUFFICES ASSUME ClosureInv, [Next]_vars PROVE ClosureInv'
  OBVIOUS
<1>1. CASE UNCHANGED vars \/ Tick \/ ScanStep \/ (\E u \in Users : ClaimCase(u))
                          \/ \E d \in Mailers : MailStep(d)
  <2>1. /\ UNCHANGED <<request, approval, closings, raced>>
        /\ "kind" \in DOMAIN kase' /\ kase'.kind = kase.kind
    BY <1>1 DEF vars, desk, history, Tick, ClaimCase, ScanStep, BeginScan, Breach, Tell,
                ListBreached, TellTeam, MarkEscalated, EndScan, ScanDies, MailStep, ListMail,
                ClaimMail, SendMail, MailerDies, ClosureInv
  <2> QED
    BY <2>1, ClosureUntouched DEF ClosureInv
<1>2. ASSUME NEW q \in Requests, RequestStep(q) PROVE ClosureInv'
  BY <1>2, WriteStatusKeepsClosure, DecideKeepsClosure, CreateKeepsClosure,
     ReadForClosingKeepsClosure, OthersKeepClosure DEF RequestStep
<1> QED
  BY <1>1, <1>2 DEF Next

(* While deciders do not race, no complaint is closed more often than an   *)
(* approval was granted, and never on the word of whoever asked for it.    *)
THEOREM ClosuresDecided == Spec => []ClosureDecided
<1>1. ClosureInv => ClosureDecided
  <2> SUFFICES ASSUME ClosureInv PROVE ClosureDecided
    OBVIOUS
  <2>1. IsFiniteSet(Closers) /\ IsFiniteSet(Approved)
    BY Counted, FS_Subset DEF Closers, Approved
  <2>2. Cardinality(Closers) \in Nat /\ Cardinality(Approved) \in Nat
    BY <2>1, FS_CardinalityType
  <2> QED
    BY <2>2 DEF ClosureInv, ClosureDecided, Approved
<1> QED
  BY <1>1, InitClosureInv, StepKeepsClosureInv, PTL DEF Spec

-----------------------------------------------------------------------------
(* The clocks follow the case: as long as nobody raced, one request at     *)
(* most is between the status it wrote and the clock it owes, and what it  *)
(* is at tells what the case says.  Of a clock that does not yet follow,   *)
(* that request is still to write it.                                      *)

Keeping(q) == request[q].pc \in {"pause", "resume", "satisfy"}
Doing(op) == \E q \in Requests : request[q].pc = op
StatusOf(m) == clock[m].status

OneKeeper ==
  /\ \A q, p \in Requests : Keeping(q) /\ Keeping(p) => q = p
  /\ Doing("pause") => kase.status = "PENDING"
  /\ Doing("resume") => kase.status = "OPEN"
  /\ Doing("satisfy") => kase.status = "RESOLVED"

ResolutionFollows ==
  /\ kase.status = "PENDING" => StatusOf("RESOLUTION") # "RUNNING" \/ Doing("pause")
  /\ kase.status = "RESOLVED" =>
       StatusOf("RESOLUTION") \notin {"RUNNING", "PAUSED"} \/ Doing("satisfy")
  /\ StatusOf("RESOLUTION") = "PAUSED" =>
       kase.status = "PENDING" \/ onHold \/ Doing("resume") \/ Doing("satisfy")

FollowInv ==
  /\ {"status", "responded"} \subseteq DOMAIN kase
  /\ raced \in BOOLEAN /\ onHold \in BOOLEAN /\ faults \in Nat
  /\ \A q \in Requests : request[q].pc = "write" /\ request[q].via \notin {"automation", "merge"}
       => Permitted(request[q].from, request[q].to)
  /\ ~ raced => OneKeeper
  /\ ~ raced /\ faults = 0 => ResolutionFollows
  /\ faults = 0 /\ kase.responded =>
       StatusOf("FIRST_RESPONSE") # "RUNNING" \/ Doing("respond")

LEMMA InitFollowInv == Init => FollowInv
<1> SUFFICES ASSUME Init PROVE FollowInv
  OBVIOUS
<1>1. \A q \in Requests : request[q].pc = "idle"
  BY DEF Init, IdleRequest
<1>2. /\ raced = FALSE /\ onHold = FALSE /\ faults = 0
      /\ {"status", "responded"} \subseteq DOMAIN kase /\ kase.responded = FALSE
      /\ kase.status \in {"NEW", "OPEN"}
  BY DEF Init
<1>3. StatusOf("RESOLUTION") # "PAUSED"
  BY DEF Init, StatusOf, NewClock, NoClock, Metrics
<1> QED
  BY <1>1, <1>2, <1>3 DEF FollowInv, OneKeeper, ResolutionFollows, Keeping, Doing

(* Whatever leaves case and requests alone, and at worst breaches a clock. *)
LEMMA ClocksSettle ==
  ASSUME FollowInv, UNCHANGED <<request, raced, onHold>>, faults' \in {faults, faults + 1},
         {"status", "responded"} \subseteq DOMAIN kase',
         kase'.status = kase.status, kase'.responded = kase.responded,
         \A m \in Metrics : StatusOf(m)' \in {StatusOf(m), "BREACHED"}
  PROVE  FollowInv'
<1>1. /\ StatusOf("RESOLUTION")' \in {StatusOf("RESOLUTION"), "BREACHED"}
      /\ StatusOf("FIRST_RESPONSE")' \in {StatusOf("FIRST_RESPONSE"), "BREACHED"}
  BY DEF Metrics
<1>2. faults' \in Nat /\ (faults' = 0 => faults = 0)
  BY DEF FollowInv
<1>3. \A op : Doing(op)' <=> Doing(op)
  BY DEF Doing
<1>4. raced \/ OneKeeper'
  BY <1>3 DEF FollowInv, OneKeeper, Keeping, Doing
<1>5. ~ raced /\ faults' = 0 => ResolutionFollows'
  BY <1>1, <1>2 DEF FollowInv, ResolutionFollows, Doing
<1>6. faults' = 0 /\ kase'.responded =>
        StatusOf("FIRST_RESPONSE")' # "RUNNING" \/ Doing("respond")'
  BY <1>1, <1>2 DEF FollowInv, Doing
<1> QED
  BY <1>2, <1>4, <1>5, <1>6 DEF FollowInv, Permitted, Transitions

(* A request that owes no clock, before and after, or that dies.           *)
LEMMA RequestOwesNothing ==
  ASSUME FollowInv, ClosureInv, NEW q \in Requests, NEW l, request' = [request EXCEPT ![q] = l],
         UNCHANGED <<kase, clock, onHold>>, raced' \in BOOLEAN, raced => raced',
         faults' \in Nat, faults' = 0 => faults = 0,
         l.pc \notin {"pause", "resume", "satisfy", "respond"},
         request[q].pc \in {"pause", "resume", "satisfy", "respond"} => faults' # 0,
         l.pc = "write" /\ l.via \notin {"automation", "merge"} => Permitted(l.from, l.to)
  PROVE  FollowInv'
<1>1. /\ request'[q] = l
      /\ \A o \in Requests : o # q => request'[o] = request[o]
  BY DEF ClosureInv
<1>2. ~ raced' => OneKeeper'
  BY <1>1 DEF FollowInv, OneKeeper, Keeping, Doing
<1>3. \A op \in {"pause", "resume", "satisfy", "respond"} : faults' = 0 /\ Doing(op) => Doing(op)'
  BY <1>1 DEF Doing
<1>4. ~ raced' /\ faults' = 0 => ResolutionFollows'
  BY <1>3 DEF FollowInv, ResolutionFollows, StatusOf
<1>5. faults' = 0 /\ kase'.responded =>
        StatusOf("FIRST_RESPONSE")' # "RUNNING" \/ Doing("respond")'
  BY <1>3 DEF FollowInv, StatusOf
<1>6. \A o \in Requests : request'[o].pc = "write" /\ request'[o].via \notin {"automation", "merge"}
        => Permitted(request'[o].from, request'[o].to)
  BY <1>1 DEF FollowInv
<1> QED
  BY <1>2, <1>4, <1>5, <1>6 DEF FollowInv, Permitted, Transitions

LEMMA WriteStatusFollows ==
  ASSUME FollowInv, ClosureInv, NEW q \in Requests, WriteStatus(q)
  PROVE  FollowInv'
<1> DEFINE r == request[q]
           next == Bookkeeping(r.via, r.from, r.to)
           l == IF next = "idle" THEN IdleRequest ELSE [r EXCEPT !.pc = next, !.at = now]
<1>1. /\ r.pc = "write" /\ request' = [request EXCEPT ![q] = l] /\ UNCHANGED <<clock, faults>>
      /\ kase' = [kase EXCEPT !.status = r.to]
      /\ raced' \in BOOLEAN /\ onHold' \in BOOLEAN
  BY DEF WriteStatus
<1>2. ~ raced' =>
        /\ ~ raced /\ kase.status = r.from /\ r.via \notin {"automation", "merge"}
        /\ \A o \in Requests : ~ Keeping(o)
  BY DEF WriteStatus, FollowInv, Keeping
<1>3. onHold' <=> onHold \/ (kase.status = "PENDING" /\ r.to = "CLOSED")
  BY DEF WriteStatus, FollowInv
<1>4. next \in {"idle", "pause", "resume", "satisfy"} /\ DOMAIN r = RequestFields
  BY DEF Bookkeeping, ClosureInv, Proper
<1>5. l.pc = next
  BY <1>4 DEF IdleRequest, RequestFields
<1>6. /\ request'[q].pc = next
      /\ \A o \in Requests : o # q => request'[o] = request[o]
  BY <1>1, <1>5 DEF ClosureInv
<1>7. kase'.status = r.to /\ kase'.responded = kase.responded
      /\ {"status", "responded"} \subseteq DOMAIN kase'
  BY <1>1 DEF FollowInv
<1> HIDE DEF l
<1>8. ~ raced' => Permitted(r.from, r.to)
  BY <1>1, <1>2 DEF FollowInv
<1>9. ~ raced' =>
        /\ (next = "pause" <=> r.from # "PENDING" /\ r.to = "PENDING")
        /\ (next = "resume" <=> r.from = "PENDING" /\ r.to = "OPEN")
        /\ (next = "satisfy" <=> r.to = "RESOLVED")
        /\ (r.from = "PENDING" => r.to \in {"OPEN", "RESOLVED", "CLOSED"})
        /\ r.from # r.to
  BY <1>2, <1>8 DEF Bookkeeping, Permitted, Transitions
<1>10. \A op \in {"pause", "resume", "satisfy"} : ~ raced' => (Doing(op)' <=> next = op)
  BY <1>2, <1>6 DEF Doing, Keeping
<1> HIDE DEF next, r
<1>11. ~ raced' => OneKeeper'
  <2> SUFFICES ASSUME ~ raced' PROVE OneKeeper'
    OBVIOUS
  <2>1. \A o \in Requests : Keeping(o)' => o = q
    BY <1>2, <1>6 DEF Keeping
  <2> QED
    BY <2>1, <1>7, <1>9, <1>10 DEF OneKeeper
<1>12. ~ raced' /\ faults' = 0 => ResolutionFollows'
  <2> SUFFICES ASSUME ~ raced', faults' = 0 PROVE ResolutionFollows'
    OBVIOUS
  <2>1. ResolutionFollows /\ StatusOf("RESOLUTION")' = StatusOf("RESOLUTION")
    BY <1>1, <1>2 DEF FollowInv, StatusOf
  <2>2. ~ Doing("pause") /\ ~ Doing("resume") /\ ~ Doing("satisfy")
    BY <1>2 DEF Doing, Keeping
  <2> QED
    BY <2>1, <2>2, <1>2, <1>3, <1>7, <1>9, <1>10 DEF ResolutionFollows
<1>13. faults' = 0 /\ kase'.responded =>
         StatusOf("FIRST_RESPONSE")' # "RUNNING" \/ Doing("respond")'
  <2>1. r.pc # "respond"
    BY <1>1
  <2>2. Doing("respond") => Doing("respond")'
    BY <1>6, <2>1 DEF Doing, r
  <2> QED
    BY <1>1, <1>7, <2>2 DEF FollowInv, StatusOf
<1>14. \A o \in Requests : request'[o].pc = "write" /\ request'[o].via \notin {"automation", "merge"}
         => Permitted(request'[o].from, request'[o].to)
  BY <1>4, <1>6 DEF FollowInv
<1>15. faults' \in Nat
  BY <1>1 DEF FollowInv
<1> QED
  BY <1>1, <1>7, <1>11, <1>12, <1>13, <1>14, <1>15 DEF FollowInv, Permitted, Transitions

LEMMA CommentFollows ==
  ASSUME FollowInv, ClosureInv, NEW q \in Requests, Comment(q)
  PROVE  FollowInv'
<1> DEFINE l == [IdleRequest EXCEPT !.pc = "respond"]
<1>1. /\ request[q].pc = "idle" /\ request' = [request EXCEPT ![q] = l]
      /\ kase' = [kase EXCEPT !.responded = TRUE]
      /\ UNCHANGED <<clock, raced, onHold, faults>>
  BY DEF Comment, Start, history
<1>2. /\ request'[q].pc = "respond"
      /\ \A o \in Requests : o # q => request'[o] = request[o]
  BY <1>1 DEF ClosureInv, IdleRequest
<1>3. {"status", "responded"} \subseteq DOMAIN kase' /\ kase'.status = kase.status
  BY <1>1 DEF FollowInv
<1> HIDE DEF l
<1>4. \A op \in {"pause", "resume", "satisfy"} : Doing(op)' <=> Doing(op)
  BY <1>1, <1>2 DEF Doing
<1>5. ~ raced' => OneKeeper'
  BY <1>1, <1>2, <1>3, <1>4 DEF FollowInv, OneKeeper, Keeping
<1>6. ~ raced' /\ faults' = 0 => ResolutionFollows'
  BY <1>1, <1>3, <1>4 DEF FollowInv, ResolutionFollows, StatusOf
<1>7. Doing("respond")'
  BY <1>2 DEF Doing
<1> QED
  BY <1>1, <1>2, <1>3, <1>5, <1>6, <1>7 DEF FollowInv, Permitted, Transitions

(* A request that ends with the status of its clock as it should be.       *)
LEMMA KeeperEnds ==
  ASSUME FollowInv, ClosureInv, NEW q \in Requests, Done(q),
         request[q].pc \in {"pause", "resume", "satisfy", "respond"},
         UNCHANGED <<kase, raced, onHold, faults>>,
         \A m \in Metrics : m # MetricOf(request[q].pc) => StatusOf(m)' = StatusOf(m),
         request[q].pc = "pause" => StatusOf("RESOLUTION")' # "RUNNING",
         request[q].pc = "resume" => StatusOf("RESOLUTION")' # "PAUSED",
         request[q].pc = "satisfy" => StatusOf("RESOLUTION")' \notin {"RUNNING", "PAUSED"},
         request[q].pc = "respond" => StatusOf("FIRST_RESPONSE")' # "RUNNING"
  PROVE  FollowInv'
<1>1. /\ request'[q].pc = "idle"
      /\ \A o \in Requests : o # q => request'[o] = request[o]
  BY DEF Done, ClosureInv, IdleRequest
<1>2. ~ raced' => OneKeeper'
  BY <1>1 DEF FollowInv, OneKeeper, Keeping, Doing
<1>3. \A op : request[q].pc # op /\ Doing(op) => Doing(op)'
  BY <1>1 DEF Doing
<1>4. /\ request[q].pc = "respond" => StatusOf("RESOLUTION")' = StatusOf("RESOLUTION")
      /\ request[q].pc # "respond" => StatusOf("FIRST_RESPONSE")' = StatusOf("FIRST_RESPONSE")
  BY DEF MetricOf, Metrics
<1>5. ~ raced' /\ faults' = 0 => ResolutionFollows'
  <2> SUFFICES ASSUME ~ raced', faults' = 0 PROVE ResolutionFollows'
    OBVIOUS
  <2>1. OneKeeper /\ ResolutionFollows
    BY DEF FollowInv
  <2>2. CASE request[q].pc = "respond"
    BY <1>3, <1>4, <2>1, <2>2 DEF ResolutionFollows
  <2>3. CASE request[q].pc = "pause"
    <3>1. kase.status = "PENDING"
      BY <2>1, <2>3 DEF OneKeeper, Doing
    <3> QED
      BY <2>3, <3>1 DEF ResolutionFollows
  <2>4. CASE request[q].pc = "resume"
    <3>1. kase.status = "OPEN"
      BY <2>1, <2>4 DEF OneKeeper, Doing
    <3> QED
      BY <2>4, <3>1 DEF ResolutionFollows
  <2>5. CASE request[q].pc = "satisfy"
    <3>1. kase.status = "RESOLVED"
      BY <2>1, <2>5 DEF OneKeeper, Doing
    <3> QED
      BY <2>5, <3>1 DEF ResolutionFollows
  <2> QED
    BY <2>2, <2>3, <2>4, <2>5
<1>6. faults' = 0 /\ kase'.responded =>
        StatusOf("FIRST_RESPONSE")' # "RUNNING" \/ Doing("respond")'
  BY <1>3, <1>4 DEF FollowInv
<1> QED
  BY <1>1, <1>2, <1>5, <1>6 DEF FollowInv, Permitted, Transitions

LEMMA FindClockFollows ==
  ASSUME FollowInv, ClosureInv, NEW q \in Requests, FindClock(q)
  PROVE  FollowInv'
<1> DEFINE op == request[q].pc  c == clock[MetricOf(op)]
<1>1. /\ op \in {"pause", "resume", "satisfy", "respond"}
      /\ UNCHANGED <<kase, clock, raced, onHold, faults>>
      /\ IF c.status \in Wanted(op) THEN request' = [request EXCEPT ![q].row = c] ELSE Done(q)
  BY DEF FindClock, desk, history
<1>2. CASE c.status \in Wanted(op)
  <2>1. DOMAIN request[q] = RequestFields
    BY DEF ClosureInv, Proper
  <2>2. \A o \in Requests :
          request'[o].pc = request[o].pc /\ (o # q => request'[o] = request[o])
    BY <1>1, <1>2, <2>1 DEF ClosureInv, RequestFields
  <2>3. \A x : Doing(x)' <=> Doing(x)
    BY <2>2 DEF Doing
  <2>4. ~ raced' => OneKeeper'
    BY <1>1, <2>2, <2>3 DEF FollowInv, OneKeeper, Keeping
  <2>5. ~ raced' /\ faults' = 0 => ResolutionFollows'
    BY <1>1, <2>3 DEF FollowInv, ResolutionFollows, StatusOf
  <2>6. faults' = 0 /\ kase'.responded =>
          StatusOf("FIRST_RESPONSE")' # "RUNNING" \/ Doing("respond")'
    BY <1>1, <2>3 DEF FollowInv, StatusOf
  <2> QED
    BY <1>1, <2>2, <2>4, <2>5, <2>6 DEF FollowInv, Permitted, Transitions
<1>3. CASE c.status \notin Wanted(op)
  <2>1. \A m \in Metrics : StatusOf(m)' = StatusOf(m)
    BY <1>1 DEF StatusOf
  <2>2. /\ op = "pause" => StatusOf("RESOLUTION")' # "RUNNING"
        /\ op = "resume" => StatusOf("RESOLUTION")' # "PAUSED"
        /\ op = "satisfy" => StatusOf("RESOLUTION")' \notin {"RUNNING", "PAUSED"}
        /\ op = "respond" => StatusOf("FIRST_RESPONSE")' # "RUNNING"
    BY <1>1, <1>3 DEF StatusOf, Wanted, MetricOf
  <2> QED
    BY <1>1, <1>3, <2>1, <2>2, KeeperEnds
<1> QED
  BY <1>2, <1>3

LEMMA WriteClockFollows ==
  ASSUME FollowInv, ClosureInv, TellInv, NEW q \in Requests, WriteClock(q)
  PROVE  FollowInv'
<1>0. MetricOf(request[q].pc) \in Metrics
  BY DEF MetricOf, Metrics
<1> PICK m \in Metrics : m = MetricOf(request[q].pc)
  BY <1>0
<1> DEFINE op == request[q].pc
           w == Written(op, request[q].row, request[q].at, clock[m])
<1>1. /\ op \in {"pause", "resume", "satisfy", "respond"} /\ Done(q)
      /\ clock' = [clock EXCEPT ![m] = w]
      /\ UNCHANGED <<kase, raced, onHold, faults>>
  BY DEF WriteClock
<1>2. /\ m \in Metrics /\ (m = "FIRST_RESPONSE" <=> op = "respond") /\ m \in {"FIRST_RESPONSE", "RESOLUTION"}
      /\ DOMAIN clock = Metrics /\ "status" \in DOMAIN clock[m]
  BY DEF MetricOf, Metrics, TellInv
<1>3. /\ op = "pause" => w.status = "PAUSED"
      /\ op = "resume" => w.status = "RUNNING"
      /\ op \in {"satisfy", "respond"} => w.status = "SATISFIED"
  <2>1. CASE op = "pause"
    BY <1>2, <2>1 DEF Written
  <2>2. CASE op = "resume"
    BY <1>2, <2>2 DEF Written
  <2>3. CASE op = "satisfy"
    BY <1>2, <2>3 DEF Written
  <2>4. CASE op = "respond"
    BY <1>2, <2>4 DEF Written
  <2> QED
    BY <1>1, <2>1, <2>2, <2>3, <2>4
<1> HIDE DEF w
<1>4. clock'[m] = w /\ \A o \in Metrics : o # m => clock'[o] = clock[o]
  BY <1>1, <1>2
<1>5. /\ \A o \in Metrics : o # m => StatusOf(o)' = StatusOf(o)
      /\ StatusOf(m)' = w.status
  BY <1>4 DEF StatusOf
<1>6. /\ op = "pause" => StatusOf("RESOLUTION")' # "RUNNING"
      /\ op = "resume" => StatusOf("RESOLUTION")' # "PAUSED"
      /\ op = "satisfy" => StatusOf("RESOLUTION")' \notin {"RUNNING", "PAUSED"}
      /\ op = "respond" => StatusOf("FIRST_RESPONSE")' # "RUNNING"
  BY <1>2, <1>3, <1>5
<1> QED
  BY <1>1, <1>5, <1>6, KeeperEnds

(* The other steps of a request owe no clock.                              *)
LEMMA OthersFollow ==
  ASSUME FollowInv, ClosureInv, NEW q \in Requests,
         ReadCase(q) \/ RequestClosure(q) \/ CreateApproval(q) \/ Announce(q)
           \/ ReadPending(q) \/ Decide(q) \/ ReadForClosing(q) \/ RequestDies(q)
  PROVE  FollowInv'
<1>1. /\ UNCHANGED <<kase, clock, onHold>> /\ raced' \in BOOLEAN /\ (raced => raced')
      /\ faults' \in Nat /\ (faults' = 0 => faults = 0)
      /\ (request[q].pc \in {"pause", "resume", "satisfy", "respond"} => faults' # 0)
  <2>0. raced \in BOOLEAN /\ faults \in Nat
    BY DEF FollowInv
  <2>1. CASE Decide(q)
    <3>1. /\ UNCHANGED <<kase, clock, onHold, faults>> /\ request[q].pc = "decide"
          /\ raced' = (raced \/ approval[request[q].approval].status # "PENDING")
      BY <2>1 DEF Decide
    <3> QED
      BY <2>0, <3>1
  <2>2. CASE RequestDies(q)
    BY <2>0, <2>2 DEF RequestDies, desk, history
  <2>3. CASE ReadForClosing(q)
    BY <2>0, <2>3 DEF ReadForClosing, desk, history
  <2>4. CASE ReadCase(q) \/ RequestClosure(q) \/ ReadPending(q)
    BY <2>0, <2>4 DEF ReadCase, RequestClosure, ReadPending, Start, desk, history
  <2>5. CASE CreateApproval(q) \/ Announce(q)
    BY <2>0, <2>5 DEF CreateApproval, Announce, history
  <2> QED
    BY <2>1, <2>2, <2>3, <2>4, <2>5
<1>2. DOMAIN request[q] = RequestFields
  BY DEF ClosureInv, Proper
<1>3. ASSUME NEW l, request' = [request EXCEPT ![q] = l],
             l.pc \in {"idle", "create", "announce", "decide", "close"}
      PROVE  FollowInv'
  BY <1>1, <1>3, RequestOwesNothing
<1>4. ASSUME NEW l, request' = [request EXCEPT ![q] = l], l.pc = "write",
             l.via \notin {"automation", "merge"} => Permitted(l.from, l.to)
      PROVE  FollowInv'
  BY <1>1, <1>4, RequestOwesNothing
<1>5. CASE ReadCase(q)
  <2>1. PICK via \in Vias, to \in Statuses :
          /\ IF via = "merge" THEN to = "CLOSED" ELSE Permitted(kase.status, to)
          /\ request' = [request EXCEPT ![q] =
               [IdleRequest EXCEPT !.pc = "write", !.via = via, !.from = kase.status, !.to = to]]
    BY <1>5 DEF ReadCase
  <2> DEFINE l == [IdleRequest EXCEPT !.pc = "write", !.via = via, !.from = kase.status, !.to = to]
  <2>2. l.pc = "write" /\ l.via = via /\ l.from = kase.status /\ l.to = to
    BY DEF IdleRequest
  <2> HIDE DEF l
  <2> QED
    BY <1>4, <2>1, <2>2 DEF l
<1>6. CASE Announce(q) \/ RequestDies(q)
  BY <1>3, <1>6 DEF Announce, RequestDies, Done, IdleRequest
<1>7. CASE RequestClosure(q)
  <2>1. PICK u \in Users :
          request' = [request EXCEPT ![q] = [IdleRequest EXCEPT !.pc = "create", !.user = u]]
    BY <1>7 DEF RequestClosure
  <2> QED
    BY <1>3, <2>1 DEF IdleRequest
<1>8. CASE ReadPending(q)
  <2>1. PICK u \in Users, a \in Pending :
          request' = [request EXCEPT ![q] =
            [IdleRequest EXCEPT !.pc = "decide", !.user = u, !.approval = a]]
    BY <1>8 DEF ReadPending
  <2> QED
    BY <1>3, <2>1 DEF IdleRequest
<1>9. CASE CreateApproval(q)
  <2>1. request' = [request EXCEPT ![q] = [request[q] EXCEPT !.pc = "announce"]]
    BY <1>9 DEF CreateApproval, Go, ClosureInv
  <2> QED
    BY <1>2, <1>3, <2>1 DEF RequestFields
<1>10. CASE Decide(q)
  <2>1. \/ request' = [request EXCEPT ![q] = [request[q] EXCEPT !.pc = "close"]]
        \/ request' = [request EXCEPT ![q] = IdleRequest]
    BY <1>10 DEF Decide, Go, Done, ClosureInv
  <2> QED
    BY <1>2, <1>3, <2>1 DEF RequestFields, IdleRequest
<1>11. CASE ReadForClosing(q)
  <2>1. CASE Done(q)
    BY <1>3, <2>1 DEF Done, IdleRequest
  <2>2. CASE Permitted(kase.status, "CLOSED")
    <3> DEFINE l == [request[q] EXCEPT !.pc = "write", !.via = "approval",
                                       !.from = kase.status, !.to = "CLOSED"]
    <3>1. request' = [request EXCEPT ![q] = l]
      BY <1>11, <2>2 DEF ReadForClosing, ClosureInv
    <3>2. l.pc = "write" /\ l.from = kase.status /\ l.to = "CLOSED"
      BY <1>2 DEF RequestFields
    <3> HIDE DEF l
    <3> QED
      BY <1>4, <2>2, <3>1, <3>2
  <2> QED
    BY <1>11, <2>1, <2>2 DEF ReadForClosing
<1> QED
  BY <1>5, <1>6, <1>7, <1>8, <1>9, <1>10, <1>11

LEMMA StepKeepsFollowInv == FollowInv /\ ClosureInv /\ TellInv /\ [Next]_vars => FollowInv'
<1> SUFFICES ASSUME FollowInv, ClosureInv, TellInv, [Next]_vars PROVE FollowInv'
  OBVIOUS
<1>1. CASE UNCHANGED vars \/ Tick \/ ScanStep \/ (\E u \in Users : ClaimCase(u))
                          \/ \E d \in Mailers : MailStep(d)
  <2>1. /\ UNCHANGED <<request, raced, onHold>> /\ faults' \in {faults, faults + 1}
        /\ {"status", "responded"} \subseteq DOMAIN kase'
        /\ kase'.status = kase.status /\ kase'.responded = kase.responded
    BY <1>1 DEF vars, desk, history, Tick, ClaimCase, ScanStep, BeginScan, Breach, Tell,
                ListBreached, TellTeam, MarkEscalated, EndScan, ScanDies, MailStep, ListMail,
                ClaimMail, SendMail, MailerDies, FollowInv
  <2>2. \A m \in Metrics : StatusOf(m)' \in {StatusOf(m), "BREACHED"}
    <3>1. CASE Breach
      <4>1. PICK o \in scan.todo :
              clock' = [clock EXCEPT ![o].status = "BREACHED", ![o].breachedAt = scan.at]
        BY <3>1 DEF Breach
      <4> QED
        BY <4>1 DEF StatusOf, TellInv
    <3>2. CASE MarkEscalated
      BY <3>2 DEF MarkEscalated, StatusOf, TellInv
    <3>3. CASE UNCHANGED clock
      BY <3>3 DEF StatusOf
    <3> QED
      BY <1>1, <3>1, <3>2, <3>3 DEF vars, desk, Tick, ClaimCase, ScanStep, BeginScan, Tell,
        ListBreached, TellTeam, EndScan, ScanDies, MailStep, ListMail, ClaimMail, SendMail,
        MailerDies
  <2> QED
    BY <2>1, <2>2, ClocksSettle
<1>2. ASSUME NEW q \in Requests, RequestStep(q) PROVE FollowInv'
  BY <1>2, WriteStatusFollows, CommentFollows, FindClockFollows, WriteClockFollows, OthersFollow
     DEF RequestStep
<1> QED
  BY <1>1, <1>2 DEF Next

(* But for races, crashes and the writers that do not ask, a case on hold  *)
(* has no running clock, a resolved or answered one no open clock, and a   *)
(* paused clock means a hold or a closing out of one.                      *)
THEOREM ClocksFollow == Spec => []ClocksFollowCase
<1>1. FollowInv => ClocksFollowCase
  BY DEF FollowInv, ClocksFollowCase, OneKeeper, ResolutionFollows, StatusOf, Doing
<1>2. FollowInv /\ ClosureInv /\ TellInv /\ [Next]_vars => (FollowInv /\ ClosureInv /\ TellInv)'
  BY StepKeepsFollowInv, StepKeepsClosureInv, StepKeepsTellInv
<1> QED
  BY <1>1, <1>2, InitFollowInv, InitClosureInv, InitTellInv, PTL DEF Spec

-----------------------------------------------------------------------------
(* Open minutes add up over adjoining stretches of time, and any number of *)
(* them comes to pass: every day has an open tick but the holidays, of     *)
(* which there are finitely many.                                          *)

OpenIn(a, b) == {t \in a .. b - 1 : OpenAt(t)}

LEMMA OpenCounted ==
  ASSUME NEW a \in Nat, NEW b \in Nat
  PROVE  IsFiniteSet(OpenIn(a, b)) /\ BusinessBetween(a, b) = Cardinality(OpenIn(a, b))
         /\ BusinessBetween(a, b) \in Nat
<1>1. IsFiniteSet(a .. b - 1)
  BY FS_Interval
<1>2. IsFiniteSet(OpenIn(a, b))
  BY <1>1, FS_Subset DEF OpenIn
<1> QED
  BY <1>2, FS_CardinalityType DEF OpenIn, BusinessBetween

LEMMA MinutesAdd ==
  ASSUME NEW a \in Nat, NEW b \in Nat, NEW c \in Nat, a <= b, b <= c
  PROVE  BusinessBetween(a, c) = BusinessBetween(a, b) + BusinessBetween(b, c)
<1>1. OpenIn(a, c) = OpenIn(a, b) \cup OpenIn(b, c)
  BY DEF OpenIn
<1>2. OpenIn(a, b) \cap OpenIn(b, c) = {}
  BY DEF OpenIn
<1>3. /\ IsFiniteSet(OpenIn(a, b)) /\ IsFiniteSet(OpenIn(b, c))
      /\ Cardinality(OpenIn(a, b)) \in Nat /\ Cardinality(OpenIn(b, c)) \in Nat
      /\ BusinessBetween(a, c) = Cardinality(OpenIn(a, c))
      /\ BusinessBetween(a, b) = Cardinality(OpenIn(a, b))
      /\ BusinessBetween(b, c) = Cardinality(OpenIn(b, c))
  BY OpenCounted, FS_CardinalityType
<1>4. Cardinality(OpenIn(a, c)) = Cardinality(OpenIn(a, b)) + Cardinality(OpenIn(b, c))
                                  - Cardinality(OpenIn(a, b) \cap OpenIn(b, c))
  BY <1>1, <1>3, FS_Union
<1>5. Cardinality(OpenIn(a, b) \cap OpenIn(b, c)) = 0
  BY <1>2, FS_EmptySet
<1> QED
  BY <1>3, <1>4, <1>5

LEMMA MinuteByMinute ==
  ASSUME NEW a \in Nat
  PROVE  /\ BusinessBetween(a, a) = 0
         /\ BusinessBetween(a, a + 1) = IF OpenAt(a) THEN 1 ELSE 0
<1>1. OpenIn(a, a) = {} /\ OpenIn(a, a + 1) = IF OpenAt(a) THEN {a} ELSE {}
  BY DEF OpenIn
<1>2. /\ BusinessBetween(a, a) = Cardinality(OpenIn(a, a))
      /\ BusinessBetween(a, a + 1) = Cardinality(OpenIn(a, a + 1))
  BY OpenCounted
<1>3. Cardinality({}) = 0 /\ Cardinality({a}) = 1
  BY FS_EmptySet, FS_Singleton
<1> QED
  BY <1>1, <1>2, <1>3

(* Enough days bring enough open minutes.                                  *)
LEMMA DaysBringMinutes ==
  ASSUME NEW from \in Nat, NEW n \in Nat
  PROVE  BusinessBetween(from, from + Day * (n + 1 + Cardinality(Holidays))) >= n
<1> DEFINE c == Cardinality(Holidays)  until == from + Day * (n + 1 + c)  q == from \div Day
           days == (q + 1) .. (q + n + c)
<1>1. c \in Nat /\ Day \in Nat \ {0} /\ IsFiniteSet(Holidays)
  BY FS_CardinalityType, CaseAssumption
<1>2. PICK h \in 0 .. Day - 1 : h \in Hours
  BY CaseAssumption
<1>3. q \in Nat /\ Day * q <= from /\ from < Day * (q + 1)
  <2>1. q \in Nat
    BY <1>1, Z3
  <2>2. Day * q <= from
    BY <1>1, Z3
  <2>3. from < Day * (q + 1)
    BY <1>1, Z3
  <2> QED
    BY <2>1, <2>2, <2>3
<1> HIDE DEF c, q
<1>4. until \in Nat
  <2>1. Day * (n + 1 + c) \in Nat
    BY <1>1
  <2> QED
    BY <2>1
<1>5. ASSUME NEW d \in days PROVE Day * d + h \in from .. until - 1
  <2>1. d \in Nat /\ q + 1 <= d /\ d + 1 <= q + (n + 1 + c)
    BY <1>1, <1>3
  <2>2. Day * (q + 1) <= Day * d
    BY <1>1, <1>3, <2>1
  <2>3. Day * (d + 1) <= Day * (q + (n + 1 + c))
    BY <1>1, <1>3, <2>1
  <2>4. Day * (d + 1) = Day * d + Day
    BY <1>1, <2>1
  <2>5. Day * (q + (n + 1 + c)) = Day * q + Day * (n + 1 + c)
    BY <1>1, <1>3
  <2>6. Day * d \in Nat /\ Day * q \in Nat /\ Day * (n + 1 + c) \in Nat
    BY <1>1, <1>3, <2>1
  <2> QED
    BY <1>1, <1>3, <1>4, <2>2, <2>3, <2>4, <2>5, <2>6
<1>6. ASSUME NEW d \in days \ Holidays PROVE OpenAt(Day * d + h)
  <2>1. d \in Nat
    BY <1>1, <1>3
  <2>2. (Day * d + h) % Day = h /\ (Day * d + h) \div Day = d
    BY <1>1, <2>1
  <2> QED
    BY <1>2, <2>2 DEF OpenAt
<1> DEFINE f == [d \in days \ Holidays |-> Day * d + h]
<1>7. f \in [days \ Holidays -> OpenIn(from, until)]
  <2> HIDE DEF until, days
  <2> QED
    BY <1>5, <1>6 DEF OpenIn
<1>8. ASSUME NEW d \in days \ Holidays, NEW e \in days \ Holidays, f[d] = f[e] PROVE d = e
  <2>1. d \in Nat /\ e \in Nat /\ Day * d + h = Day * e + h
    BY <1>1, <1>3, <1>8
  <2> QED
    BY <1>1, <2>1
<1>9. f \in Injection(days \ Holidays, OpenIn(from, until))
  BY <1>7, <1>8 DEF Injection, IsInjective
<1>10. IsFiniteSet(days) /\ Cardinality(days) = n + c
  <2>1. IsFiniteSet(days) /\ Cardinality(days) = IF q + 1 > q + n + c THEN 0 ELSE q + n + c - (q + 1) + 1
    BY <1>1, <1>3, FS_Interval
  <2> HIDE DEF days
  <2> QED
    BY <1>1, <1>3, <2>1
<1> HIDE DEF f, days, until
<1>11. Cardinality(days \ Holidays) <= BusinessBetween(from, until)
  BY <1>4, <1>9, OpenCounted, FS_Injection
<1>12. /\ Cardinality(days \ Holidays) = Cardinality(days) - Cardinality(days \cap Holidays)
       /\ Cardinality(days \cap Holidays) <= c /\ Cardinality(days \cap Holidays) \in Nat
  BY <1>1, <1>10, FS_Difference, FS_Intersection, FS_CardinalityType DEF c
<1>13. BusinessBetween(from, until) >= n
  <2>1. BusinessBetween(from, until) \in Nat
    BY <1>4, OpenCounted
  <2> QED
    BY <1>1, <1>10, <1>11, <1>12, <2>1
<1> QED
  BY <1>13 DEF until, c

LEMMA LeastOf ==
  ASSUME NEW S, S \subseteq Nat, S # {}
  PROVE  Min(S) \in S /\ \A x \in S : Min(S) <= x
<1> DEFINE R == OpToRel(<, Nat)
<1>1. IsWellFoundedOn(R, Nat) /\ R = {p \in Nat \X Nat : p[1] < p[2]}
  BY NatLessThanWellFounded DEF OpToRel
<1> HIDE DEF R
<1>2. PICK m \in S : \A x \in S : ~ (<<x, m>> \in R)
  BY <1>1, WFMin
<1>3. ASSUME NEW x \in S PROVE m <= x
  <2>1. x \in Nat /\ m \in Nat /\ <<x, m>> \in Nat \X Nat /\ <<x, m>>[1] = x /\ <<x, m>>[2] = m
    OBVIOUS
  <2> QED
    BY <1>1, <1>2, <2>1
<1> QED
  BY <1>2, <1>3 DEF Min

(* addBusinessMinutes finds a moment, and it is the right one.             *)
LEMMA MinutesAreAdded ==
  ASSUME NEW from \in Nat, NEW n \in Nat
  PROVE  /\ AddBusiness(from, n) \in Nat /\ from <= AddBusiness(from, n)
         /\ BusinessBetween(from, AddBusiness(from, n)) = n
<1> DEFINE until == from + Day * (n + 1 + Cardinality(Holidays))
           S == {t \in from .. until : BusinessBetween(from, t) >= n}
           T == {t \in from .. until : BusinessBetween(from, t) = n}
           m == Min(S)
<1>1. until \in Nat /\ from <= until
  <2>1. Cardinality(Holidays) \in Nat /\ Day \in Nat
    BY FS_CardinalityType, CaseAssumption
  <2>2. Day * (n + 1 + Cardinality(Holidays)) \in Nat
    BY <2>1
  <2> QED
    BY <2>2
<1>2. BusinessBetween(from, until) >= n
  BY DaysBringMinutes
<1>3. AddBusiness(from, n) = Min(T)
  BY DEF AddBusiness
<1> HIDE DEF until
<1>4. m \in S /\ \A x \in S : m <= x
  <2>1. S \subseteq Nat /\ until \in S
    BY <1>1, <1>2
  <2> QED
    BY <2>1, LeastOf
<1> HIDE DEF m
<1>5. BusinessBetween(from, m) = n
  <2>1. m \in Nat /\ from <= m /\ m <= until /\ BusinessBetween(from, m) >= n
        /\ BusinessBetween(from, m) \in Nat
    BY <1>1, <1>4, OpenCounted
  <2>2. CASE m = from
    BY <2>1, <2>2, MinuteByMinute
  <2>3. CASE m # from
    <3>1. m - 1 \in Nat /\ from <= m - 1 /\ m - 1 <= until /\ (m - 1) + 1 = m
      BY <1>1, <2>1, <2>3
    <3>2. m - 1 \notin S
      BY <1>4, <2>1, <3>1
    <3>3. BusinessBetween(from, m - 1) < n /\ BusinessBetween(from, m - 1) \in Nat
      BY <1>1, <3>1, <3>2, OpenCounted
    <3>4. BusinessBetween(from, m) = BusinessBetween(from, m - 1) + BusinessBetween(m - 1, m)
      BY <2>1, <3>1, MinutesAdd
    <3>5. BusinessBetween(m - 1, m) \in {0, 1}
      BY <3>1, MinuteByMinute
    <3> QED
      BY <2>1, <3>3, <3>4, <3>5
  <2> QED
    BY <2>2, <2>3
<1>6. T \subseteq Nat /\ m \in T
  BY <1>1, <1>4, <1>5
<1>7. Min(T) \in T
  BY <1>6, LeastOf
<1> QED
  BY <1>1, <1>3, <1>7

(* addBusinessMinutes (business-hours.util.ts) yields the first moment by  *)
(* which so many open minutes have passed, however many closed days lie    *)
(* between.                                                                *)
THEOREM DueTimeIsFirst ==
  ASSUME NEW from \in Nat, NEW n \in Nat
  PROVE  /\ AddBusiness(from, n) \in Nat /\ from <= AddBusiness(from, n)
         /\ BusinessBetween(from, AddBusiness(from, n)) = n
         /\ \A t \in Nat : from <= t /\ t < AddBusiness(from, n) => BusinessBetween(from, t) < n
<1> DEFINE until == from + Day * (n + 1 + Cardinality(Holidays))
           T == {t \in from .. until : BusinessBetween(from, t) = n}
           m == AddBusiness(from, n)
<1>1. m \in Nat /\ from <= m /\ BusinessBetween(from, m) = n
  BY MinutesAreAdded
<1>2. until \in Nat /\ from <= until
  <2>1. Cardinality(Holidays) \in Nat /\ Day \in Nat
    BY FS_CardinalityType, CaseAssumption
  <2>2. Day * (n + 1 + Cardinality(Holidays)) \in Nat
    BY <2>1
  <2> QED
    BY <2>2
<1>3. m = Min(T)
  BY DEF AddBusiness
<1>4. T # {}
  <2>1. BusinessBetween(from, until) >= n
    BY DaysBringMinutes
  <2> HIDE DEF until
  <2>2. CASE m <= until
    BY <1>1, <2>2, <1>2
  <2>3. CASE m > until
    <3>1. BusinessBetween(from, m) = BusinessBetween(from, until) + BusinessBetween(until, m)
          /\ BusinessBetween(until, m) \in Nat /\ BusinessBetween(from, until) \in Nat
      BY <1>1, <1>2, <2>3, MinutesAdd, OpenCounted
    <3>2. BusinessBetween(from, until) = n
      BY <1>1, <2>1, <3>1
    <3> QED
      BY <1>2, <3>2
  <2> QED
    BY <1>1, <1>2, <2>2, <2>3
<1> HIDE DEF until, m
<1>5. m \in T /\ \A x \in T : m <= x
  BY <1>2, <1>3, <1>4, LeastOf
<1>6. ASSUME NEW t \in Nat, from <= t, t < m PROVE BusinessBetween(from, t) < n
  <2>1. m \in Nat /\ t <= m
    BY <1>1, <1>6
  <2>2. BusinessBetween(from, m) = BusinessBetween(from, t) + BusinessBetween(t, m)
    BY <1>6, <2>1, MinutesAdd
  <2>3. BusinessBetween(t, m) \in Nat /\ BusinessBetween(from, t) \in Nat
    BY <2>1, OpenCounted
  <2>4. t \notin T
    BY <1>1, <1>5, <1>6
  <2>5. BusinessBetween(from, t) # n
    BY <1>1, <1>2, <1>5, <1>6, <2>4
  <2> QED
    BY <1>1, <2>2, <2>3, <2>5
<1> QED
  BY <1>1, <1>6 DEF m

(* However a target is cut up by holds, its parts fall due when the whole  *)
(* of it would: adding minutes to a due time that was itself computed      *)
(* (sla-clock.util.ts, resume) loses no minute.                            *)
THEOREM DueTimesAddUp ==
  ASSUME NEW from \in Nat, NEW n \in Nat, NEW k \in Nat
  PROVE  AddBusiness(AddBusiness(from, n), k) = AddBusiness(from, n + k)
<1>1. PICK s, a, b : s = AddBusiness(from, n) /\ a = AddBusiness(s, k) /\ b = AddBusiness(from, n + k)
  OBVIOUS
<1>2. s \in Nat /\ from <= s /\ BusinessBetween(from, s) = n
      /\ \A t \in Nat : from <= t /\ t < s => BusinessBetween(from, t) < n
  BY <1>1, DueTimeIsFirst
<1>3. a \in Nat /\ s <= a /\ BusinessBetween(s, a) = k
      /\ \A t \in Nat : s <= t /\ t < a => BusinessBetween(s, t) < k
  BY <1>1, <1>2, DueTimeIsFirst
<1>4. b \in Nat /\ from <= b /\ BusinessBetween(from, b) = n + k
      /\ \A t \in Nat : from <= t /\ t < b => BusinessBetween(from, t) < n + k
  <2>1. n + k \in Nat
    OBVIOUS
  <2> QED
    BY <1>1, <2>1, DueTimeIsFirst
<1>5. BusinessBetween(from, a) = n + k
  BY <1>2, <1>3, MinutesAdd
<1>6. ~ (a < b)
  BY <1>2, <1>3, <1>4, <1>5
<1>7. ~ (b < a)
  <2> SUFFICES ASSUME b < a PROVE FALSE
    OBVIOUS
  <2>1. s <= b
    BY <1>2, <1>4
  <2>2. BusinessBetween(from, b) = n + BusinessBetween(s, b) /\ BusinessBetween(s, b) \in Nat
    BY <1>2, <1>4, <2>1, MinutesAdd, OpenCounted
  <2>3. BusinessBetween(s, b) < k
    BY <1>3, <1>4, <2>1
  <2> QED
    BY <1>4, <2>2, <2>3
<1> QED
  BY <1>1, <1>3, <1>4, <1>6, <1>7

-----------------------------------------------------------------------------
(* The exact clock.  A request under way has the time it started at, for   *)
(* no request spans a tick, and the row it holds is of the status it       *)
(* looked for; so the clock it writes back, if still that row, is on time. *)

ClockFields == {"status", "due", "pausedAt", "breachedAt", "escalated"}

OnTime(c) ==
  /\ c.due \in Nat
  /\ c.status = "RUNNING" => BusinessBetween(0, c.due) = Target["RESOLUTION"] + held
  /\ c.status = "PAUSED" =>
       /\ c.pausedAt \in 0 .. now
       /\ BusinessBetween(0, c.due) + BusinessBetween(c.pausedAt, now)
            = Target["RESOLUTION"] + held
  /\ c.status = "BREACHED" =>
       c.breachedAt \in Nat /\ BusinessBetween(0, c.breachedAt) >= Target["RESOLUTION"] + held

Fresh(r) ==
  /\ r.pc \in {"pause", "resume", "satisfy"} => r.at = now
  /\ r.pc \notin {"pause", "resume", "satisfy", "respond"} => r.row = None
  /\ r.pc = "pause" /\ r.row # None => r.row.status = "RUNNING"
  /\ r.pc = "resume" /\ r.row # None => r.row.status = "PAUSED"

ExactInv ==
  /\ now \in Nat /\ held \in Nat /\ scan.at \in Nat /\ overtaken \in BOOLEAN
  /\ \A m \in Metrics : DOMAIN clock[m] = ClockFields
  /\ \A q \in Requests : Fresh(request[q])
  /\ ~ overtaken => OnTime(clock["RESOLUTION"])

LEMMA TargetsAreNumbers == "RESOLUTION" \in Metrics /\ \A m \in Metrics : Target[m] \in Nat
BY CaseAssumption DEF Metrics

LEMMA InitExactInv == Init => ExactInv
<1> SUFFICES ASSUME Init PROVE ExactInv
  OBVIOUS
<1>1. /\ now = 0 /\ held = 0 /\ scan.at = 0 /\ overtaken = FALSE
      /\ \A q \in Requests : request[q] = IdleRequest
      /\ clock \in {[m \in Metrics |-> NewClock(m)], [m \in Metrics |-> NoClock]}
  BY DEF Init, IdleScan
<1>2. \A m \in Metrics : DOMAIN NewClock(m) = ClockFields /\ DOMAIN NoClock = ClockFields
  BY DEF NewClock, NoClock, ClockFields
<1>3. Fresh(IdleRequest)
  BY DEF Fresh, IdleRequest
<1>4. OnTime(NewClock("RESOLUTION"))
  <2> DEFINE d == AddBusiness(0, Target["RESOLUTION"])
  <2>1. d \in Nat /\ BusinessBetween(0, d) = Target["RESOLUTION"] /\ Target["RESOLUTION"] \in Nat
    BY MinutesAreAdded, TargetsAreNumbers
  <2>2. NewClock("RESOLUTION").due = d /\ NewClock("RESOLUTION").status = "RUNNING"
    BY DEF NewClock
  <2> HIDE DEF d
  <2> QED
    BY <1>1, <2>1, <2>2 DEF OnTime
<1>5. OnTime(NoClock)
  BY DEF OnTime, NoClock
<1>6. clock["RESOLUTION"] \in {NewClock("RESOLUTION"), NoClock}
      /\ \A m \in Metrics : clock[m] \in {NewClock(m), NoClock}
  BY <1>1, TargetsAreNumbers
<1>7. OnTime(clock["RESOLUTION"]) /\ \A q \in Requests : Fresh(request[q])
  BY <1>1, <1>3, <1>4, <1>5, <1>6
<1>8. \A m \in Metrics : DOMAIN clock[m] = ClockFields
  BY <1>2, <1>6
<1>9. now \in Nat /\ held \in Nat /\ scan.at \in Nat
  BY <1>1
<1>10. overtaken \in BOOLEAN
  BY <1>1, Zenon
<1> QED
  BY <1>7, <1>8, <1>9, <1>10 DEF ExactInv

(* Nothing that a clock's exactness depends on moves.                      *)
LEMMA ExactStays ==
  ASSUME ExactInv, UNCHANGED <<now, held, overtaken>>, scan'.at \in Nat,
         \A m \in Metrics : DOMAIN clock'[m] = ClockFields,
         ~ overtaken => OnTime(clock["RESOLUTION"])',
         \A q \in Requests : Fresh(request'[q])
  PROVE  ExactInv'
BY DEF ExactInv, Fresh

LEMMA RequestTurns ==
  ASSUME ExactInv, ClosureInv, NEW q \in Requests, NEW l, request' = [request EXCEPT ![q] = l],
         Fresh(l), UNCHANGED <<clock, now, held, scan, overtaken>>
  PROVE  ExactInv'
<1>1. \A o \in Requests : Fresh(request'[o])
  BY DEF ExactInv, ClosureInv
<1>2. ~ overtaken => OnTime(clock["RESOLUTION"])'
  BY DEF ExactInv, OnTime
<1> QED
  BY <1>1, <1>2, ExactStays DEF ExactInv

LEMMA TickIsExact == ExactInv /\ Tick => ExactInv'
<1> SUFFICES ASSUME ExactInv, Tick PROVE ExactInv'
  OBVIOUS
<1> DEFINE c == clock["RESOLUTION"]
<1>1. /\ now' = now + 1 /\ now \in Nat /\ held \in Nat
      /\ held' = IF c.status = "PAUSED" /\ OpenAt(now) THEN held + 1 ELSE held
      /\ UNCHANGED <<clock, request, scan, overtaken>>
      /\ \A q \in Requests : request[q].pc = "idle"
  BY DEF Tick, desk, ExactInv
<1>2. \A q \in Requests : Fresh(request[q])'
  BY <1>1 DEF ExactInv, Fresh
<1>3. ASSUME ~ overtaken PROVE OnTime(c)'
  <2>1. OnTime(c) /\ Target["RESOLUTION"] \in Nat
    BY <1>3, TargetsAreNumbers DEF ExactInv
  <2>2. CASE c.status = "PAUSED"
    <3>1. c.pausedAt \in Nat /\ c.pausedAt <= now /\ c.due \in Nat
      BY <1>1, <2>1, <2>2 DEF OnTime
    <3>2. BusinessBetween(c.pausedAt, now + 1)
            = BusinessBetween(c.pausedAt, now) + BusinessBetween(now, now + 1)
      BY <1>1, <3>1, MinutesAdd
    <3>3. BusinessBetween(now, now + 1) = IF OpenAt(now) THEN 1 ELSE 0
      BY <1>1, MinuteByMinute
    <3>4. /\ BusinessBetween(0, c.due) + BusinessBetween(c.pausedAt, now)
               = Target["RESOLUTION"] + held
          /\ BusinessBetween(0, c.due) \in Nat /\ BusinessBetween(c.pausedAt, now) \in Nat
      BY <1>1, <2>1, <2>2, <3>1, OpenCounted DEF OnTime
    <3>5. BusinessBetween(0, c.due) + BusinessBetween(c.pausedAt, now + 1)
            = Target["RESOLUTION"] + held'
      BY <1>1, <2>1, <2>2, <3>2, <3>3, <3>4
    <3>6. c.pausedAt \in 0 .. now'
      BY <1>1, <3>1
    <3>7. c' = c /\ now' = now + 1
      BY <1>1
    <3> HIDE DEF c
    <3> QED
      BY <2>2, <3>1, <3>5, <3>6, <3>7 DEF OnTime
  <2>3. CASE c.status # "PAUSED"
    <3>1. held' = held /\ c' = c
      BY <1>1, <2>3
    <3> HIDE DEF c
    <3> QED
      BY <2>1, <2>3, <3>1 DEF OnTime
  <2> QED
    BY <2>2, <2>3
<1>4. ~ overtaken' => OnTime(clock["RESOLUTION"])'
  BY <1>1, <1>3
<1>5. now' \in Nat /\ held' \in Nat
  BY <1>1
<1> QED
  BY <1>1, <1>2, <1>4, <1>5 DEF ExactInv

LEMMA BreachIsExact == ExactInv /\ TellInv /\ Breach => ExactInv'
<1> SUFFICES ASSUME ExactInv, TellInv, Breach PROVE ExactInv'
  OBVIOUS
<1>1. PICK m \in scan.todo :
        /\ clock' = [clock EXCEPT ![m].status = "BREACHED", ![m].breachedAt = scan.at]
        /\ overtaken' = (overtaken \/ clock[m].status # "RUNNING" \/ clock[m].due > scan.at)
        /\ scan' = [scan EXCEPT !.pc = "tell", !.metric = m, !.todo = @ \ {m}]
  BY DEF Breach
<1>2. /\ UNCHANGED <<now, held, request>> /\ m \in Metrics /\ DOMAIN clock = Metrics
      /\ scan'.at = scan.at /\ scan.at \in Nat
  BY <1>1 DEF Breach, TellInv, ExactInv
<1>3. /\ DOMAIN clock[m] = ClockFields
      /\ clock'[m] = [clock[m] EXCEPT !.status = "BREACHED", !.breachedAt = scan.at]
      /\ \A o \in Metrics : o # m => clock'[o] = clock[o]
  BY <1>1, <1>2 DEF ExactInv
<1>4. /\ clock'[m].status = "BREACHED" /\ clock'[m].breachedAt = scan.at
      /\ clock'[m].due = clock[m].due /\ DOMAIN clock'[m] = ClockFields
  BY <1>3 DEF ClockFields
<1>5. \A o \in Metrics : DOMAIN clock'[o] = ClockFields
  BY <1>3, <1>4 DEF ExactInv
<1>6. overtaken \in BOOLEAN
  BY DEF ExactInv
<1>7. overtaken' \in BOOLEAN
  BY <1>1, <1>6
<1>8. ~ overtaken' => ~ overtaken /\ clock[m].status = "RUNNING" /\ ~ (clock[m].due > scan.at)
  BY <1>1, <1>6
<1>9. ASSUME ~ overtaken' PROVE OnTime(clock["RESOLUTION"])'
  <2> DEFINE c == clock["RESOLUTION"]
  <2>1. OnTime(c) /\ Target["RESOLUTION"] \in Nat /\ held \in Nat
    BY <1>8, <1>9, TargetsAreNumbers DEF ExactInv
  <2>2. CASE m # "RESOLUTION"
    <3>1. c' = c
      BY <1>3, <2>2, TargetsAreNumbers
    <3> HIDE DEF c
    <3> QED
      BY <1>2, <2>1, <3>1 DEF OnTime, c
  <2>3. CASE m = "RESOLUTION"
    <3>1. c.due \in Nat /\ c.due <= scan.at /\ BusinessBetween(0, c.due) = Target["RESOLUTION"] + held
      BY <1>2, <1>8, <1>9, <2>1, <2>3 DEF OnTime
    <3>2. BusinessBetween(0, scan.at) = BusinessBetween(0, c.due) + BusinessBetween(c.due, scan.at)
      BY <1>2, <3>1, MinutesAdd
    <3>3. BusinessBetween(c.due, scan.at) \in Nat
      BY <1>2, <3>1, OpenCounted
    <3>4. BusinessBetween(0, scan.at) >= Target["RESOLUTION"] + held
      BY <2>1, <3>1, <3>2, <3>3
    <3>5. c'.status = "BREACHED" /\ c'.breachedAt = scan.at /\ c'.due = c.due
      BY <1>4, <2>3
    <3> HIDE DEF c
    <3> QED
      BY <1>2, <3>1, <3>4, <3>5 DEF OnTime, c
  <2> QED
    BY <2>2, <2>3
<1>10. \A q \in Requests : Fresh(request[q])'
  BY <1>2 DEF ExactInv, Fresh
<1> QED
  BY <1>2, <1>5, <1>7, <1>9, <1>10 DEF ExactInv

LEMMA IdleIsFresh == Fresh(IdleRequest)
BY DEF Fresh, IdleRequest

LEMMA WriteStatusIsExact ==
  ASSUME ExactInv, ClosureInv, NEW q \in Requests, WriteStatus(q)
  PROVE  ExactInv'
<1> DEFINE r == request[q]
           next == Bookkeeping(r.via, r.from, r.to)
           l == IF next = "idle" THEN IdleRequest ELSE [r EXCEPT !.pc = next, !.at = now]
<1>1. /\ r.pc = "write" /\ request' = [request EXCEPT ![q] = l]
      /\ UNCHANGED <<clock, now, held, scan, overtaken>>
  BY DEF WriteStatus
<1>2. /\ next \in {"idle", "pause", "resume", "satisfy"} /\ DOMAIN r = RequestFields
      /\ r.row = None
  BY <1>1 DEF Bookkeeping, ClosureInv, Proper, ExactInv, Fresh
<1>3. Fresh(l)
  <2>1. CASE next = "idle"
    BY <2>1, IdleIsFresh
  <2>2. CASE next # "idle"
    <3>1. l.pc = next /\ l.at = now /\ l.row = None
      BY <1>2, <2>2 DEF RequestFields
    <3> HIDE DEF l, next
    <3> QED
      BY <1>2, <2>2, <3>1 DEF Fresh
  <2> QED
    BY <2>1, <2>2
<1> HIDE DEF l
<1> QED
  BY <1>1, <1>3, RequestTurns

LEMMA FindClockIsExact ==
  ASSUME ExactInv, ClosureInv, NEW q \in Requests, FindClock(q)
  PROVE  ExactInv'
<1> DEFINE r == request[q]  c == clock[MetricOf(r.pc)]  l == [r EXCEPT !.row = c]
<1>1. /\ r.pc \in {"pause", "resume", "satisfy", "respond"}
      /\ UNCHANGED <<clock, now, held, scan, overtaken>>
      /\ IF c.status \in Wanted(r.pc) THEN request' = [request EXCEPT ![q].row = c] ELSE Done(q)
  BY DEF FindClock, desk, history
<1>2. CASE c.status \in Wanted(r.pc)
  <2>1. DOMAIN r = RequestFields /\ Fresh(r)
    BY DEF ClosureInv, Proper, ExactInv
  <2>2. request' = [request EXCEPT ![q] = l]
    BY <1>1, <1>2 DEF ClosureInv
  <2>3. l.pc = r.pc /\ l.at = r.at /\ l.row = c
    BY <2>1 DEF RequestFields
  <2>4. Fresh(l)
    <3> HIDE DEF l, c, r
    <3> QED
      BY <1>1, <1>2, <2>1, <2>3 DEF Fresh, Wanted
  <2> HIDE DEF l
  <2> QED
    BY <1>1, <2>2, <2>4, RequestTurns
<1>3. CASE Done(q)
  BY <1>1, <1>3, IdleIsFresh, RequestTurns DEF Done
<1> QED
  BY <1>1, <1>2, <1>3

LEMMA WriteClockIsExact ==
  ASSUME ExactInv, ClosureInv, TellInv, NEW q \in Requests, WriteClock(q)
  PROVE  ExactInv'
<1>0. MetricOf(request[q].pc) \in Metrics
  BY DEF MetricOf, Metrics
<1> PICK m \in Metrics : m = MetricOf(request[q].pc)
  BY <1>0
<1> DEFINE r == request[q]  op == r.pc  c == clock[m]  w == Written(op, r.row, r.at, c)
<1>1. /\ op \in {"pause", "resume", "satisfy", "respond"} /\ r.row # None /\ Done(q)
      /\ clock' = [clock EXCEPT ![m] = w]
      /\ overtaken' = (overtaken \/ c # r.row)
      /\ UNCHANGED <<now, held, scan>>
  BY DEF WriteClock
<1>2. /\ (m = "RESOLUTION" <=> op # "respond") /\ DOMAIN clock = Metrics
      /\ DOMAIN c = ClockFields /\ Fresh(r)
  BY DEF MetricOf, Metrics, TellInv, ExactInv
<1>3. /\ DOMAIN w = ClockFields
      /\ op = "pause" => w.status = "PAUSED" /\ w.pausedAt = r.at /\ w.due = c.due
      /\ op = "resume" => /\ w.status = "RUNNING"
                          /\ w.due = AddBusiness(r.row.due, BusinessBetween(r.row.pausedAt, r.at))
      /\ op = "satisfy" => w.status = "SATISFIED" /\ w.due = c.due
  <2> HIDE DEF c
  <2>1. CASE op = "pause"
    BY <1>2, <2>1 DEF Written, ClockFields
  <2>2. CASE op = "resume"
    BY <1>2, <2>2 DEF Written, ClockFields
  <2>3. CASE op = "satisfy"
    BY <1>2, <2>3 DEF Written, ClockFields
  <2>4. CASE op = "respond"
    BY <1>2, <2>4 DEF Written, ClockFields
  <2> QED
    BY <1>1, <2>1, <2>2, <2>3, <2>4
<1> HIDE DEF w
<1>4. clock'[m] = w /\ \A o \in Metrics : o # m => clock'[o] = clock[o]
  BY <1>1, <1>2
<1>5. overtaken \in BOOLEAN
  BY DEF ExactInv
<1>6. overtaken' \in BOOLEAN
  BY <1>1, <1>5
<1>7. ~ overtaken' => ~ overtaken /\ c = r.row
  BY <1>1, <1>5
<1>8. ASSUME ~ overtaken' PROVE OnTime(clock["RESOLUTION"])'
  <2>1. /\ now \in Nat /\ held \in Nat /\ OnTime(clock["RESOLUTION"])
        /\ Target["RESOLUTION"] \in Nat
    BY <1>7, <1>8, TargetsAreNumbers DEF ExactInv
  <2>2. CASE op = "respond"
    <3>1. clock'["RESOLUTION"] = clock["RESOLUTION"]
      BY <1>2, <1>4, <2>2, TargetsAreNumbers
    <3> QED
      BY <1>1, <2>1, <3>1 DEF OnTime
  <2>3. ASSUME op # "respond"
        PROVE  m = "RESOLUTION" /\ clock'["RESOLUTION"] = w /\ OnTime(c) /\ c = r.row
    BY <1>2, <1>4, <1>7, <1>8, <2>1, <2>3
  <2>4. CASE op = "pause"
    <3>1. /\ c.status = "RUNNING" /\ r.at = now /\ c.due \in Nat
          /\ BusinessBetween(0, c.due) = Target["RESOLUTION"] + held
      BY <1>1, <1>2, <2>3, <2>4 DEF Fresh, OnTime
    <3>2. BusinessBetween(now, now) = 0
      BY <2>1, MinuteByMinute
    <3>3. BusinessBetween(0, c.due) + BusinessBetween(now, now) = Target["RESOLUTION"] + held
      BY <2>1, <3>1, <3>2
    <3>4. w.status = "PAUSED" /\ w.pausedAt = now /\ w.due = c.due /\ now \in 0 .. now
      BY <1>3, <2>1, <2>4, <3>1
    <3>5. clock'["RESOLUTION"] = w /\ now' = now /\ held' = held
      BY <1>1, <2>3, <2>4
    <3> HIDE DEF c, op, r
    <3> QED
      BY <3>1, <3>3, <3>4, <3>5 DEF OnTime
  <2>5. CASE op = "resume"
    <3> DEFINE p == c.pausedAt  n == BusinessBetween(p, now)
    <3>1. /\ c.status = "PAUSED" /\ r.at = now /\ c.due \in Nat /\ p \in Nat
          /\ BusinessBetween(0, c.due) + n = Target["RESOLUTION"] + held
      BY <1>1, <1>2, <2>1, <2>3, <2>5 DEF Fresh, OnTime
    <3>2. n \in Nat
      BY <2>1, <3>1, OpenCounted
    <3>3. w.status = "RUNNING" /\ w.due = AddBusiness(c.due, n)
      BY <1>3, <2>3, <2>5, <3>1
    <3> HIDE DEF p, n
    <3>4. w.due \in Nat /\ c.due <= w.due /\ BusinessBetween(c.due, w.due) = n
      BY <3>1, <3>2, <3>3, MinutesAreAdded
    <3>5. BusinessBetween(0, w.due) = BusinessBetween(0, c.due) + BusinessBetween(c.due, w.due)
      BY <3>1, <3>4, MinutesAdd
    <3>6. BusinessBetween(0, w.due) = Target["RESOLUTION"] + held
      BY <3>1, <3>4, <3>5
    <3>7. clock'["RESOLUTION"] = w /\ held' = held
      BY <1>1, <2>3, <2>5
    <3> HIDE DEF c, op, r
    <3> QED
      BY <3>3, <3>4, <3>6, <3>7 DEF OnTime
  <2>6. CASE op = "satisfy"
    <3>1. w.status = "SATISFIED" /\ w.due = c.due /\ c.due \in Nat
      BY <1>3, <2>3, <2>6 DEF OnTime
    <3>2. clock'["RESOLUTION"] = w
      BY <2>3, <2>6
    <3> HIDE DEF c, op, r
    <3> QED
      BY <3>1, <3>2 DEF OnTime
  <2> QED
    BY <1>1, <2>2, <2>4, <2>5, <2>6
<1>9. \A o \in Requests : Fresh(request[o])'
  <2>1. \A o \in Requests : request'[o] \in {request[o], IdleRequest}
    BY <1>1 DEF Done, ClosureInv
  <2>2. \A o \in Requests : Fresh(request'[o])
    BY <2>1, IdleIsFresh DEF ExactInv
  <2> QED
    BY <1>1, <2>2 DEF Fresh
<1>10. \A o \in Metrics : DOMAIN clock'[o] = ClockFields
  BY <1>3, <1>4 DEF ExactInv
<1>11. now' \in Nat /\ held' \in Nat /\ scan'.at \in Nat
  BY <1>1 DEF ExactInv
<1> QED
  BY <1>6, <1>8, <1>9, <1>10, <1>11 DEF ExactInv

(* The other steps of a request.                                           *)
LEMMA OthersAreExact ==
  ASSUME ExactInv, ClosureInv, NEW q \in Requests,
         ReadCase(q) \/ Comment(q) \/ RequestClosure(q) \/ CreateApproval(q) \/ Announce(q)
           \/ ReadPending(q) \/ Decide(q) \/ ReadForClosing(q) \/ RequestDies(q)
  PROVE  ExactInv'
<1>1. UNCHANGED <<clock, now, held, scan, overtaken>>
  BY DEF ReadCase, Comment, RequestClosure, CreateApproval, Announce, ReadPending, Decide,
         ReadForClosing, RequestDies, desk, history
<1>2. /\ DOMAIN request[q] = RequestFields
      /\ request[q].pc \notin {"pause", "resume", "satisfy", "respond"} => request[q].row = None
  BY DEF ClosureInv, Proper, ExactInv, Fresh
<1>3. ASSUME NEW l, request' = [request EXCEPT ![q] = l], l.row = None,
             l.pc \in {"idle", "write", "respond", "create", "announce", "decide", "close"}
      PROVE  ExactInv'
  <2>1. Fresh(l)
    BY <1>3 DEF Fresh
  <2> QED
    BY <1>1, <1>3, <2>1, RequestTurns
<1>4. CASE ReadCase(q)
  <2>1. PICK via \in Vias, to \in Statuses : request' = [request EXCEPT ![q] =
           [IdleRequest EXCEPT !.pc = "write", !.via = via, !.from = kase.status, !.to = to]]
    BY <1>4 DEF ReadCase
  <2> DEFINE l == [IdleRequest EXCEPT !.pc = "write", !.via = via, !.from = kase.status, !.to = to]
  <2>2. l.pc = "write" /\ l.row = None
    BY DEF IdleRequest
  <2>3. request' = [request EXCEPT ![q] = l]
    BY <2>1
  <2> HIDE DEF l
  <2> QED
    BY <1>3, <2>2, <2>3
<1>5. CASE Comment(q)
  <2> DEFINE l == [IdleRequest EXCEPT !.pc = "respond"]
  <2>1. l.pc = "respond" /\ l.row = None
    BY DEF IdleRequest
  <2>2. request' = [request EXCEPT ![q] = l]
    BY <1>5 DEF Comment
  <2> HIDE DEF l
  <2> QED
    BY <1>3, <2>1, <2>2
<1>6. CASE Announce(q) \/ RequestDies(q)
  BY <1>6, IdleIsFresh, <1>1, RequestTurns DEF Announce, RequestDies, Done
<1>7. CASE RequestClosure(q)
  <2>1. PICK u \in Users :
          request' = [request EXCEPT ![q] = [IdleRequest EXCEPT !.pc = "create", !.user = u]]
    BY <1>7 DEF RequestClosure
  <2> DEFINE l == [IdleRequest EXCEPT !.pc = "create", !.user = u]
  <2>2. l.pc = "create" /\ l.row = None /\ request' = [request EXCEPT ![q] = l]
    BY <2>1 DEF IdleRequest
  <2> HIDE DEF l
  <2> QED
    BY <1>3, <2>2
<1>8. CASE ReadPending(q)
  <2>1. PICK u \in Users, a \in Pending :
          request' = [request EXCEPT ![q] =
            [IdleRequest EXCEPT !.pc = "decide", !.user = u, !.approval = a]]
    BY <1>8 DEF ReadPending
  <2> DEFINE l == [IdleRequest EXCEPT !.pc = "decide", !.user = u, !.approval = a]
  <2>2. l.pc = "decide" /\ l.row = None /\ request' = [request EXCEPT ![q] = l]
    BY <2>1 DEF IdleRequest
  <2> HIDE DEF l
  <2> QED
    BY <1>3, <2>2
<1>9. ASSUME NEW pc \in {"announce", "close"}, request[q].pc \in {"create", "decide"},
             request' = [request EXCEPT ![q] = [request[q] EXCEPT !.pc = pc]]
      PROVE  ExactInv'
  <2> DEFINE l == [request[q] EXCEPT !.pc = pc]
  <2>1. l.pc = pc /\ l.row = None
    BY <1>2, <1>9 DEF RequestFields
  <2> HIDE DEF l
  <2> QED
    BY <1>3, <1>9, <2>1 DEF l
<1>10. CASE CreateApproval(q) \/ Decide(q)
  <2>1. CASE Done(q)
    BY <1>1, <2>1, IdleIsFresh, RequestTurns DEF Done
  <2>2. CASE ~ Done(q)
    <3>1. /\ \E pc \in {"announce", "close"} :
               request' = [request EXCEPT ![q] = [request[q] EXCEPT !.pc = pc]]
          /\ request[q].pc \in {"create", "decide"}
      BY <1>10, <2>2 DEF CreateApproval, Decide, Go, ClosureInv
    <3> QED
      BY <1>9, <3>1
  <2> QED
    BY <2>1, <2>2
<1>11. CASE ReadForClosing(q)
  <2>1. CASE Done(q)
    BY <1>1, <2>1, IdleIsFresh, RequestTurns DEF Done
  <2>2. CASE ~ Done(q)
    <3> DEFINE l == [request[q] EXCEPT !.pc = "write", !.via = "approval",
                                       !.from = kase.status, !.to = "CLOSED"]
    <3>1. request' = [request EXCEPT ![q] = l] /\ request[q].pc = "close"
      BY <1>11, <2>2 DEF ReadForClosing, ClosureInv
    <3>2. l.pc = "write" /\ l.row = None
      BY <1>2, <3>1 DEF RequestFields
    <3> HIDE DEF l
    <3> QED
      BY <1>3, <3>1, <3>2
  <2> QED
    BY <2>1, <2>2
<1> QED
  BY <1>4, <1>5, <1>6, <1>7, <1>8, <1>10, <1>11

LEMMA StepKeepsExactInv == ExactInv /\ ClosureInv /\ TellInv /\ [Next]_vars => ExactInv'
<1> SUFFICES ASSUME ExactInv, ClosureInv, TellInv, [Next]_vars PROVE ExactInv'
  OBVIOUS
<1> DEFINE Untouched == UNCHANGED <<now, clock, request, held, overtaken>> /\ scan'.at \in Nat
<1>1. CASE Untouched
  BY <1>1 DEF ExactInv, Fresh, OnTime
<1>2. CASE UNCHANGED vars \/ (\E u \in Users : ClaimCase(u)) \/ \E d \in Mailers : MailStep(d)
  <2>1. Untouched
    BY <1>2 DEF vars, desk, history, ClaimCase, MailStep, ListMail, ClaimMail, SendMail,
                MailerDies, ExactInv
  <2> QED
    BY <1>1, <2>1
<1>3. CASE BeginScan \/ Tell \/ ListBreached \/ TellTeam \/ EndScan \/ ScanDies
  <2>1. UNCHANGED <<now, clock, request, held, overtaken>>
    BY <1>3 DEF BeginScan, Tell, ListBreached, TellTeam, EndScan, ScanDies, desk, history
  <2>2. scan'.at \in Nat
    <3>1. now \in Nat /\ scan.at \in Nat /\ "at" \in DOMAIN scan
      BY DEF ExactInv, TellInv
    <3>2. scan'.at \in {0, now, scan.at}
      <4>1. CASE BeginScan
        BY <4>1 DEF BeginScan, IdleScan
      <4>2. CASE EndScan \/ ScanDies
        BY <4>2 DEF EndScan, ScanDies, IdleScan
      <4>3. CASE Tell \/ ListBreached \/ TellTeam
        BY <3>1, <4>3 DEF Tell, ListBreached, TellTeam
      <4> QED
        BY <1>3, <4>1, <4>2, <4>3
    <3> QED
      BY <3>1, <3>2
  <2> QED
    BY <1>1, <2>1, <2>2
<1>4. CASE MarkEscalated
  <2>1. /\ clock' = [clock EXCEPT ![scan.metric].escalated = TRUE]
        /\ scan' = [scan EXCEPT !.metric = None]
        /\ UNCHANGED <<now, request, held, overtaken>>
    BY <1>4 DEF MarkEscalated, history
  <2>2. /\ scan'.at \in Nat
        /\ \A m \in Metrics : /\ DOMAIN clock'[m] = ClockFields
                              /\ clock'[m].status = clock[m].status /\ clock'[m].due = clock[m].due
                              /\ clock'[m].pausedAt = clock[m].pausedAt
                              /\ clock'[m].breachedAt = clock[m].breachedAt
    BY <2>1 DEF ExactInv, TellInv, ClockFields
  <2> QED
    BY <2>1, <2>2, TargetsAreNumbers, ExactStays DEF ExactInv, OnTime
<1>5. ASSUME NEW q \in Requests, RequestStep(q) PROVE ExactInv'
  BY <1>5, WriteStatusIsExact, FindClockIsExact, WriteClockIsExact, OthersAreExact DEF RequestStep
<1> QED
  BY <1>2, <1>3, <1>4, <1>5, TickIsExact, BreachIsExact DEF Next, ScanStep

(* Unless a stale row was written back, the resolution clock falls due     *)
(* after the target's open minutes and those it was on hold, to the        *)
(* minute, whatever the calendar, and is never breached before.            *)
THEOREM SlaClockIsExact == Spec => []SlaExact
<1>1. ExactInv => SlaExact
  BY DEF ExactInv, SlaExact, OnTime
<1>2. ExactInv /\ ClosureInv /\ TellInv /\ [Next]_vars => (ExactInv /\ ClosureInv /\ TellInv)'
  BY StepKeepsExactInv, StepKeepsClosureInv, StepKeepsTellInv
<1> QED
  BY <1>1, <1>2, InitExactInv, InitClosureInv, InitTellInv, PTL DEF Spec

=============================================================================
