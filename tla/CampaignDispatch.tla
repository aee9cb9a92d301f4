-------------------------- MODULE CampaignDispatch --------------------------
(***************************************************************************)
(* One marketing campaign: the worker that materialises its recipients and *)
(* drains them (dispatch.job.ts), the job that decides an A/B test         *)
(* (ab-test-resolve.job.ts), the administrators' endpoints                 *)
(* (campaigns.controller.ts) and the provider's receipts                   *)
(* (campaign-webhooks.controller.ts).                                      *)
(*                                                                         *)
(* Every query is a step of its own, so a worker that awaits a mail, an    *)
(* administrator who pauses and a receipt meet in any order.  The ad-hoc   *)
(* jobs of the API share the poll's queue and add only speed to it.  What  *)
(* a message says is left out; the rate a variant reached is a fraction.   *)
(***************************************************************************)
EXTENDS FiniteSetsExt, AbSplit

CONSTANTS
  Contacts,    \* contacts, numbered by id
  Kinds,       \* campaigns as they may be created
  SplitPercents, \* splitPercent of each variant
  Segments,    \* audiences the segment's filters may select
  Pollers,     \* consumers of the campaign-dispatch queue
  Resolvers,   \* consumers of the campaign-ab-test-resolve queue
  Admins,      \* requests to the campaign endpoints handled at a time
  Hooks,       \* receipts handled at a time
  Ops,         \* what administrators do
  Receipts,    \* what providers report
  MaxRequests, \* bound: requests of administrators
  MaxReceipts, \* bound: receipts
  MaxLeaves,   \* bound: contacts unsubscribing by the link
  MaxFaults,   \* bound: crashes and refused mails
  None         \* a null column

Variants == 1 .. Len(SplitPercents)

(* create refuses a test without variants or without a metric.             *)
Kind == {k \in [ab : BOOLEAN, metric : BOOLEAN, variants : BOOLEAN,
                dynamic : BOOLEAN, sms : BOOLEAN, sample : 0 .. 100] :
           k.ab => k.metric /\ k.variants}
Workers == Pollers \cup Resolvers
Deciders == Resolvers \cup Admins

Reached == {"SENT", "DELIVERED", "OPENED", "CLICKED", "BOUNCED"}
RowStatuses == Reached \cup {"PENDING", "QUEUED", "FAILED", "UNSUBSCRIBED"}
Recipient == [status : RowStatuses, variant : Variants \cup {0}, id : BOOLEAN]

ASSUME CampaignAssumption ==
  /\ IsFiniteSet(Contacts) /\ Contacts \subseteq Nat
  /\ Kinds \subseteq Kind /\ Segments \subseteq SUBSET Contacts
  /\ Ops \subseteq {"schedule", "send", "pause", "resume", "cancel", "edit", "decide"}
  /\ Receipts \subseteq {"DELIVERED", "OPENED", "CLICKED", "BOUNCED", "FAILED"}
  /\ MaxRequests \in Nat /\ MaxReceipts \in Nat /\ MaxLeaves \in Nat /\ MaxFaults \in Nat
  /\ SplitPercents \in Seq(Nat) /\ None \notin Nat /\ None \notin Recipient
  /\ Pollers \cap Resolvers = {} /\ Admins \cap Workers = {}

VARIABLES
  kind,        \* segment, channel, variants and sample size, fixed
  campaign,    \* the row of campaigns
  rows,        \* campaign_recipients, one per contact at most
  suppressed,  \* contacts in campaign_suppressions
  work,        \* what each worker and administrator is doing
  hook,        \* what each receipt handler is doing
  used,        \* how much of each bound is used
  mailed,      \* history: messages a worker handed over per contact since it came up
  frozen,      \* history: the audience of the first materialisation
  checked,     \* history: workers past the suppression check when the contact left
  wronged,     \* history: contacts mailed after they had left, and checked after
  stopped,     \* history: a pause or cancellation stands that no one revoked
  undone,      \* history: ... but a worker's status write replaced it
  after        \* history: messages each worker sent since the stop

ledger  == <<rows, suppressed>>
history == <<mailed, frozen, checked, wronged, stopped, undone, after>>
vars == <<kind, campaign, ledger, work, hook, used, history>>

IdleWork == [pc |-> "idle", op |-> None, copy |-> None, fill |-> {}, left |-> {}, at |-> None,
             winner |-> None]
IdleHook == [pc |-> "idle", contact |-> None, event |-> None, seen |-> None]

Init ==
  /\ kind \in Kinds
  /\ campaign = [status |-> "DRAFT", due |-> FALSE, ab |-> kind.ab, metric |-> kind.metric,
                 sample |-> "unsent", winner |-> None]
  /\ rows = [c \in Contacts |-> None]
  /\ suppressed = {}
  /\ work = [w \in Workers \cup Admins |-> IdleWork]
  /\ hook = [h \in Hooks |-> IdleHook]
  /\ used = [requests |-> 0, receipts |-> 0, leaves |-> 0, faults |-> 0]
  /\ mailed = [w \in Workers |-> [c \in Contacts |-> 0]]
  /\ frozen = None
  /\ checked = [c \in Contacts |-> {}]
  /\ wronged = {}
  /\ stopped = FALSE /\ undone = FALSE
  /\ after = [w \in Workers |-> 0]

Become(w, local) == work' = [work EXCEPT ![w] = local]
Goto(w, pc) == Become(w, [work[w] EXCEPT !.pc = pc])
Spend(bound) == used' = [used EXCEPT ![bound] = @ + 1]
RowsWith(status) == {c \in Contacts : rows[c] # None /\ rows[c].status = status}
Unstarted == \A c \in Contacts : rows[c] = None

-----------------------------------------------------------------------------
(* dispatchCampaign.                                                       *)

(* The campaign is read once; what follows uses this copy.                 *)
Begin(w) ==
  /\ \/ w \in Pollers /\ work[w].pc = "idle" /\ campaign.status \in {"SCHEDULED", "SENDING"}
     \/ w \in Resolvers /\ work[w].pc = "dispatch"
  /\ Become(w, [IdleWork EXCEPT !.copy = campaign, !.pc =
       CASE campaign.status \notin {"SCHEDULED", "SENDING"} -> "idle"
         [] campaign.status = "SENDING" -> IF kind.dynamic THEN "audience" ELSE "drain"
         [] OTHER -> IF kind.dynamic THEN "open" ELSE "audience"])
  /\ UNCHANGED <<kind, campaign, ledger, hook, used, history>>

AfterFill == IF kind.dynamic THEN "drain" ELSE "open"

(* The variant each contact of an audience is given; 0 is none.            *)
Assignments(audience, ab) ==
  {<<c, IF ab THEN SplitContact(Cardinality(audience),
                                Cardinality({o \in audience : o <= c}),
                                SplitPercents, kind.sample)
        ELSE 0>> : c \in audience}

(* materializeIfEmpty: nothing if there are rows; else the segment's       *)
(* contacts that are not suppressed now.                                   *)
ReadAudience(w) ==
  /\ work[w].pc = "audience"
  /\ \E segment \in Segments :
       LET audience == IF Unstarted THEN segment \ suppressed ELSE {} IN
       /\ Become(w, [work[w] EXCEPT !.fill = Assignments(audience, work[w].copy.ab /\ kind.variants),
                                   !.pc = "fill"])
       /\ frozen' = IF frozen = None /\ audience # {} THEN audience ELSE frozen
  /\ UNCHANGED <<kind, campaign, ledger, hook, used, mailed, checked, wronged, stopped, undone, after>>

(* One row at a time; the unique dedupeKey refuses a second one.           *)
CreateRecipient(w) ==
  /\ work[w].pc = "fill"
  /\ \E a \in work[w].fill :
       /\ \A o \in work[w].fill : a[1] <= o[1]
       /\ rows' = IF rows[a[1]] # None THEN rows
                  ELSE [rows EXCEPT ![a[1]] = [status |-> "PENDING", variant |-> a[2], id |-> FALSE]]
       /\ Become(w, [work[w] EXCEPT !.fill = @ \ {a}])
  /\ UNCHANGED <<kind, campaign, suppressed, hook, used, history>>

Filled(w) ==
  /\ work[w].pc = "fill" /\ work[w].fill = {}
  /\ Goto(w, AfterFill)
  /\ UNCHANGED <<kind, campaign, ledger, hook, used, history>>

Undo(status) == undone' = (undone \/ (stopped /\ campaign.status # status))

(* The due date is the copy's, the write to SENDING unconditional.         *)
Open(w) ==
  /\ work[w].pc = "open"
  /\ IF work[w].copy.due
     THEN /\ campaign' = [campaign EXCEPT !.status = "SENDING"]
          /\ Undo("SENDING")
          /\ Goto(w, IF kind.dynamic THEN "audience" ELSE "drain")
     ELSE /\ Become(w, IdleWork)
          /\ UNCHANGED <<campaign, undone>>
  /\ UNCHANGED <<kind, ledger, hook, used, mailed, frozen, checked, wronged, stopped, after>>

-----------------------------------------------------------------------------
(* drainRecipients.                                                        *)

(* The PENDING rows are listed once; the held-back ones are passed over.   *)
ListPending(w) ==
  /\ work[w].pc = "drain"
  /\ Become(w, [work[w] EXCEPT !.pc = "next", !.left =
       {c \in RowsWith("PENDING") : work[w].copy.ab => rows[c].variant # 0}])
  /\ UNCHANGED <<kind, campaign, ledger, hook, used, history>>

(* Fault: the status is not looked at again between two messages.          *)
TrustCopiedStatus(w) ==
  /\ work[w].pc = "next"
  /\ IF work[w].left = {}
     THEN Goto(w, "close")
     ELSE \E c \in work[w].left :
            Become(w, [work[w] EXCEPT !.pc = "vet", !.at = c, !.left = @ \ {c}])
  /\ UNCHANGED <<kind, campaign, ledger, hook, used, history>>

(* The status is read afresh before each recipient.                        *)
NextRecipient(w) ==
  /\ work[w].pc = "next"
  /\ IF work[w].left = {} \/ campaign.status # "SENDING"
     THEN Become(w, [work[w] EXCEPT !.pc = "close", !.left = {}, !.at = None])
     ELSE \E c \in work[w].left :
            Become(w, [work[w] EXCEPT !.pc = "vet", !.at = c, !.left = @ \ {c}])
  /\ UNCHANGED <<kind, campaign, ledger, hook, used, history>>

NextUp(w) == Become(w, [work[w] EXCEPT !.pc = "next", !.at = None])
Mark(c, status) == rows' = [rows EXCEPT ![c].status = status]

(* Fault: who had left when the audience was taken was filtered then.      *)
VetOnceOnly(w) ==
  LET c == work[w].at IN
  /\ work[w].pc = "vet"
  /\ IF kind.sms THEN Mark(c, "QUEUED") /\ NextUp(w)
     ELSE Goto(w, "send") /\ UNCHANGED rows
  /\ UNCHANGED <<kind, campaign, suppressed, hook, used, history>>

(* The suppression list is read afresh before each message.  SMS is not    *)
(* sent, only queued.                                                      *)
Vet(w) ==
  LET c == work[w].at IN
  /\ work[w].pc = "vet"
  /\ IF c \in suppressed THEN Mark(c, "UNSUBSCRIBED") /\ NextUp(w)
     ELSE IF kind.sms THEN Mark(c, "QUEUED") /\ NextUp(w)
     ELSE Goto(w, "send") /\ UNCHANGED rows
  /\ UNCHANGED <<kind, campaign, suppressed, hook, used, history>>

Send(w) ==
  LET c == work[w].at IN
  /\ work[w].pc = "send"
  /\ mailed' = [mailed EXCEPT ![w][c] = @ + 1]
  /\ after' = [after EXCEPT ![w] = IF stopped THEN @ + 1 ELSE @]
  /\ wronged' = IF c \in suppressed /\ w \notin checked[c] THEN wronged \cup {c} ELSE wronged
  /\ Goto(w, "sent")
  /\ UNCHANGED <<kind, campaign, ledger, hook, used, frozen, checked, stopped, undone>>

(* Fault: the row is left for the provider's receipt to update.            *)
RecordLater(w) ==
  /\ work[w].pc = "sent"
  /\ rows' = [rows EXCEPT ![work[w].at].id = TRUE]
  /\ NextUp(w)
  /\ UNCHANGED <<kind, campaign, suppressed, hook, used, history>>

RecordSent(w) ==
  /\ work[w].pc = "sent"
  /\ rows' = [rows EXCEPT ![work[w].at].status = "SENT", ![work[w].at].id = TRUE]
  /\ NextUp(w)
  /\ UNCHANGED <<kind, campaign, suppressed, hook, used, history>>

(* No template, contact or address; the mail is refused; or it went out    *)
(* and its row could not be updated: FAILED, and on to the next.           *)
RecordFailed(w) ==
  /\ work[w].pc \in {"vet", "send", "sent"} /\ used.faults < MaxFaults
  /\ Mark(work[w].at, "FAILED")
  /\ Spend("faults")
  /\ NextUp(w)
  /\ UNCHANGED <<kind, campaign, suppressed, hook, history>>

(* Fault: recipients held back do not keep the campaign open.              *)
CloseWithHeldBack(w) ==
  LET pending == {c \in RowsWith("PENDING") : rows[c].variant # 0} IN
  /\ work[w].pc = "close"
  /\ IF campaign.status = "SENDING" /\ pending = {}
     THEN Goto(w, "finish") ELSE Become(w, IdleWork)
  /\ UNCHANGED <<kind, campaign, ledger, hook, used, history>>

(* Fault: the decision is not looked at, only that there is a test.        *)
CloseSampleOnly(w) ==
  LET pending == {c \in RowsWith("PENDING") : work[w].copy.ab => rows[c].variant # 0} IN
  /\ work[w].pc = "close"
  /\ IF \/ campaign.status # "SENDING" \/ pending # {}
        \/ work[w].copy.ab /\ campaign.sample # "unsent"
     THEN Become(w, IdleWork)
     ELSE Goto(w, IF work[w].copy.ab THEN "sampled" ELSE "finish")
  /\ UNCHANGED <<kind, campaign, ledger, hook, used, history>>

(* Status and counts are read; an undecided test closes its sample only.   *)
Close(w) ==
  LET sampling == work[w].copy.ab /\ work[w].copy.winner = None
      pending == {c \in RowsWith("PENDING") : sampling => rows[c].variant # 0}
  IN
  /\ work[w].pc = "close"
  /\ IF \/ campaign.status # "SENDING" \/ pending # {}
        \/ sampling /\ campaign.sample # "unsent"
     THEN Become(w, IdleWork)
     ELSE Goto(w, IF sampling THEN "sampled" ELSE "finish")
  /\ UNCHANGED <<kind, campaign, ledger, hook, used, history>>

Sampled(w) ==
  /\ work[w].pc = "sampled"
  /\ campaign' = [campaign EXCEPT !.sample = "sent"]
  /\ Become(w, IdleWork)
  /\ UNCHANGED <<kind, ledger, hook, used, history>>

FinishCampaign(w) ==
  /\ work[w].pc = "finish"
  /\ campaign' = [campaign EXCEPT !.status = "SENT",
                                 !.sample = IF @ = "unsent" THEN "sent" ELSE @]
  /\ Undo("SENT")
  /\ Become(w, IdleWork)
  /\ UNCHANGED <<kind, ledger, hook, used, mailed, frozen, checked, wronged, stopped, after>>

-----------------------------------------------------------------------------
(* runAbTestResolve, and POST :id/ab-test/decide-winner, which differ in   *)
(* whether 24 hours have to pass and in who drains afterwards.             *)

WindowPasses ==
  /\ campaign.ab /\ campaign.sample = "sent"
  /\ campaign' = [campaign EXCEPT !.sample = "aged"]
  /\ UNCHANGED <<kind, ledger, work, hook, used, history>>

(* A test without a metric or without variants is passed over.             *)
Judgeable == campaign.metric /\ kind.variants

JudgeTest(w) ==
  /\ w \in Resolvers /\ work[w].pc = "idle"
  /\ campaign.ab /\ campaign.winner = None /\ campaign.sample = "aged" /\ Judgeable
  /\ Goto(w, "compare")
  /\ UNCHANGED <<kind, campaign, ledger, hook, used, history>>

CountBy(v, statuses) ==
  Cardinality({c \in Contacts : rows[c] # None /\ rows[c].variant = v /\ rows[c].status \in statuses})
CurrentWinner ==
  Winner([v \in Variants |-> CountBy(v, Reached)],
         [v \in Variants |-> CountBy(v, {"OPENED", "CLICKED"})])

(* Fault: a winner is taken although nothing was sent.                     *)
CompareAnyway(w) ==
  /\ work[w].pc = "compare"
  /\ Become(w, [work[w] EXCEPT !.pc = "decide", !.winner = CurrentWinner])
  /\ UNCHANGED <<kind, campaign, ledger, hook, used, history>>

Compare(w) ==
  /\ work[w].pc = "compare"
  /\ Become(w, IF CurrentWinner = 0 THEN IdleWork
               ELSE [work[w] EXCEPT !.pc = "decide", !.winner = CurrentWinner])
  /\ UNCHANGED <<kind, campaign, ledger, hook, used, history>>

Decide(w) ==
  /\ work[w].pc = "decide"
  /\ campaign' = [campaign EXCEPT !.winner = work[w].winner]
  /\ Goto(w, IF w \in Admins /\ kind.sample = 100 THEN "assign" ELSE "heldback")
  /\ UNCHANGED <<kind, ledger, hook, used, history>>

ListHeldBack(w) ==
  /\ work[w].pc = "heldback"
  /\ Become(w, [work[w] EXCEPT !.pc = "assign",
                  !.left = {c \in RowsWith("PENDING") : rows[c].variant = 0}])
  /\ UNCHANGED <<kind, campaign, ledger, hook, used, history>>

AssignWinner(w) ==
  /\ work[w].pc = "assign" /\ work[w].left # {}
  /\ LET c == Min(work[w].left) IN
     /\ rows' = [rows EXCEPT ![c].variant = work[w].winner]
     /\ Become(w, [work[w] EXCEPT !.left = @ \ {c}])
  /\ UNCHANGED <<kind, campaign, suppressed, hook, used, history>>

Decided(w) ==
  /\ work[w].pc = "assign" /\ work[w].left = {}
  /\ Become(w, IF w \in Resolvers THEN [IdleWork EXCEPT !.pc = "dispatch"] ELSE IdleWork)
  /\ UNCHANGED <<kind, campaign, ledger, hook, used, history>>

-----------------------------------------------------------------------------
(* campaigns.controller.ts: the status is checked when it is read and      *)
(* replaced, unconditionally, in a second query.  An edit, unlike create,  *)
(* takes the test and its metric as they come.                             *)

Allowed(op) ==
  CASE op \in {"schedule", "send"} -> campaign.status \in {"DRAFT", "SCHEDULED"}
    [] op = "pause"  -> campaign.status \in {"SENDING", "SCHEDULED"}
    [] op = "resume" -> campaign.status = "PAUSED"
    [] op = "cancel" -> campaign.status \notin {"SENT", "CANCELLED"}
    [] op = "edit"   -> campaign.status \notin {"SENDING", "SENT"}
    [] op = "decide" -> campaign.ab /\ campaign.winner = None /\ Judgeable

Request(a, op) ==
  /\ a \in Admins /\ work[a].pc = "idle"
  /\ used.requests < MaxRequests /\ Allowed(op)
  /\ Spend("requests")
  /\ Become(a, [IdleWork EXCEPT !.op = op, !.pc =
       CASE op = "decide" -> "compare" [] op = "resume" -> "count" [] OTHER -> "write"])
  /\ UNCHANGED <<kind, campaign, ledger, hook, history>>

(* resume goes back to draining if there are recipients by then.           *)
CountRecipients(a) ==
  /\ work[a].pc = "count"
  /\ Become(a, [work[a] EXCEPT !.pc = "write", !.op = IF Unstarted THEN @ ELSE "resume draining"])
  /\ UNCHANGED <<kind, campaign, ledger, hook, used, history>>

WriteCampaign(a) ==
  LET op == work[a].op IN
  /\ work[a].pc = "write"
  /\ \E ab, metric \in BOOLEAN : campaign' =
       CASE op = "schedule" -> [campaign EXCEPT !.status = "SCHEDULED", !.due = FALSE]
         [] op \in {"send", "resume"} -> [campaign EXCEPT !.status = "SCHEDULED", !.due = TRUE]
         [] op = "resume draining" -> [campaign EXCEPT !.status = "SENDING"]
         [] op = "pause"  -> [campaign EXCEPT !.status = "PAUSED"]
         [] op = "cancel" -> [campaign EXCEPT !.status = "CANCELLED"]
         [] op = "edit"   -> [campaign EXCEPT !.ab = ab, !.metric = metric]
  /\ stopped' = (op \in {"pause", "cancel"} \/ (op = "edit" /\ stopped))
  /\ undone' = (op = "edit" /\ undone)
  /\ after' = IF op = "edit" THEN after ELSE [w \in Workers |-> 0]
  /\ Become(a, IdleWork)
  /\ UNCHANGED <<kind, ledger, hook, used, mailed, frozen, checked, wronged>>

DateComes ==
  /\ campaign.status = "SCHEDULED" /\ ~ campaign.due
  /\ campaign' = [campaign EXCEPT !.due = TRUE]
  /\ UNCHANGED <<kind, ledger, work, hook, used, history>>

-----------------------------------------------------------------------------
(* The provider's receipts and the unsubscribe link.                       *)

Suppress(c) ==
  /\ suppressed' = suppressed \cup {c}
  /\ checked' = IF c \in suppressed THEN checked
                ELSE [checked EXCEPT ![c] = {w \in Workers : work[w].pc = "send" /\ work[w].at = c}]

Unsubscribe(c) ==
  /\ used.leaves < MaxLeaves /\ c \notin suppressed
  /\ Suppress(c) /\ Spend("leaves")
  /\ UNCHANGED <<kind, campaign, rows, work, hook, mailed, frozen, wronged, stopped, undone, after>>

FunnelRank(status) ==
  CASE status = "DELIVERED" -> 1 [] status = "OPENED" -> 2 [] status = "CLICKED" -> 3
    [] OTHER -> 0
Funnel == {"DELIVERED", "OPENED", "CLICKED"}

(* Fault: a receipt counts unless it repeats the last one.                 *)
ReceiveAnyOrder(h, c, e) ==
  /\ hook[h].pc = "idle" /\ used.receipts < MaxReceipts
  /\ rows[c] # None /\ rows[c].id
  /\ Spend("receipts")
  /\ hook' = [hook EXCEPT ![h] =
       IF e \in Funnel /\ e = rows[c].status THEN IdleHook
       ELSE [pc |-> "write", contact |-> c, event |-> e, seen |-> rows[c].status]]
  /\ UNCHANGED <<kind, campaign, ledger, work, history>>

(* A receipt finds its row by the message id.  One that comes before the   *)
(* id is stored finds none and leaves no trace.                            *)
Receive(h, c, e) ==
  /\ hook[h].pc = "idle" /\ used.receipts < MaxReceipts
  /\ rows[c] # None /\ rows[c].id
  /\ Spend("receipts")
  /\ hook' = [hook EXCEPT ![h] =
       IF e \in Funnel /\ FunnelRank(e) <= FunnelRank(rows[c].status) THEN IdleHook
       ELSE [pc |-> "write", contact |-> c, event |-> e, seen |-> rows[c].status]]
  /\ UNCHANGED <<kind, campaign, ledger, work, history>>

WriteReceipt(h) ==
  /\ hook[h].pc = "write"
  /\ Mark(hook[h].contact, hook[h].event)
  /\ hook' = [hook EXCEPT ![h] =
       IF hook[h].event = "BOUNCED" THEN [@ EXCEPT !.pc = "suppress"] ELSE IdleHook]
  /\ UNCHANGED <<kind, campaign, suppressed, work, used, history>>

SuppressBounced(h) ==
  /\ hook[h].pc = "suppress"
  /\ Suppress(hook[h].contact)
  /\ hook' = [hook EXCEPT ![h] = IdleHook]
  /\ UNCHANGED <<kind, campaign, rows, work, used, mailed, frozen, wronged, stopped, undone, after>>

-----------------------------------------------------------------------------
(* A worker dies; the poll or the next resolution begins afresh.           *)
Crash(w) ==
  /\ w \in Workers /\ work[w].pc # "idle" /\ used.faults < MaxFaults
  /\ Spend("faults")
  /\ Become(w, IdleWork)
  /\ mailed' = [mailed EXCEPT ![w] = [c \in Contacts |-> 0]]
  /\ UNCHANGED <<kind, campaign, ledger, hook, frozen, checked, wronged, stopped, undone, after>>

WorkerStep(w) ==
  \/ Begin(w) \/ ReadAudience(w) \/ CreateRecipient(w) \/ Filled(w) \/ Open(w)
  \/ ListPending(w) \/ NextRecipient(w) \/ Vet(w) \/ Send(w) \/ RecordSent(w)
  \/ Close(w) \/ Sampled(w) \/ FinishCampaign(w) \/ JudgeTest(w)
DecisionStep(w) ==
  \/ Compare(w) \/ Decide(w) \/ ListHeldBack(w) \/ AssignWinner(w) \/ Decided(w)
AdminStep(a) == CountRecipients(a) \/ WriteCampaign(a) \/ \E op \in Ops : Request(a, op)

Next ==
  \/ \E w \in Workers : WorkerStep(w) \/ RecordFailed(w) \/ Crash(w)
  \/ \E w \in Deciders : DecisionStep(w)
  \/ \E a \in Admins : AdminStep(a)
  \/ DateComes \/ WindowPasses
  \/ \E c \in Contacts : Unsubscribe(c) \/ \E h \in Hooks, e \in Receipts : Receive(h, c, e)
  \/ \E h \in Hooks : WriteReceipt(h) \/ SuppressBounced(h)

Spec == Init /\ [][Next]_vars

(* The poll and the resolution fire again and again and run to their end,  *)
(* a request or receipt that was accepted is handled, and time passes.     *)
Fairness ==
  /\ \A w \in Workers : WF_vars(WorkerStep(w) \/ (w \in Deciders /\ DecisionStep(w)))
  /\ \A a \in Admins : WF_vars(DecisionStep(a) \/ CountRecipients(a) \/ WriteCampaign(a))
  /\ \A h \in Hooks : WF_vars(WriteReceipt(h) \/ SuppressBounced(h))
  /\ WF_vars(DateComes \/ WindowPasses)
FairSpec == Spec /\ Fairness

-----------------------------------------------------------------------------
Statuses == {"DRAFT", "SCHEDULED", "SENDING", "PAUSED", "SENT", "CANCELLED"}
Campaign == [status : Statuses, due : BOOLEAN, ab : BOOLEAN, metric : BOOLEAN,
             sample : {"unsent", "sent", "aged"}, winner : Variants \cup {None}]
Work == [pc : {"idle", "audience", "fill", "open", "drain", "next", "vet", "send", "sent",
               "close", "sampled", "finish", "compare", "decide", "heldback", "assign",
               "dispatch", "count", "write"},
         op : Ops \cup {"resume draining", None}, copy : Campaign \cup {None},
         fill : SUBSET (Contacts \X (Variants \cup {0})), left : SUBSET Contacts,
         at : Contacts \cup {None}, winner : Variants \cup {None}]

Handling == [pc : {"idle", "write", "suppress"}, contact : Contacts \cup {None},
             event : Receipts \cup {None}, seen : RowStatuses \cup {None}]

(* Type correctness of the campaign, its rows and whatever handlers hold.  *)
TypeOK ==
  /\ kind \in Kinds /\ campaign \in Campaign
  /\ rows \in [Contacts -> Recipient \cup {None}]
  /\ suppressed \subseteq Contacts /\ wronged \subseteq Contacts
  /\ work \in [Workers \cup Admins -> Work]
  /\ hook \in [Hooks -> Handling]
  /\ used \in [{"requests", "receipts", "leaves", "faults"} -> Nat]
  /\ mailed \in [Workers -> [Contacts -> Nat]] /\ after \in [Workers -> Nat]
  /\ frozen \in (SUBSET Contacts) \cup {None}
  /\ checked \in [Contacts -> SUBSET Workers]
  /\ stopped \in BOOLEAN /\ undone \in BOOLEAN

(* A pause or cancellation that was acknowledged holds: a worker sends at  *)
(* most the message it had got to, unless its own unconditional write of   *)
(* SENDING or SENT has replaced the status (dispatch.job.ts:282).          *)
StopHolds == stopped /\ ~ undone => \A w \in Workers : after[w] <= 1

(* Nobody is mailed who had left when the worker looked for the last time: *)
(* however long the campaign was paused since its audience was taken.      *)
LeaversNotMailed == wronged = {}

(* While nobody rewrites the test under way, a campaign that says SENT has *)
(* a row for everyone in its audience, and no row waits.                   *)
EveryoneReached ==
  campaign.status = "SENT" /\ used.faults = 0 =>
    /\ RowsWith("PENDING") = {}
    /\ frozen # None => \A c \in frozen : rows[c] # None

(* No worker mails a contact twice unless it crashed in between, however   *)
(* often it lists the pending recipients: a further mail to one contact    *)
(* comes from another worker that listed the same recipient, as the poll   *)
(* and the resolution of a test may, since neither claims a recipient.     *)
OnceExplained == \A w \in Workers, c \in Contacts : mailed[w][c] <= 1

(* The sample of a test has the announced size, and each variant its share *)
(* of it to within one recipient.                                          *)
FairSample ==
  LET n == SampleSize(Cardinality(frozen), kind.sample)
      given == [v \in Variants |-> Cardinality({c \in Contacts : rows[c] # None /\ rows[c].variant = v})]
  IN
  /\ frozen # None /\ kind.ab /\ campaign.winner = None /\ used.faults = 0
  /\ \A w \in Workers : work[w].pc # "fill"
  => /\ Total(given) = n
     /\ \A v \in Variants :
          /\ Total(SplitPercents) * given[v] < n * SplitPercents[v] + Total(SplitPercents)
          /\ n * SplitPercents[v] < Total(SplitPercents) * (given[v] + 1)

(* A campaign that sends comes to an end or is stopped, unless nobody can  *)
(* decide its test: it reached nobody whose behaviour could, or an edit    *)
(* left it without a metric or enabled it on a campaign without variants   *)
(* (campaigns.controller.ts:137, ab-test-resolve.job.ts:52).               *)
Undecidable ==
  campaign.ab /\ campaign.winner = None /\ (CurrentWinner = 0 \/ ~ Judgeable)
SendingEnds ==
  (campaign.status = "SENDING" /\ used.faults = 0)
    ~> (campaign.status # "SENDING" \/ used.faults > 0 \/ Undecidable)

(* Receipts that come late or twice never take a recipient back down the   *)
(* funnel (campaign-webhooks.controller.ts:12), unless the row changed     *)
(* between the receipt's reading and its writing.                          *)
FunnelForward ==
  [][\A c \in Contacts :
       /\ rows[c] # None /\ rows'[c].status \in Funnel
       /\ FunnelRank(rows'[c].status) < FunnelRank(rows[c].status)
       => \E h \in Hooks : hook[h].contact = c /\ hook[h].seen # rows[c].status]_vars
=============================================================================
