--------------------------- MODULE CampaignProofs ---------------------------
(***************************************************************************)
(* A campaign's workers, decisions, administrators and receipts, for any   *)
(* number of each and of contacts.                                         *)
(*                                                                         *)
(* Who left, and stops: a worker on its way to a message (vetting,         *)
(* sending) has looked at the suppression list, or was on record as past   *)
(* that look when the contact left (Vetted); and it has looked at the      *)
(* campaign's status, so it was on its way before the stop and has sent    *)
(* nothing since (Halted).  Every other step leaves it alone.              *)
(*                                                                         *)
(* Types: no row goes away, so what a handler listed or found exists when  *)
(* it writes (HandsFull, ReceiptsFit).  From that: a receipt outranks what *)
(* it saw (Forward), and no worker mails a contact twice (Once).           *)
(*                                                                         *)
(* Everyone is reached: with one poller, nothing begins before the         *)
(* audience is complete (Reach).  And until a winner stands, the rows and  *)
(* those still to be created are the split's of that audience (Shared), so *)
(* the sample is what SplitProofs says of the split.                       *)
(***************************************************************************)
EXTENDS CampaignDispatch, SplitProofs

Fields == {"pc", "op", "copy", "fill", "left", "at", "winner"}
Writes == {"schedule", "send", "pause", "resume", "cancel", "edit", "resume draining"}
OnItsWay == {"vet", "send"}

(* What the argument needs of the types.                                   *)
Shape ==
  /\ DOMAIN work = Workers \cup Admins
  /\ \A w \in Workers \cup Admins :
       /\ DOMAIN work[w] = Fields
       /\ work[w].left \subseteq Contacts
       /\ work[w].pc \in OnItsWay => work[w].at \in Contacts
       /\ work[w].pc \in {"count", "write"} => work[w].op \in Writes
  /\ "status" \in DOMAIN campaign
  /\ DOMAIN checked = Contacts
  /\ after \in [Workers -> Nat]
  /\ stopped \in BOOLEAN /\ undone \in BOOLEAN

Vetted ==
  /\ wronged = {}
  /\ \A w \in Workers :
       work[w].pc = "send" /\ work[w].at \in suppressed => w \in checked[work[w].at]

Halted ==
  stopped /\ ~ undone =>
    /\ campaign.status # "SENDING"
    /\ \A w \in Workers : after[w] <= 1 /\ (work[w].pc \in OnItsWay => after[w] = 0)

CampaignInv == Shape /\ Vetted /\ Halted

(* The campaign's row and the record of its stop may change as they like,  *)
(* short of SENDING under a stop that still stands.                        *)
CampaignKept ==
  /\ "status" \in DOMAIN campaign' /\ stopped' = stopped /\ undone' \in BOOLEAN
  /\ stopped /\ ~ undone' => ~ undone /\ campaign'.status # "SENDING"

-----------------------------------------------------------------------------
LEMMA InitCampaignInv == Init => CampaignInv
<1> SUFFICES ASSUME Init PROVE CampaignInv
  OBVIOUS
<1>1. Shape
  BY DEF Init, Shape, IdleWork, Fields, OnItsWay, Workers
<1>2. Vetted
  BY DEF Init, Vetted, IdleWork, Workers
<1>3. Halted
  BY DEF Init, Halted
<1> QED
  BY <1>1, <1>2, <1>3 DEF CampaignInv

(* Whoever turns to something other than a message disturbs nothing.       *)
LEMMA TurnAway ==
  ASSUME CampaignInv, CampaignKept, NEW w \in Workers \cup Admins, NEW l,
         Become(w, l), DOMAIN l = Fields, l.left \subseteq Contacts,
         l.pc \notin OnItsWay, l.pc \in {"count", "write"} => l.op \in Writes,
         UNCHANGED <<suppressed, checked, wronged, after>>
  PROVE  CampaignInv'
<1>1. /\ DOMAIN work' = Workers \cup Admins /\ work'[w] = l
      /\ \A u \in Workers \cup Admins : u # w => work'[u] = work[u]
  BY DEF Become, CampaignInv, Shape
<1>2. Shape'
  BY <1>1 DEF CampaignInv, CampaignKept, Shape
<1>3. Vetted'
  BY <1>1 DEF CampaignInv, Vetted, OnItsWay, Workers
<1>4. Halted'
  BY <1>1 DEF CampaignInv, CampaignKept, Halted, Workers, Shape
<1> QED
  BY <1>2, <1>3, <1>4 DEF CampaignInv

(* So does a step that gives nobody anything else to do.                   *)
LEMMA Bystanders ==
  ASSUME CampaignInv, CampaignKept, UNCHANGED <<work, suppressed, checked, wronged, after>>
  PROVE  CampaignInv'
<1>1. Shape'
  BY DEF CampaignInv, CampaignKept, Shape
<1>2. Vetted'
  BY DEF CampaignInv, Vetted
<1>3. Halted'
  BY DEF CampaignInv, CampaignKept, Halted, Shape
<1> QED
  BY <1>1, <1>2, <1>3 DEF CampaignInv

LEMMA RowKept ==
  ASSUME CampaignInv, UNCHANGED <<campaign, stopped, undone>>
  PROVE  CampaignKept
BY DEF CampaignInv, Shape, Halted, CampaignKept

LEMMA IdleFields == DOMAIN IdleWork = Fields /\ IdleWork.left = {} /\ IdleWork.pc = "idle"
BY DEF IdleWork, Fields

(* Whoever leaves is put on record with the workers past their look.       *)
LEMMA SuppressKeeps ==
  ASSUME CampaignInv, NEW c, Suppress(c),
         UNCHANGED <<campaign, work, wronged, stopped, undone, after>>
  PROVE  CampaignInv'
<1>1. DOMAIN checked' = Contacts
  BY DEF CampaignInv, Shape, Suppress
<1>2. Shape' /\ Halted'
  BY <1>1 DEF CampaignInv, Shape, Halted
<1>3. Vetted'
  <2> SUFFICES ASSUME NEW w \in Workers, work[w].pc = "send", work[w].at \in suppressed'
               PROVE  w \in checked'[work[w].at]
    BY DEF CampaignInv, Vetted
  <2>1. work[w].at \in Contacts
    BY DEF CampaignInv, Shape, OnItsWay, Workers
  <2>2. CASE work[w].at \in suppressed
    BY <2>1, <2>2 DEF CampaignInv, Shape, Vetted, Suppress
  <2>3. CASE work[w].at \notin suppressed
    BY <2>1, <2>3 DEF CampaignInv, Shape, Suppress
  <2> QED
    BY <2>2, <2>3
<1> QED
  BY <1>2, <1>3 DEF CampaignInv

-----------------------------------------------------------------------------
LEMMA DispatchKeeps ==
  ASSUME CampaignInv, NEW w \in Workers, WorkerStep(w)
  PROVE  CampaignInv'
<1> USE DEF Workers
<1>0. /\ w \in Workers \cup Admins /\ DOMAIN work[w] = Fields /\ work[w].left \subseteq Contacts
      /\ (work[w].pc \in {"count", "write"} => work[w].op \in Writes)
  BY DEF CampaignInv, Shape
<1>1. CASE Begin(w)
  <2> DEFINE pc == CASE campaign.status \notin {"SCHEDULED", "SENDING"} -> "idle"
                     [] campaign.status = "SENDING" -> IF kind.dynamic THEN "audience" ELSE "drain"
                     [] OTHER -> IF kind.dynamic THEN "open" ELSE "audience"
             l == [IdleWork EXCEPT !.copy = campaign, !.pc = pc]
  <2>1. pc \in {"idle", "audience", "drain", "open"}
    OBVIOUS
  <2>2. DOMAIN l = Fields /\ l.left = {} /\ l.pc = pc
    BY DEF IdleWork, Fields
  <2>3. Become(w, l) /\ UNCHANGED <<campaign, suppressed, history>>
    BY <1>1 DEF Begin, ledger
  <2> HIDE DEF pc, l
  <2> QED
    BY <1>0, <2>1, <2>2, <2>3, TurnAway, RowKept DEF OnItsWay, history
<1>2. CASE ReadAudience(w)
  <2>1. PICK segment \in Segments :
          Become(w, [work[w] EXCEPT !.fill =
            Assignments(IF Unstarted THEN segment \ suppressed ELSE {}, work[w].copy.ab /\ kind.variants), !.pc = "fill"])
    BY <1>2 DEF ReadAudience
  <2>2. UNCHANGED <<campaign, suppressed, checked, wronged, stopped, undone, after>>
    BY <1>2 DEF ReadAudience, ledger
  <2> QED
    BY <1>0, <2>1, <2>2, TurnAway, RowKept DEF OnItsWay, Fields
<1>3. CASE CreateRecipient(w)
  <2>1. PICK a \in work[w].fill : Become(w, [work[w] EXCEPT !.fill = @ \ {a}])
    BY <1>3 DEF CreateRecipient
  <2>2. work[w].pc = "fill" /\ UNCHANGED <<campaign, suppressed, history>>
    BY <1>3 DEF CreateRecipient
  <2> QED
    BY <1>0, <2>1, <2>2, TurnAway, RowKept DEF OnItsWay, Fields, history
<1>4. CASE Filled(w)
  <2>1. AfterFill \in {"drain", "open"}
    BY DEF AfterFill
  <2>2. Become(w, [work[w] EXCEPT !.pc = AfterFill]) /\ UNCHANGED <<campaign, suppressed, history>>
    BY <1>4 DEF Filled, Goto, ledger
  <2> QED
    BY <1>0, <2>1, <2>2, TurnAway, RowKept DEF OnItsWay, Fields, history
<1>5. CASE Open(w)
  <2>1. UNCHANGED <<suppressed, checked, wronged, stopped, after>>
    BY <1>5 DEF Open, ledger
  <2>2. CASE work[w].copy.due
    <3>1. /\ campaign' = [campaign EXCEPT !.status = "SENDING"] /\ Undo("SENDING")
          /\ Become(w, [work[w] EXCEPT !.pc = IF kind.dynamic THEN "audience" ELSE "drain"])
      BY <1>5, <2>2 DEF Open, Goto
    <3>2. CampaignKept
      BY <2>1, <3>1 DEF CampaignKept, CampaignInv, Shape, Halted, Undo
    <3> QED
      BY <1>0, <2>1, <3>1, <3>2, TurnAway DEF OnItsWay, Fields
  <2>3. CASE ~ work[w].copy.due
    <3>1. Become(w, IdleWork) /\ UNCHANGED <<campaign, undone>>
      BY <1>5, <2>3 DEF Open
    <3> QED
      BY <1>0, <2>1, <3>1, TurnAway, RowKept, IdleFields DEF OnItsWay
  <2> QED
    BY <2>2, <2>3
<1>6. CASE ListPending(w)
  <2>1. PICK S \in SUBSET Contacts : Become(w, [work[w] EXCEPT !.pc = "next", !.left = S])
    BY <1>6 DEF ListPending, RowsWith
  <2>2. UNCHANGED <<campaign, suppressed, history>>
    BY <1>6 DEF ListPending, ledger
  <2> QED
    BY <1>0, <2>1, <2>2, TurnAway, RowKept DEF OnItsWay, Fields, history
<1>7. CASE NextRecipient(w)
  <2>1. UNCHANGED <<campaign, suppressed, history>>
    BY <1>7 DEF NextRecipient, ledger
  <2>2. CASE work[w].left = {} \/ campaign.status # "SENDING"
    <3>1. Become(w, [work[w] EXCEPT !.pc = "close", !.left = {}, !.at = None])
      BY <1>7, <2>2 DEF NextRecipient
    <3> QED
      BY <1>0, <2>1, <3>1, TurnAway, RowKept DEF OnItsWay, Fields, history
  <2>3. CASE work[w].left # {} /\ campaign.status = "SENDING"
    <3>1. PICK c \in work[w].left :
            Become(w, [work[w] EXCEPT !.pc = "vet", !.at = c, !.left = @ \ {c}])
      BY <1>7, <2>3 DEF NextRecipient
    <3>2. /\ DOMAIN work' = Workers \cup Admins
          /\ \A u \in Workers \cup Admins : u # w => work'[u] = work[u]
          /\ DOMAIN work'[w] = Fields /\ work'[w].pc = "vet" /\ work'[w].at = c
          /\ work'[w].left \subseteq Contacts /\ c \in Contacts
      BY <1>0, <3>1 DEF Become, CampaignInv, Shape, Fields
    <3>3. Shape'
      BY <2>1, <3>2 DEF CampaignInv, Shape, history
    <3>4. Vetted'
      BY <2>1, <3>2 DEF CampaignInv, Vetted, history
    <3>5. Halted'
      BY <2>1, <2>3, <3>2 DEF CampaignInv, Halted, Shape, history
    <3> QED
      BY <3>3, <3>4, <3>5 DEF CampaignInv
  <2> QED
    BY <2>2, <2>3
<1>8. CASE Vet(w)
  <2>1. UNCHANGED <<campaign, suppressed, history>> /\ work[w].pc = "vet"
    BY <1>8 DEF Vet
  <2>2. CASE NextUp(w)
    BY <1>0, <2>1, <2>2, TurnAway, RowKept DEF NextUp, OnItsWay, Fields, history
  <2>3. CASE work[w].at \notin suppressed /\ Goto(w, "send")
    <3>1. /\ DOMAIN work' = Workers \cup Admins
          /\ \A u \in Workers \cup Admins : u # w => work'[u] = work[u]
          /\ DOMAIN work'[w] = Fields /\ work'[w].pc = "send" /\ work'[w].at = work[w].at
          /\ work'[w].left \subseteq Contacts /\ work[w].at \in Contacts
      BY <1>0, <2>1, <2>3 DEF Goto, Become, CampaignInv, Shape, Fields, OnItsWay
    <3>2. Shape'
      BY <2>1, <3>1 DEF CampaignInv, Shape, history
    <3>3. Vetted'
      BY <2>1, <2>3, <3>1 DEF CampaignInv, Vetted, history
    <3>4. Halted'
      BY <2>1, <3>1 DEF CampaignInv, Halted, Shape, history, OnItsWay
    <3> QED
      BY <3>2, <3>3, <3>4 DEF CampaignInv
  <2> QED
    BY <1>8, <2>2, <2>3 DEF Vet
<1>9. CASE Send(w)
  <2>1. /\ work[w].pc = "send" /\ UNCHANGED <<campaign, suppressed, checked, stopped, undone>>
        /\ after' = [after EXCEPT ![w] = IF stopped THEN @ + 1 ELSE @]
        /\ wronged' = IF work[w].at \in suppressed /\ w \notin checked[work[w].at]
                      THEN wronged \cup {work[w].at} ELSE wronged
    BY <1>9 DEF Send, ledger
  <2>2. /\ DOMAIN work' = Workers \cup Admins
        /\ \A u \in Workers \cup Admins : u # w => work'[u] = work[u]
        /\ DOMAIN work'[w] = Fields /\ work'[w].pc = "sent"
        /\ work'[w].left \subseteq Contacts
    BY <1>0, <1>9 DEF Send, Goto, Become, CampaignInv, Shape, Fields
  <2>3. Shape'
    BY <2>1, <2>2 DEF CampaignInv, Shape, OnItsWay
  <2>4. Vetted'
    BY <2>1, <2>2 DEF CampaignInv, Vetted
  <2>5. Halted'
    BY <2>1, <2>2 DEF CampaignInv, Halted, Shape, OnItsWay
  <2> QED
    BY <2>3, <2>4, <2>5 DEF CampaignInv
<1>10. CASE RecordSent(w)
  <2>1. UNCHANGED <<campaign, suppressed, history>> /\ NextUp(w)
    BY <1>10 DEF RecordSent
  <2> QED
    BY <1>0, <2>1, TurnAway, RowKept DEF NextUp, OnItsWay, Fields, history
<1>11. CASE Close(w)
  <2>1. UNCHANGED <<campaign, suppressed, history>>
    BY <1>11 DEF Close, ledger
  <2>2. CASE Become(w, IdleWork)
    BY <1>0, <2>1, <2>2, TurnAway, RowKept, IdleFields DEF OnItsWay, history
  <2>3. ASSUME NEW pc \in {"sampled", "finish"}, Goto(w, pc)
        PROVE  CampaignInv'
    BY <1>0, <2>1, <2>3, TurnAway, RowKept DEF Goto, OnItsWay, Fields, history
  <2> QED
    BY <1>11, <2>2, <2>3 DEF Close
<1>12. CASE Sampled(w)
  <2>1. /\ Become(w, IdleWork) /\ campaign' = [campaign EXCEPT !.sample = "sent"]
        /\ UNCHANGED <<suppressed, history>>
    BY <1>12 DEF Sampled, ledger
  <2>2. CampaignKept
    BY <2>1 DEF CampaignKept, CampaignInv, Shape, Halted, history
  <2> QED
    BY <1>0, <2>1, <2>2, TurnAway, IdleFields DEF OnItsWay, history
<1>13. CASE FinishCampaign(w)
  <2>1. /\ Become(w, IdleWork) /\ Undo("SENT")
        /\ campaign' = [campaign EXCEPT !.status = "SENT",
                                       !.sample = IF @ = "unsent" THEN "sent" ELSE @]
        /\ UNCHANGED <<suppressed, checked, wronged, stopped, after>>
    BY <1>13 DEF FinishCampaign, ledger
  <2>2. CampaignKept
    BY <2>1 DEF CampaignKept, CampaignInv, Shape, Halted, Undo
  <2> QED
    BY <1>0, <2>1, <2>2, TurnAway, IdleFields DEF OnItsWay
<1>14. CASE JudgeTest(w)
  <2>1. UNCHANGED <<campaign, suppressed, history>>
    BY <1>14 DEF JudgeTest, ledger
  <2> QED
    BY <1>0, <1>14, <2>1, TurnAway, RowKept DEF JudgeTest, Goto, OnItsWay, Fields, history
<1> QED
  BY <1>1, <1>2, <1>3, <1>4, <1>5, <1>6, <1>7, <1>8, <1>9, <1>10, <1>11, <1>12, <1>13, <1>14
  DEF WorkerStep

LEMMA DecisionKeeps ==
  ASSUME CampaignInv, NEW w \in Deciders, DecisionStep(w)
  PROVE  CampaignInv'
<1>0. /\ w \in Workers \cup Admins /\ DOMAIN work[w] = Fields /\ work[w].left \subseteq Contacts
      /\ (work[w].pc \in {"count", "write"} => work[w].op \in Writes)
  BY DEF CampaignInv, Shape, Deciders, Workers
<1>1. CASE Compare(w)
  <2>1. UNCHANGED <<campaign, suppressed, history>>
    BY <1>1 DEF Compare, ledger
  <2>2. CASE CurrentWinner = 0
    <3>1. Become(w, IdleWork)
      BY <1>1, <2>2 DEF Compare
    <3> QED
      BY <1>0, <2>1, <3>1, TurnAway, RowKept, IdleFields DEF OnItsWay, history
  <2>3. CASE CurrentWinner # 0
    <3>1. Become(w, [work[w] EXCEPT !.pc = "decide", !.winner = CurrentWinner])
      BY <1>1, <2>3 DEF Compare
    <3> QED
      BY <1>0, <2>1, <3>1, TurnAway, RowKept DEF OnItsWay, Fields, history
  <2> QED
    BY <2>2, <2>3
<1>2. CASE Decide(w)
  <2>1. /\ campaign' = [campaign EXCEPT !.winner = work[w].winner]
        /\ UNCHANGED <<suppressed, history>>
    BY <1>2 DEF Decide, ledger
  <2>2. CampaignKept
    BY <2>1 DEF CampaignKept, CampaignInv, Shape, Halted, history
  <2>3. PICK pc \in {"assign", "heldback"} : Goto(w, pc)
    BY <1>2 DEF Decide
  <2> QED
    BY <1>0, <2>1, <2>2, <2>3, TurnAway DEF Goto, OnItsWay, Fields, history
<1>3. CASE ListHeldBack(w)
  <2>1. PICK S \in SUBSET Contacts : Become(w, [work[w] EXCEPT !.pc = "assign", !.left = S])
    BY <1>3 DEF ListHeldBack, RowsWith
  <2>2. UNCHANGED <<campaign, suppressed, history>>
    BY <1>3 DEF ListHeldBack, ledger
  <2> QED
    BY <1>0, <2>1, <2>2, TurnAway, RowKept DEF OnItsWay, Fields, history
<1>4. CASE AssignWinner(w)
  <2>1. PICK c : Become(w, [work[w] EXCEPT !.left = @ \ {c}])
    BY <1>4 DEF AssignWinner
  <2>2. work[w].pc = "assign" /\ UNCHANGED <<campaign, suppressed, history>>
    BY <1>4 DEF AssignWinner
  <2> QED
    BY <1>0, <2>1, <2>2, TurnAway, RowKept DEF OnItsWay, Fields, history
<1>5. CASE Decided(w)
  <2>1. UNCHANGED <<campaign, suppressed, history>>
    BY <1>5 DEF Decided, ledger
  <2>2. PICK pc \in {"idle", "dispatch"} : Become(w, [IdleWork EXCEPT !.pc = pc])
    BY <1>5 DEF Decided, IdleWork
  <2> QED
    BY <1>0, <2>1, <2>2, TurnAway, RowKept DEF OnItsWay, IdleWork, Fields, history
<1> QED
  BY <1>1, <1>2, <1>3, <1>4, <1>5 DEF DecisionStep

LEMMA AdminKeeps ==
  ASSUME CampaignInv, NEW a \in Admins,
         AdminStep(a)
  PROVE  CampaignInv'
<1>0. a \in Workers \cup Admins /\ DOMAIN work[a] = Fields /\ a \notin Workers
  BY CampaignAssumption DEF CampaignInv, Shape
<1>1. CASE WriteCampaign(a)
  <2>1. work[a].op \in Writes /\ UNCHANGED <<suppressed, checked, wronged>>
    BY <1>0, <1>1 DEF WriteCampaign, CampaignInv, Shape, ledger
  <2>2. /\ work' = [work EXCEPT ![a] = IdleWork]
        /\ \A w \in Workers : work'[w] = work[w]
    BY <1>0, <1>1 DEF WriteCampaign, Become, CampaignInv, Shape
  <2>3. /\ "status" \in DOMAIN campaign'
        /\ stopped' /\ work[a].op # "edit" => campaign'.status \in {"PAUSED", "CANCELLED"}
    <3>1. /\ "status" \in DOMAIN campaign
          /\ stopped' /\ work[a].op # "edit" => work[a].op \in {"pause", "cancel"}
      BY <1>1 DEF WriteCampaign, CampaignInv, Shape
    <3>2. CASE work[a].op = "schedule"
      BY <1>1, <3>1, <3>2 DEF WriteCampaign
    <3>3. CASE work[a].op \in {"send", "resume"}
      BY <1>1, <3>1, <3>3 DEF WriteCampaign
    <3>4. CASE work[a].op = "resume draining"
      BY <1>1, <3>1, <3>4 DEF WriteCampaign
    <3>5. CASE work[a].op = "pause"
      BY <1>1, <3>1, <3>5 DEF WriteCampaign
    <3>6. CASE work[a].op = "cancel"
      BY <1>1, <3>1, <3>6 DEF WriteCampaign
    <3>7. CASE work[a].op = "edit"
      BY <1>1, <3>1, <3>7 DEF WriteCampaign
    <3> QED
      BY <2>1, <3>2, <3>3, <3>4, <3>5, <3>6, <3>7 DEF Writes
  <2>4. stopped' \in BOOLEAN /\ undone' \in BOOLEAN /\ after' \in [Workers -> Nat]
    BY <1>1 DEF WriteCampaign, CampaignInv, Shape
  <2>5. Shape'
    BY <1>0, <2>1, <2>2, <2>3, <2>4, IdleFields DEF CampaignInv, Shape, OnItsWay
  <2>6. Vetted'
    BY <2>1, <2>2 DEF CampaignInv, Vetted
  <2>7. CASE work[a].op = "edit"
    <3>1. stopped' = stopped /\ undone' = undone /\ after' = after
          /\ \E ab, metric \in BOOLEAN : campaign' = [campaign EXCEPT !.ab = ab, !.metric = metric]
      BY <1>1, <2>7 DEF WriteCampaign, CampaignInv, Shape
    <3>2. Halted'
      BY <2>2, <3>1 DEF CampaignInv, Shape, Halted
    <3> QED
      BY <2>5, <2>6, <3>2 DEF CampaignInv
  <2>8. CASE work[a].op # "edit"
    <3>1. after' = [w \in Workers |-> 0]
      BY <1>1, <2>8 DEF WriteCampaign
    <3>2. Halted'
      BY <2>3, <2>8, <3>1 DEF Halted
    <3> QED
      BY <2>5, <2>6, <3>2 DEF CampaignInv
  <2> QED
    BY <2>7, <2>8
<1>2. ASSUME NEW op \in Ops, Request(a, op) PROVE CampaignInv'
  <2>1. UNCHANGED <<campaign, suppressed, history>>
    BY <1>2 DEF Request, ledger
  <2> DEFINE l == [IdleWork EXCEPT !.op = op, !.pc =
                     CASE op = "decide" -> "compare" [] op = "resume" -> "count" [] OTHER -> "write"]
  <2>2. Become(a, l)
    BY <1>2 DEF Request
  <2>3. DOMAIN l = Fields /\ l.left = {} /\ l.pc \notin OnItsWay
    BY DEF IdleWork, Fields, OnItsWay
  <2>4. l.pc \in {"count", "write"} => l.op \in Writes
    BY CampaignAssumption DEF IdleWork, Writes
  <2> HIDE DEF l
  <2> QED
    BY <1>0, <2>1, <2>2, <2>3, <2>4, TurnAway, RowKept DEF history
<1>3. CASE CountRecipients(a)
  <2>1. UNCHANGED <<campaign, suppressed, history>> /\ work[a].op \in Writes
    BY <1>0, <1>3 DEF CountRecipients, ledger, CampaignInv, Shape
  <2>2. PICK op \in Writes : Become(a, [work[a] EXCEPT !.pc = "write", !.op = op])
    BY <1>3, <2>1 DEF CountRecipients, Writes
  <2>3. work[a].left \subseteq Contacts
    BY <1>0 DEF CampaignInv, Shape
  <2> DEFINE l == [work[a] EXCEPT !.pc = "write", !.op = op]
  <2>4. DOMAIN l = Fields /\ l.left = work[a].left /\ l.pc = "write" /\ l.op = op
    BY <1>0 DEF Fields
  <2> HIDE DEF l
  <2> QED
    BY <1>0, <2>1, <2>2, <2>3, <2>4, TurnAway, RowKept DEF history, OnItsWay, l
<1> QED
  BY <1>1, <1>2, <1>3 DEF AdminStep

LEMMA StepKeepsCampaignInv == CampaignInv /\ [Next]_vars => CampaignInv'
<1> SUFFICES ASSUME CampaignInv, [Next]_vars PROVE CampaignInv'
  OBVIOUS
<1>1. CASE UNCHANGED vars
  BY <1>1, Bystanders, RowKept DEF vars, ledger, history
<1>2. ASSUME NEW w \in Workers, RecordFailed(w) PROVE CampaignInv'
  <2>1. UNCHANGED <<campaign, suppressed, history>> /\ NextUp(w)
    BY <1>2 DEF RecordFailed
  <2>2. w \in Workers \cup Admins /\ DOMAIN work[w] = Fields /\ work[w].left \subseteq Contacts
    BY DEF CampaignInv, Shape
  <2> QED
    BY <2>1, <2>2, TurnAway, RowKept DEF NextUp, OnItsWay, Fields, history
<1>3. ASSUME NEW w \in Workers, Crash(w) PROVE CampaignInv'
  BY <1>3, TurnAway, RowKept, IdleFields DEF Crash, OnItsWay, ledger
<1>4. CASE DateComes \/ WindowPasses
  <2>1. UNCHANGED <<work, suppressed, history>>
    BY <1>4 DEF DateComes, WindowPasses, ledger
  <2>2. CampaignKept
    BY <1>4, <2>1 DEF DateComes, WindowPasses, CampaignKept, CampaignInv, Shape, Halted, history
  <2> QED
    BY <2>1, <2>2, Bystanders DEF history
<1>5. ASSUME NEW c \in Contacts, Unsubscribe(c) PROVE CampaignInv'
  BY <1>5, SuppressKeeps DEF Unsubscribe
<1>6. ASSUME NEW h \in Hooks, SuppressBounced(h) PROVE CampaignInv'
  BY <1>6, SuppressKeeps DEF SuppressBounced
<1>7. ASSUME NEW h \in Hooks,
             WriteReceipt(h) \/ \E c \in Contacts, e \in Receipts : Receive(h, c, e)
      PROVE  CampaignInv'
  <2>1. UNCHANGED <<campaign, work, suppressed, history>>
    BY <1>7 DEF WriteReceipt, Receive, ledger
  <2> QED
    BY <2>1, Bystanders, RowKept DEF history
<1> QED
  BY <1>1, <1>2, <1>3, <1>4, <1>5, <1>6, <1>7, DispatchKeeps, DecisionKeeps, AdminKeeps DEF Next

LEMMA CampaignInvariant == Spec => []CampaignInv
BY InitCampaignInv, StepKeepsCampaignInv, PTL DEF Spec

(* A contact who has left by the time a worker looks at the suppression    *)
(* list before its message is not mailed, however old the audience.        *)
THEOREM LeaversSpared == Spec => []LeaversNotMailed
<1>1. CampaignInv => LeaversNotMailed
  BY DEF CampaignInv, Vetted, LeaversNotMailed
<1> QED
  BY <1>1, CampaignInvariant, PTL

(* After a pause or cancellation each worker sends one message at most,    *)
(* the one it had got to, unless a worker's status write undid the stop.   *)
THEOREM StopsHold == Spec => []StopHolds
<1>1. CampaignInv => StopHolds
  BY DEF CampaignInv, Halted, StopHolds
<1> QED
  BY <1>1, CampaignInvariant, PTL

-----------------------------------------------------------------------------
(* The types, and with them what a handler holds.                          *)
OnRow == {"vet", "send", "sent"}
Listing == {"next", "vet", "send", "sent", "assign"}
Deciding == {"decide", "heldback", "assign"}
Empty == {"idle", "compare", "decide"}

HandsFull ==
  \A w \in Workers \cup Admins :
    /\ work[w].pc \in OnRow =>
         work[w].at \in Contacts /\ rows[work[w].at] # None /\ work[w].at \notin work[w].left
    /\ work[w].pc \in Listing => \A c \in work[w].left : rows[c] # None
    /\ work[w].pc \in Deciding => work[w].winner # None
    /\ work[w].pc \in Empty => work[w].left = {}
    /\ work[w].pc \in {"count", "write"} => work[w].op \in Writes

ReceiptsFit ==
  \A h \in Hooks : hook[h].pc # "idle" =>
    /\ hook[h].contact \in Contacts /\ hook[h].event \in Receipts
    /\ rows[hook[h].contact] # None /\ rows[hook[h].contact].id
    /\ hook[h].pc = "write" /\ hook[h].event \in Funnel =>
         FunnelRank(hook[h].seen) < FunnelRank(hook[h].event)

Rest ==
  /\ kind \in Kinds /\ campaign \in Campaign
  /\ suppressed \subseteq Contacts /\ wronged \subseteq Contacts
  /\ used \in [{"requests", "receipts", "leaves", "faults"} -> Nat]
  /\ mailed \in [Workers -> [Contacts -> Nat]] /\ after \in [Workers -> Nat]
  /\ frozen \in (SUBSET Contacts) \cup {None}
  /\ checked \in [Contacts -> SUBSET Workers]
  /\ stopped \in BOOLEAN /\ undone \in BOOLEAN

TypedInv == TypeOK /\ HandsFull /\ ReceiptsFit

(* Rows are added and filled in, and none goes away.                       *)
RowsGrow ==
  /\ rows' \in [Contacts -> Recipient \cup {None}]
  /\ \A c \in Contacts : rows[c] # None => rows'[c] # None /\ (rows[c].id => rows'[c].id)

LEMMA TypeParts ==
  TypeOK <=> /\ Rest /\ rows \in [Contacts -> Recipient \cup {None}]
             /\ work \in [Workers \cup Admins -> Work] /\ hook \in [Hooks -> Handling]
BY DEF TypeOK, Rest

(* One handler turns to something that fits, and rows only grow.           *)
LEMMA TurnTo ==
  ASSUME TypedInv, Rest', RowsGrow, UNCHANGED hook, NEW w \in Workers \cup Admins, NEW l \in Work,
         Become(w, l),
         l.pc \in OnRow => l.at \in Contacts /\ rows'[l.at] # None /\ l.at \notin l.left,
         l.pc \in Listing => \A c \in l.left : rows'[c] # None,
         l.pc \in Deciding => l.winner # None, l.pc \in Empty => l.left = {},
         l.pc \in {"count", "write"} => l.op \in Writes
  PROVE  TypedInv'
<1>1. work' \in [Workers \cup Admins -> Work]
  BY TypeParts DEF TypedInv, Become
<1>2. /\ work'[w] = l /\ \A u \in Workers \cup Admins : u # w => work'[u] = work[u]
  BY TypeParts DEF TypedInv, Become
<1>3. \A u \in Workers \cup Admins : work[u].left \subseteq Contacts
  BY TypeParts DEF TypedInv, Work
<1>4. TypeOK'
  BY <1>1, TypeParts DEF TypedInv, TypeOK, Rest, RowsGrow
<1>5. HandsFull'
  BY <1>2, <1>3 DEF TypedInv, HandsFull, RowsGrow
<1>6. ReceiptsFit'
  BY DEF TypedInv, ReceiptsFit, RowsGrow
<1> QED
  BY <1>4, <1>5, <1>6 DEF TypedInv

LEMMA RowsStay == ASSUME TypedInv, UNCHANGED rows PROVE RowsGrow
BY TypeParts DEF TypedInv, RowsGrow

LEMMA RestStays ==
  ASSUME TypedInv, UNCHANGED <<kind, campaign, suppressed, used, history>>
  PROVE  Rest'
BY TypeParts DEF TypedInv, Rest, history

LEMMA FaultCounted ==
  ASSUME TypedInv, NEW b \in {"requests", "receipts", "leaves", "faults"}, Spend(b)
  PROVE  used' \in [{"requests", "receipts", "leaves", "faults"} -> Nat]
BY TypeParts DEF TypedInv, Rest, Spend

(* What a handler's record becomes, field by field.                        *)
LEMMA WorkFields ==
  ASSUME NEW l \in Work
  PROVE  /\ \A pc \in {"idle", "audience", "fill", "open", "drain", "next", "vet", "send", "sent",
                       "close", "sampled", "finish", "compare", "decide", "heldback", "assign",
                       "dispatch", "count", "write"} : [l EXCEPT !.pc = pc] \in Work
         /\ \A op \in Ops \cup {"resume draining", None} : [l EXCEPT !.op = op] \in Work
         /\ \A copy \in Campaign \cup {None} : [l EXCEPT !.copy = copy] \in Work
         /\ \A fill \in SUBSET (Contacts \X (Variants \cup {0})) : [l EXCEPT !.fill = fill] \in Work
         /\ \A left \in SUBSET Contacts : [l EXCEPT !.left = left] \in Work
         /\ \A at \in Contacts \cup {None} : [l EXCEPT !.at = at] \in Work
         /\ \A v \in Variants \cup {None} : [l EXCEPT !.winner = v] \in Work
<1> DEFINE Pc == {"idle", "audience", "fill", "open", "drain", "next", "vet", "send", "sent",
                  "close", "sampled", "finish", "compare", "decide", "heldback", "assign",
                  "dispatch", "count", "write"}
           Op == Ops \cup {"resume draining", None}
           Copy == Campaign \cup {None}
           Fill == SUBSET (Contacts \X (Variants \cup {0}))
           Left == SUBSET Contacts
           At == Contacts \cup {None}
           By == Variants \cup {None}
<1>1. Work = [pc : Pc, op : Op, copy : Copy, fill : Fill, left : Left, at : At, winner : By]
  BY DEF Work
<1> HIDE DEF Pc, Op, Copy, Fill, Left, At, By
<1>2. \A pc \in Pc : [l EXCEPT !.pc = pc] \in Work
  BY <1>1
<1>3. \A op \in Op : [l EXCEPT !.op = op] \in Work
  BY <1>1
<1>4. \A copy \in Copy : [l EXCEPT !.copy = copy] \in Work
  BY <1>1
<1>5. \A fill \in Fill : [l EXCEPT !.fill = fill] \in Work
  BY <1>1
<1>6. \A left \in Left : [l EXCEPT !.left = left] \in Work
  BY <1>1
<1>7. \A at \in At : [l EXCEPT !.at = at] \in Work
  BY <1>1
<1>8. \A v \in By : [l EXCEPT !.winner = v] \in Work
  BY <1>1
<1> QED
  BY <1>2, <1>3, <1>4, <1>5, <1>6, <1>7, <1>8 DEF Pc, Op, Copy, Fill, Left, At, By

LEMMA IdleIsWork == IdleWork \in Work
BY DEF IdleWork, Work

LEMMA WorkOf ==
  ASSUME TypedInv, NEW w \in Workers \cup Admins
  PROVE  /\ work[w] \in Work /\ DOMAIN work[w] = Fields
         /\ work[w].left \subseteq Contacts /\ work[w].fill \subseteq Contacts \X (Variants \cup {0})
         /\ work[w].at \in Contacts \cup {None} /\ work[w].winner \in Variants \cup {None}
BY TypeParts DEF TypedInv, Work, Fields

-----------------------------------------------------------------------------
(* Rows change one field at a time.                                        *)
LEMMA RowFields ==
  ASSUME NEW r \in Recipient
  PROVE  /\ \A s \in RowStatuses : [r EXCEPT !.status = s] \in Recipient
         /\ \A v \in Variants \cup {0} : [r EXCEPT !.variant = v] \in Recipient
         /\ \A s \in RowStatuses : [r EXCEPT !.status = s, !.id = TRUE] \in Recipient
BY DEF Recipient

LEMMA RowChanges ==
  ASSUME TypedInv, NEW c \in Contacts, rows[c] # None, NEW r \in Recipient,
         rows' = [rows EXCEPT ![c] = r], rows[c].id => r.id
  PROVE  RowsGrow
<1>1. rows' \in [Contacts -> Recipient \cup {None}]
  BY TypeParts DEF TypedInv
<1>2. /\ rows'[c] = r /\ r # None
      /\ \A d \in Contacts : d # c => rows'[d] = rows[d]
  BY CampaignAssumption, TypeParts DEF TypedInv
<1> QED
  BY <1>1, <1>2 DEF RowsGrow

LEMMA MarkGrows ==
  ASSUME TypedInv, NEW c \in Contacts, rows[c] # None, NEW s \in RowStatuses, Mark(c, s)
  PROVE  RowsGrow /\ rows' = [rows EXCEPT ![c] = [rows[c] EXCEPT !.status = s]]
<1>1. rows[c] \in Recipient
  BY TypeParts DEF TypedInv
<1>2. rows' = [rows EXCEPT ![c] = [rows[c] EXCEPT !.status = s]]
  BY DEF Mark
<1>3. [rows[c] EXCEPT !.status = s] \in Recipient /\ [rows[c] EXCEPT !.status = s].id = rows[c].id
  BY <1>1, RowFields DEF Recipient
<1> QED
  BY <1>2, <1>3, RowChanges

-----------------------------------------------------------------------------
(* What the campaign hands to the operators of the split stays in range.   *)
LEMMA WinnerIsVariant == CurrentWinner \in Variants \cup {0}
<1>1. Len(SplitPercents) \in Nat /\ Variants = 1 .. Len(SplitPercents)
  BY CampaignAssumption DEF Variants
<1>2. ASSUME NEW v, NEW statuses PROVE CountBy(v, statuses) \in Nat
  BY CampaignAssumption, FS_Subset, FS_CardinalityType DEF CountBy
<1>3. PICK sent, hits : /\ sent = [v \in Variants |-> CountBy(v, Reached)]
                        /\ hits = [v \in Variants |-> CountBy(v, {"OPENED", "CLICKED"})]
  OBVIOUS
<1>4. sent \in [1 .. Len(SplitPercents) -> Nat] /\ hits \in [1 .. Len(SplitPercents) -> Nat]
  BY <1>1, <1>2, <1>3
<1>5. CurrentWinner = Winner(sent, hits)
  BY <1>3 DEF CurrentWinner
<1>6. PICK N, w : N = Len(SplitPercents) /\ w = Winner(sent, hits)
  OBVIOUS
<1>7. w \in 0 .. N
  BY <1>1, <1>4, <1>6, WinnerIsBest
<1> QED
  BY <1>1, <1>5, <1>6, <1>7

LEMMA AssignedVariants ==
  ASSUME NEW audience \in SUBSET Contacts, NEW ab
  PROVE  Assignments(audience, ab) \subseteq Contacts \X (Variants \cup {0})
<1>1. DOMAIN SplitPercents = Variants
  BY CampaignAssumption DEF Variants
<1>2. ASSUME NEW n, NEW p, NEW percent
      PROVE  SplitContact(n, p, SplitPercents, percent) \in Variants \cup {0}
  <2> DEFINE counts == AllocateVariantCounts(SampleSize(n, percent), SplitPercents)
             upTo(i) == Total([j \in 1 .. i |-> counts[j]])
             takes == {i \in DOMAIN SplitPercents : upTo(i - 1) < p /\ p <= upTo(i)}
  <2>1. SplitContact(n, p, SplitPercents, percent) =
          IF takes = {} THEN 0 ELSE CHOOSE i \in takes : TRUE
    BY DEF SplitContact
  <2>2. takes \subseteq Variants
    BY <1>1
  <2> HIDE DEF takes
  <2> QED
    BY <2>1, <2>2
<1>3. ASSUME NEW a \in Assignments(audience, ab) PROVE a \in Contacts \X (Variants \cup {0})
  <2>1. PICK c \in audience : a = <<c, IF ab THEN SplitContact(Cardinality(audience),
                                                   Cardinality({o \in audience : o <= c}),
                                                   SplitPercents, kind.sample)
                                   ELSE 0>>
    BY DEF Assignments
  <2> QED
    BY <1>2, <2>1
<1> QED
  BY <1>3

-----------------------------------------------------------------------------
LEMMA TypedInit == Init => TypedInv
<1> SUFFICES ASSUME Init PROVE TypedInv
  OBVIOUS
<1>1. kind \in Kind
  BY CampaignAssumption DEF Init
<1>2. campaign \in Campaign
  BY <1>1 DEF Init, Campaign, Statuses, Kind
<1>3. Rest
  <2>1. used \in [{"requests", "receipts", "leaves", "faults"} -> Nat]
    BY DEF Init
  <2>2. mailed \in [Workers -> [Contacts -> Nat]] /\ after \in [Workers -> Nat]
    BY DEF Init
  <2>3. checked \in [Contacts -> SUBSET Workers]
    BY DEF Init
  <2> QED
    BY <1>2, <2>1, <2>2, <2>3 DEF Init, Rest
<1>4. IdleHook \in Handling
  BY DEF IdleHook, Handling
<1>5. TypeOK
  BY <1>3, <1>4, IdleIsWork, TypeParts DEF Init
<1>6. HandsFull
  BY DEF Init, HandsFull, IdleWork, OnRow, Listing, Deciding, Empty
<1>7. ReceiptsFit
  BY DEF Init, ReceiptsFit, IdleHook
<1> QED
  BY <1>5, <1>6, <1>7 DEF TypedInv

LEMMA CampaignFields ==
  ASSUME NEW r \in Campaign
  PROVE  /\ \A s \in Statuses : [r EXCEPT !.status = s] \in Campaign
         /\ \A s \in Statuses, b \in BOOLEAN : [r EXCEPT !.status = s, !.due = b] \in Campaign
         /\ \A b \in BOOLEAN : [r EXCEPT !.due = b] \in Campaign
         /\ \A ab, metric \in BOOLEAN : [r EXCEPT !.ab = ab, !.metric = metric] \in Campaign
         /\ \A s \in {"unsent", "sent", "aged"} : [r EXCEPT !.sample = s] \in Campaign
         /\ \A s \in Statuses :
              [r EXCEPT !.status = s, !.sample = IF @ = "unsent" THEN "sent" ELSE @] \in Campaign
         /\ \A v \in Variants \cup {None} : [r EXCEPT !.winner = v] \in Campaign
BY DEF Campaign

(* What moves only the campaign's row and the record of its stop.          *)
LEMMA CampaignMoves ==
  ASSUME TypedInv, campaign' \in Campaign, undone' \in BOOLEAN,
         UNCHANGED <<kind, suppressed, used, mailed, frozen, checked, wronged, stopped, after>>
  PROVE  Rest'
BY TypeParts DEF TypedInv, Rest

LEMMA RowSent ==
  ASSUME TypedInv, NEW c \in Contacts, rows[c] # None,
         rows' = [rows EXCEPT ![c].status = "SENT", ![c].id = TRUE]
  PROVE  RowsGrow /\ rows' = [rows EXCEPT ![c] = [rows[c] EXCEPT !.status = "SENT", !.id = TRUE]]
<1> DEFINE r == [rows[c] EXCEPT !.status = "SENT", !.id = TRUE]
<1>1. rows[c] \in Recipient /\ DOMAIN rows = Contacts
  BY TypeParts DEF TypedInv
<1>2. rows' = [rows EXCEPT ![c] = r]
  BY <1>1
<1>3. r \in Recipient /\ r.id
  BY <1>1, RowFields DEF Recipient, RowStatuses, Reached
<1> HIDE DEF r
<1>4. RowsGrow
  BY <1>2, <1>3, RowChanges
<1> QED
  BY <1>2, <1>4 DEF r

(* A worker is done with a recipient, one way or another.                  *)
LEMMA NextUpTyped ==
  ASSUME TypedInv, NEW w \in Workers, work[w].pc \in OnRow, NextUp(w), RowsGrow, Rest', UNCHANGED hook
  PROVE  TypedInv'
<1>0. w \in Workers \cup Admins /\ work[w] \in Work /\ DOMAIN work[w] = Fields
  BY WorkOf
<1>1. work[w].left \subseteq Contacts /\ \A c \in work[w].left : rows'[c] # None
  BY <1>0, WorkOf DEF TypedInv, HandsFull, RowsGrow, OnRow, Listing
<1> DEFINE k == [work[w] EXCEPT !.pc = "next"]
           l == [k EXCEPT !.at = None]
<1>2. k \in Work
  BY <1>0, WorkFields
<1>3. l \in Work /\ l.pc = "next" /\ l.left = work[w].left /\ Become(w, l)
  BY <1>0, <1>2, WorkFields DEF Fields, NextUp
<1> HIDE DEF k, l
<1> QED
  BY <1>0, <1>1, <1>3, TurnTo DEF OnRow, Listing, Deciding, Empty

LEMMA DispatchTyped ==
  ASSUME TypedInv, NEW w \in Workers, WorkerStep(w)
  PROVE  TypedInv'
<1>0. /\ w \in Workers \cup Admins /\ work[w] \in Work /\ DOMAIN work[w] = Fields
      /\ work[w].left \subseteq Contacts /\ work[w].fill \subseteq Contacts \X (Variants \cup {0})
      /\ campaign \in Campaign
  BY WorkOf, TypeParts DEF TypedInv, Rest
<1>1. CASE Begin(w)
  <2> DEFINE pc == CASE campaign.status \notin {"SCHEDULED", "SENDING"} -> "idle"
                     [] campaign.status = "SENDING" -> IF kind.dynamic THEN "audience" ELSE "drain"
                     [] OTHER -> IF kind.dynamic THEN "open" ELSE "audience"
             k == [IdleWork EXCEPT !.copy = campaign]
             l == [k EXCEPT !.pc = pc]
  <2>1. pc \in {"idle", "audience", "drain", "open"}
    OBVIOUS
  <2>2. k \in Work
    BY <1>0, WorkFields, IdleIsWork
  <2> HIDE DEF pc
  <2>3. l \in Work /\ l.pc = pc /\ l.left = {}
    BY <2>1, <2>2, WorkFields DEF IdleWork
  <2>4. Become(w, l) /\ UNCHANGED <<kind, campaign, suppressed, used, history, rows, hook>>
    BY <1>1 DEF Begin, ledger, pc, IdleWork
  <2> HIDE DEF k, l
  <2> QED
    BY <1>0, <2>1, <2>3, <2>4, TurnTo, RowsStay, RestStays DEF OnRow, Listing, Deciding, Empty
<1>2. CASE ReadAudience(w)
  <2>1. PICK segment \in Segments :
          LET audience == IF Unstarted THEN segment \ suppressed ELSE {} IN
          /\ Become(w, [work[w] EXCEPT !.fill = Assignments(audience, work[w].copy.ab /\ kind.variants), !.pc = "fill"])
          /\ frozen' = IF frozen = None /\ audience # {} THEN audience ELSE frozen
    BY <1>2 DEF ReadAudience
  <2> DEFINE audience == IF Unstarted THEN segment \ suppressed ELSE {}
             fill == Assignments(audience, work[w].copy.ab /\ kind.variants)
             k == [work[w] EXCEPT !.fill = fill]
             l == [k EXCEPT !.pc = "fill"]
  <2>2. audience \in SUBSET Contacts
    BY CampaignAssumption
  <2>3. UNCHANGED <<kind, campaign, suppressed, used, rows, hook,
                    mailed, checked, wronged, stopped, undone, after>>
    BY <1>2 DEF ReadAudience, ledger
  <2>4. frozen' \in (SUBSET Contacts) \cup {None}
    BY <2>1, <2>2, TypeParts DEF TypedInv, Rest
  <2>5. Rest'
    BY <2>3, <2>4, TypeParts DEF TypedInv, Rest
  <2>6. fill \in SUBSET (Contacts \X (Variants \cup {0}))
    BY <2>2, AssignedVariants
  <2>7. Become(w, l)
    BY <1>0, <2>1 DEF Fields
  <2> HIDE DEF audience, fill
  <2>8. k \in Work
    BY <1>0, <2>6, WorkFields
  <2>9. l \in Work /\ l.pc = "fill"
    BY <1>0, <2>8, WorkFields DEF Fields
  <2> HIDE DEF k, l
  <2> QED
    BY <1>0, <2>3, <2>5, <2>7, <2>9, TurnTo, RowsStay DEF OnRow, Listing, Deciding, Empty
<1>3. CASE CreateRecipient(w)
  <2>1. PICK a \in work[w].fill :
          /\ rows' = IF rows[a[1]] # None THEN rows
                     ELSE [rows EXCEPT ![a[1]] = [status |-> "PENDING", variant |-> a[2], id |-> FALSE]]
          /\ Become(w, [work[w] EXCEPT !.fill = @ \ {a}])
    BY <1>3 DEF CreateRecipient
  <2>2. work[w].pc = "fill" /\ UNCHANGED <<kind, campaign, suppressed, used, history, hook>>
    BY <1>3 DEF CreateRecipient
  <2>3. a[1] \in Contacts /\ a[2] \in Variants \cup {0}
    BY <1>0, <2>1
  <2>4. RowsGrow
    <3>1. CASE rows[a[1]] # None
      BY <2>1, <3>1, RowsStay
    <3>2. CASE rows[a[1]] = None
      <4> DEFINE r == [status |-> "PENDING", variant |-> a[2], id |-> FALSE]
      <4>1. r \in Recipient
        BY <2>3 DEF Recipient, RowStatuses
      <4>2. rows' = [rows EXCEPT ![a[1]] = r]
        BY <2>1, <3>2
      <4> HIDE DEF r
      <4>3. rows' \in [Contacts -> Recipient \cup {None}]
        BY <2>3, <4>1, <4>2, TypeParts DEF TypedInv
      <4>4. \A c \in Contacts : rows[c] # None => rows'[c] = rows[c]
        BY <2>3, <3>2, <4>2, TypeParts DEF TypedInv
      <4> QED
        BY <4>3, <4>4 DEF RowsGrow
    <3> QED
      BY <3>1, <3>2
  <2> DEFINE l == [work[w] EXCEPT !.fill = @ \ {a}]
  <2>5. l \in Work /\ l.pc = "fill" /\ Become(w, l)
    BY <1>0, <2>1, <2>2, WorkFields DEF Fields
  <2> HIDE DEF l
  <2> QED
    BY <1>0, <2>2, <2>4, <2>5, TurnTo, RestStays DEF OnRow, Listing, Deciding, Empty
<1>4. CASE Filled(w)
  <2>1. AfterFill \in {"drain", "open"}
    BY DEF AfterFill
  <2>2. Become(w, [work[w] EXCEPT !.pc = AfterFill])
        /\ UNCHANGED <<kind, campaign, suppressed, used, history, rows, hook>>
    BY <1>4 DEF Filled, Goto, ledger
  <2> DEFINE l == [work[w] EXCEPT !.pc = AfterFill]
  <2>3. l \in Work /\ l.pc = AfterFill
    BY <1>0, <2>1, WorkFields DEF Fields
  <2> HIDE DEF l
  <2> QED
    BY <1>0, <2>1, <2>2, <2>3, TurnTo, RowsStay, RestStays DEF OnRow, Listing, Deciding, Empty, l
<1>5. CASE Open(w)
  <2>1. UNCHANGED <<kind, suppressed, used, mailed, frozen, checked, wronged, stopped, after, rows, hook>>
    BY <1>5 DEF Open, ledger
  <2>2. CASE work[w].copy.due
    <3> DEFINE pc == IF kind.dynamic THEN "audience" ELSE "drain"
               l == [work[w] EXCEPT !.pc = pc]
    <3>1. /\ campaign' = [campaign EXCEPT !.status = "SENDING"] /\ Undo("SENDING") /\ Become(w, l)
      BY <1>5, <2>2 DEF Open, Goto
    <3>2. campaign' \in Campaign
      BY <1>0, <3>1, CampaignFields DEF Statuses
    <3>3. undone' \in BOOLEAN
      BY <3>1, TypeParts DEF TypedInv, Rest, Undo
    <3>4. l \in Work /\ l.pc \in {"audience", "drain"}
      BY <1>0, WorkFields DEF Fields
    <3> HIDE DEF l
    <3> QED
      BY <1>0, <2>1, <3>1, <3>2, <3>3, <3>4, TurnTo, RowsStay, CampaignMoves
      DEF OnRow, Listing, Deciding, Empty
  <2>3. CASE ~ work[w].copy.due
    <3>1. Become(w, IdleWork) /\ UNCHANGED <<campaign, undone>>
      BY <1>5, <2>3 DEF Open
    <3> QED
      BY <1>0, <2>1, <3>1, TurnTo, RowsStay, RestStays, IdleFields, IdleIsWork
      DEF OnRow, Listing, Deciding, Empty, history
  <2> QED
    BY <2>2, <2>3
<1>6. CASE ListPending(w)
  <2> DEFINE S == {c \in RowsWith("PENDING") : work[w].copy.ab => rows[c].variant # 0}
             k == [work[w] EXCEPT !.pc = "next"]
             l == [k EXCEPT !.left = S]
  <2>1. S \subseteq Contacts /\ \A c \in S : rows[c] # None
    BY DEF RowsWith
  <2>2. Become(w, l) /\ UNCHANGED <<kind, campaign, suppressed, used, history, rows, hook>>
    BY <1>0, <1>6 DEF ListPending, ledger, Fields
  <2> HIDE DEF S
  <2>3. k \in Work
    BY <1>0, WorkFields
  <2>4. l \in Work /\ l.pc = "next" /\ l.left = S
    BY <1>0, <2>1, <2>3, WorkFields DEF Fields
  <2> HIDE DEF k, l
  <2> QED
    BY <1>0, <2>1, <2>2, <2>4, TurnTo, RowsStay, RestStays DEF OnRow, Listing, Deciding, Empty
<1>7. CASE NextRecipient(w)
  <2>1. UNCHANGED <<kind, campaign, suppressed, used, history, rows, hook>> /\ work[w].pc = "next"
    BY <1>7 DEF NextRecipient, ledger
  <2>2. CASE work[w].left = {} \/ campaign.status # "SENDING"
    <3> DEFINE k == [work[w] EXCEPT !.pc = "close"]
               m == [k EXCEPT !.left = {}]
               l == [m EXCEPT !.at = None]
    <3>1. Become(w, l)
      BY <1>0, <1>7, <2>2 DEF NextRecipient, Fields
    <3>2. k \in Work
      BY <1>0, WorkFields
    <3>3. m \in Work
      BY <3>2, WorkFields
    <3>4. l \in Work /\ l.pc = "close"
      BY <1>0, <3>3, WorkFields DEF Fields
    <3> HIDE DEF k, m, l
    <3> QED
      BY <1>0, <2>1, <3>1, <3>4, TurnTo, RowsStay, RestStays DEF OnRow, Listing, Deciding, Empty
  <2>3. CASE work[w].left # {} /\ campaign.status = "SENDING"
    <3>1. PICK c \in work[w].left :
            Become(w, [work[w] EXCEPT !.pc = "vet", !.at = c, !.left = @ \ {c}])
      BY <1>7, <2>3 DEF NextRecipient
    <3> DEFINE k == [work[w] EXCEPT !.pc = "vet"]
               m == [k EXCEPT !.at = c]
               l == [m EXCEPT !.left = work[w].left \ {c}]
    <3>2. Become(w, l)
      BY <1>0, <3>1 DEF Fields
    <3>3. c \in Contacts /\ \A d \in work[w].left : rows[d] # None
      BY <1>0, <2>1, <3>1 DEF TypedInv, HandsFull, Listing
    <3>4. k \in Work
      BY <1>0, WorkFields
    <3>5. m \in Work
      BY <3>3, <3>4, WorkFields
    <3>6. l \in Work /\ l.pc = "vet" /\ l.at = c /\ l.left = work[w].left \ {c}
      BY <1>0, <3>5, WorkFields DEF Fields
    <3> HIDE DEF k, m, l
    <3> QED
      BY <1>0, <2>1, <3>1, <3>2, <3>3, <3>6, TurnTo, RowsStay, RestStays DEF OnRow, Listing, Deciding, Empty
  <2> QED
    BY <2>2, <2>3
<1>8. CASE Vet(w)
  <2>1. /\ UNCHANGED <<kind, campaign, suppressed, used, history, hook>> /\ work[w].pc = "vet"
        /\ work[w].at \in Contacts /\ rows[work[w].at] # None /\ work[w].at \notin work[w].left
        /\ \A c \in work[w].left : rows[c] # None
    BY <1>0, <1>8 DEF Vet, TypedInv, HandsFull, OnRow, Listing
  <2>2. CASE NextUp(w) /\ (Mark(work[w].at, "UNSUBSCRIBED") \/ Mark(work[w].at, "QUEUED"))
    <3>1. RowsGrow
      BY <2>1, <2>2, MarkGrows DEF RowStatuses
    <3> QED
      BY <2>1, <2>2, <3>1, NextUpTyped, RestStays DEF OnRow
  <2>3. CASE Goto(w, "send") /\ UNCHANGED rows
    <3> DEFINE l == [work[w] EXCEPT !.pc = "send"]
    <3>1. l \in Work /\ l.pc = "send" /\ l.at = work[w].at /\ l.left = work[w].left /\ Become(w, l)
      BY <1>0, <2>3, WorkFields DEF Goto, Fields
    <3> HIDE DEF l
    <3> QED
      BY <1>0, <2>1, <2>3, <3>1, TurnTo, RowsStay, RestStays DEF OnRow, Listing, Deciding, Empty
  <2> QED
    BY <1>8, <2>2, <2>3 DEF Vet
<1>9. CASE Send(w)
  <2>1. /\ UNCHANGED <<kind, campaign, suppressed, used, frozen, checked, stopped, undone, rows, hook>>
        /\ work[w].pc = "send" /\ Goto(w, "sent")
        /\ work[w].at \in Contacts /\ rows[work[w].at] # None /\ work[w].at \notin work[w].left
        /\ \A c \in work[w].left : rows[c] # None
    BY <1>0, <1>9 DEF Send, ledger, TypedInv, HandsFull, OnRow, Listing
  <2>2. mailed' \in [Workers -> [Contacts -> Nat]] /\ after' \in [Workers -> Nat]
    <3>1. mailed \in [Workers -> [Contacts -> Nat]] /\ after \in [Workers -> Nat]
      BY TypeParts DEF TypedInv, Rest
    <3>2. mailed' = [mailed EXCEPT ![w][work[w].at] = @ + 1]
      BY <1>9 DEF Send
    <3>3. after' = [after EXCEPT ![w] = IF stopped THEN @ + 1 ELSE @]
      BY <1>9 DEF Send
    <3>4. mailed' \in [Workers -> [Contacts -> Nat]]
      BY <2>1, <3>1, <3>2
    <3>5. after' \in [Workers -> Nat]
      BY <3>1, <3>3
    <3> QED
      BY <3>4, <3>5
  <2>3. wronged' \subseteq Contacts
    BY <1>9, <2>1, TypeParts DEF Send, TypedInv, Rest
  <2>4. Rest'
    BY <2>1, <2>2, <2>3, TypeParts DEF TypedInv, Rest
  <2> DEFINE l == [work[w] EXCEPT !.pc = "sent"]
  <2>5. l \in Work /\ l.pc = "sent" /\ l.at = work[w].at /\ l.left = work[w].left /\ Become(w, l)
    BY <1>0, <2>1, WorkFields DEF Goto, Fields
  <2> HIDE DEF l
  <2> QED
    BY <1>0, <2>1, <2>4, <2>5, TurnTo, RowsStay DEF OnRow, Listing, Deciding, Empty
<1>10. CASE RecordSent(w)
  <2>1. /\ UNCHANGED <<kind, campaign, suppressed, used, history, hook>> /\ work[w].pc = "sent"
        /\ work[w].at \in Contacts /\ rows[work[w].at] # None
        /\ NextUp(w) /\ rows' = [rows EXCEPT ![work[w].at].status = "SENT", ![work[w].at].id = TRUE]
    BY <1>0, <1>10 DEF RecordSent, TypedInv, HandsFull, OnRow
  <2>2. RowsGrow
    BY <2>1, RowSent
  <2> QED
    BY <2>1, <2>2, NextUpTyped, RestStays DEF OnRow
<1>11. CASE Close(w)
  <2>1. UNCHANGED <<kind, campaign, suppressed, used, history, rows, hook>>
    BY <1>11 DEF Close, ledger
  <2>2. CASE Become(w, IdleWork)
    BY <1>0, <2>1, <2>2, TurnTo, RowsStay, RestStays, IdleFields, IdleIsWork
    DEF OnRow, Listing, Deciding, Empty
  <2>3. ASSUME NEW pc \in {"sampled", "finish"}, Goto(w, pc)
        PROVE  TypedInv'
    <3> DEFINE l == [work[w] EXCEPT !.pc = pc]
    <3>1. l \in Work /\ l.pc = pc /\ Become(w, l)
      BY <1>0, <2>3, WorkFields DEF Goto, Fields
    <3> HIDE DEF l
    <3> QED
      BY <1>0, <2>1, <2>3, <3>1, TurnTo, RowsStay, RestStays DEF OnRow, Listing, Deciding, Empty
  <2> QED
    BY <1>11, <2>2, <2>3 DEF Close
<1>12. CASE Sampled(w)
  <2>1. /\ Become(w, IdleWork) /\ campaign' = [campaign EXCEPT !.sample = "sent"]
        /\ UNCHANGED <<kind, suppressed, used, history, rows, hook>>
    BY <1>12 DEF Sampled, ledger
  <2>2. campaign' \in Campaign
    BY <1>0, <2>1, CampaignFields
  <2>3. Rest'
    BY <2>1, <2>2, TypeParts DEF TypedInv, Rest, history
  <2> QED
    BY <1>0, <2>1, <2>3, TurnTo, RowsStay, IdleFields, IdleIsWork DEF OnRow, Listing, Deciding, Empty
<1>13. CASE FinishCampaign(w)
  <2>1. /\ Become(w, IdleWork) /\ Undo("SENT")
        /\ campaign' = [campaign EXCEPT !.status = "SENT",
                                       !.sample = IF @ = "unsent" THEN "sent" ELSE @]
        /\ UNCHANGED <<kind, suppressed, used, mailed, frozen, checked, wronged, stopped, after, rows, hook>>
    BY <1>13 DEF FinishCampaign, ledger
  <2>2. campaign' \in Campaign
    BY <1>0, <2>1, CampaignFields DEF Statuses
  <2>3. undone' \in BOOLEAN
    BY <2>1, TypeParts DEF TypedInv, Rest, Undo
  <2> QED
    BY <1>0, <2>1, <2>2, <2>3, TurnTo, RowsStay, CampaignMoves, IdleFields, IdleIsWork
    DEF OnRow, Listing, Deciding, Empty
<1>14. CASE JudgeTest(w)
  <2>1. /\ UNCHANGED <<kind, campaign, suppressed, used, history, rows, hook>> /\ Goto(w, "compare")
        /\ work[w].left = {}
    BY <1>0, <1>14 DEF JudgeTest, ledger, TypedInv, HandsFull, Empty
  <2> DEFINE l == [work[w] EXCEPT !.pc = "compare"]
  <2>2. l \in Work /\ l.pc = "compare" /\ l.left = {} /\ Become(w, l)
    BY <1>0, <2>1, WorkFields DEF Goto, Fields
  <2> HIDE DEF l
  <2> QED
    BY <1>0, <2>1, <2>2, TurnTo, RowsStay, RestStays DEF OnRow, Listing, Deciding, Empty
<1> QED
  BY <1>1, <1>2, <1>3, <1>4, <1>5, <1>6, <1>7, <1>8, <1>9, <1>10, <1>11, <1>12, <1>13, <1>14
  DEF WorkerStep

LEMMA DecisionTyped ==
  ASSUME TypedInv, NEW w \in Deciders, DecisionStep(w)
  PROVE  TypedInv'
<1>0. /\ w \in Workers \cup Admins /\ work[w] \in Work /\ DOMAIN work[w] = Fields
      /\ work[w].left \subseteq Contacts /\ work[w].winner \in Variants \cup {None}
      /\ campaign \in Campaign
  BY WorkOf, TypeParts DEF TypedInv, Rest, Deciders, Workers
<1>1. CASE Compare(w)
  <2>1. UNCHANGED <<kind, campaign, suppressed, used, history, rows, hook>> /\ work[w].left = {}
    BY <1>0, <1>1 DEF Compare, ledger, TypedInv, HandsFull, Empty
  <2>2. CASE CurrentWinner = 0
    <3>1. Become(w, IdleWork)
      BY <1>1, <2>2 DEF Compare
    <3> QED
      BY <1>0, <2>1, <3>1, TurnTo, RowsStay, RestStays, IdleFields, IdleIsWork
      DEF OnRow, Listing, Deciding, Empty
  <2>3. CASE CurrentWinner # 0
    <3>1. PICK v : v = CurrentWinner
      OBVIOUS
    <3>2. Become(w, [work[w] EXCEPT !.pc = "decide", !.winner = v])
      BY <1>1, <2>3, <3>1 DEF Compare
    <3>3. v \in Variants /\ v # None
      BY <2>3, <3>1, WinnerIsVariant, CampaignAssumption DEF Variants
    <3> DEFINE k == [work[w] EXCEPT !.pc = "decide"]
               l == [k EXCEPT !.winner = v]
    <3>4. k \in Work
      BY <1>0, WorkFields
    <3>5. l \in Work /\ l.pc = "decide" /\ l.winner = v /\ l.left = {} /\ Become(w, l)
      BY <1>0, <2>1, <3>2, <3>3, <3>4, WorkFields DEF Fields
    <3> HIDE DEF k, l
    <3> QED
      BY <1>0, <2>1, <3>3, <3>5, TurnTo, RowsStay, RestStays DEF OnRow, Listing, Deciding, Empty
  <2> QED
    BY <2>2, <2>3
<1>2. CASE Decide(w)
  <2>1. /\ campaign' = [campaign EXCEPT !.winner = work[w].winner]
        /\ UNCHANGED <<kind, suppressed, used, history, rows, hook>>
    BY <1>2 DEF Decide, ledger
  <2>2. campaign' \in Campaign
    BY <1>0, <2>1, CampaignFields
  <2>3. Rest'
    BY <2>1, <2>2, TypeParts DEF TypedInv, Rest, history
  <2>4. work[w].winner # None
    BY <1>0, <1>2 DEF Decide, TypedInv, HandsFull, Deciding
  <2>5. CASE Goto(w, "heldback")
    <3> DEFINE l == [work[w] EXCEPT !.pc = "heldback"]
    <3>1. l \in Work /\ l.pc = "heldback" /\ l.winner = work[w].winner /\ Become(w, l)
      BY <1>0, <2>5, WorkFields DEF Goto, Fields
    <3> HIDE DEF l
    <3> QED
      BY <1>0, <2>1, <2>3, <2>4, <3>1, TurnTo, RowsStay DEF OnRow, Listing, Deciding, Empty
  <2>6. CASE Goto(w, "assign")
    <3> DEFINE l == [work[w] EXCEPT !.pc = "assign"]
    <3>1. /\ l \in Work /\ l.pc = "assign" /\ l.winner = work[w].winner
          /\ l.left = work[w].left /\ Become(w, l)
      BY <1>0, <2>6, WorkFields DEF Goto, Fields
    <3>2. work[w].left = {}
      BY <1>0, <1>2 DEF Decide, TypedInv, HandsFull, Empty
    <3> HIDE DEF l
    <3> QED
      BY <1>0, <2>1, <2>3, <2>4, <3>1, <3>2, TurnTo, RowsStay DEF OnRow, Listing, Deciding, Empty
  <2> QED
    BY <1>2, <2>5, <2>6 DEF Decide
<1>3. CASE ListHeldBack(w)
  <2> DEFINE S == {c \in RowsWith("PENDING") : rows[c].variant = 0}
             k == [work[w] EXCEPT !.pc = "assign"]
             l == [k EXCEPT !.left = S]
  <2>1. S \subseteq Contacts /\ \A c \in S : rows[c] # None
    BY DEF RowsWith
  <2>2. Become(w, l) /\ UNCHANGED <<kind, campaign, suppressed, used, history, rows, hook>>
        /\ work[w].winner # None
    BY <1>0, <1>3 DEF ListHeldBack, ledger, Fields, TypedInv, HandsFull, Deciding
  <2> HIDE DEF S
  <2>3. k \in Work
    BY <1>0, WorkFields
  <2>4. l \in Work /\ l.pc = "assign" /\ l.left = S /\ l.winner = work[w].winner
    BY <1>0, <2>1, <2>3, WorkFields DEF Fields
  <2> HIDE DEF k, l
  <2> QED
    BY <1>0, <2>1, <2>2, <2>4, TurnTo, RowsStay, RestStays DEF OnRow, Listing, Deciding, Empty
<1>4. CASE AssignWinner(w)
  <2>1. work[w].pc = "assign" /\ UNCHANGED <<kind, campaign, suppressed, used, history, hook>>
    BY <1>4 DEF AssignWinner
  <2>2. work[w].left # {} /\ work[w].left \subseteq Nat
    BY <1>0, <1>4, CampaignAssumption DEF AssignWinner
  <2>3. Min(work[w].left) \in work[w].left
    BY <2>2, LeastOf DEF Min
  <2>4. PICK c \in work[w].left :
          /\ rows' = [rows EXCEPT ![c].variant = work[w].winner]
          /\ Become(w, [work[w] EXCEPT !.left = @ \ {c}])
    BY <1>4, <2>3 DEF AssignWinner
  <2>5. /\ c \in Contacts /\ rows[c] # None /\ work[w].winner \in Variants
        /\ \A d \in work[w].left : rows[d] # None
    BY <1>0, <2>1 DEF TypedInv, HandsFull, Listing, Deciding
  <2> DEFINE r == [rows[c] EXCEPT !.variant = work[w].winner]
             l == [work[w] EXCEPT !.left = work[w].left \ {c}]
  <2>6. rows[c] \in Recipient /\ DOMAIN rows = Contacts
    BY <2>5, TypeParts DEF TypedInv
  <2>7. r \in Recipient /\ r.id = rows[c].id /\ rows' = [rows EXCEPT ![c] = r]
    BY <2>4, <2>5, <2>6, RowFields DEF Recipient
  <2>8. /\ l \in Work /\ l.pc = "assign" /\ l.winner = work[w].winner
        /\ l.left = work[w].left \ {c} /\ Become(w, l)
    BY <1>0, <2>1, <2>4, WorkFields DEF Fields
  <2> HIDE DEF r, l
  <2>9. RowsGrow
    BY <2>5, <2>7, RowChanges
  <2>10. \A d \in l.left : rows'[d] # None
    BY <1>0, <2>5, <2>8, <2>9 DEF RowsGrow
  <2>11. l.winner # None
    BY <2>5, <2>8, CampaignAssumption DEF Variants
  <2> QED
    BY <1>0, <2>1, <2>8, <2>9, <2>10, <2>11, TurnTo, RestStays DEF OnRow, Listing, Deciding, Empty
<1>5. CASE Decided(w)
  <2>1. UNCHANGED <<kind, campaign, suppressed, used, history, rows, hook>>
    BY <1>5 DEF Decided, ledger
  <2>2. CASE Become(w, IdleWork)
    BY <1>0, <2>1, <2>2, TurnTo, RowsStay, RestStays, IdleFields, IdleIsWork
    DEF OnRow, Listing, Deciding, Empty
  <2>3. CASE Become(w, [IdleWork EXCEPT !.pc = "dispatch"])
    <3> DEFINE l == [IdleWork EXCEPT !.pc = "dispatch"]
    <3>1. l \in Work /\ l.pc = "dispatch" /\ Become(w, l)
      BY <2>3, WorkFields, IdleIsWork DEF IdleWork
    <3> HIDE DEF l
    <3> QED
      BY <1>0, <2>1, <3>1, TurnTo, RowsStay, RestStays DEF OnRow, Listing, Deciding, Empty
  <2> QED
    BY <1>5, <2>2, <2>3 DEF Decided
<1> QED
  BY <1>1, <1>2, <1>3, <1>4, <1>5 DEF DecisionStep

LEMMA AdminTyped ==
  ASSUME TypedInv, NEW a \in Admins,
         AdminStep(a)
  PROVE  TypedInv'
<1>0. /\ a \in Workers \cup Admins /\ campaign \in Campaign
      /\ used \in [{"requests", "receipts", "leaves", "faults"} -> Nat]
  BY TypeParts DEF TypedInv, Rest
<1>1. CASE WriteCampaign(a)
  <2>1. /\ UNCHANGED <<kind, suppressed, used, mailed, frozen, checked, wronged, rows, hook>>
        /\ Become(a, IdleWork) /\ work[a].op \in Writes
    BY <1>0, <1>1 DEF WriteCampaign, ledger, TypedInv, HandsFull
  <2>2. campaign' \in Campaign
    <3>1. CASE work[a].op = "schedule"
      BY <1>0, <1>1, <3>1, CampaignFields DEF WriteCampaign, Statuses
    <3>2. CASE work[a].op \in {"send", "resume"}
      BY <1>0, <1>1, <3>2, CampaignFields DEF WriteCampaign, Statuses
    <3>3. CASE work[a].op = "resume draining"
      BY <1>0, <1>1, <3>3, CampaignFields DEF WriteCampaign, Statuses
    <3>4. CASE work[a].op = "pause"
      BY <1>0, <1>1, <3>4, CampaignFields DEF WriteCampaign, Statuses
    <3>5. CASE work[a].op = "cancel"
      BY <1>0, <1>1, <3>5, CampaignFields DEF WriteCampaign, Statuses
    <3>6. CASE work[a].op = "edit"
      BY <1>0, <1>1, <3>6, CampaignFields DEF WriteCampaign
    <3> QED
      BY <2>1, <3>1, <3>2, <3>3, <3>4, <3>5, <3>6 DEF Writes
  <2>3. stopped' \in BOOLEAN /\ undone' \in BOOLEAN /\ after' \in [Workers -> Nat]
    BY <1>1, TypeParts DEF WriteCampaign, TypedInv, Rest
  <2>4. Rest'
    BY <2>1, <2>2, <2>3, TypeParts DEF TypedInv, Rest
  <2> QED
    BY <1>0, <2>1, <2>4, TurnTo, RowsStay, IdleFields, IdleIsWork DEF OnRow, Listing, Deciding, Empty
<1>2. ASSUME NEW op \in Ops, Request(a, op) PROVE TypedInv'
  <2>1. UNCHANGED <<kind, campaign, suppressed, history, rows, hook>> /\ Spend("requests")
    BY <1>2 DEF Request, ledger
  <2>2. used' \in [{"requests", "receipts", "leaves", "faults"} -> Nat]
    BY <2>1, FaultCounted
  <2>3. Rest'
    BY <2>1, <2>2, TypeParts DEF TypedInv, Rest, history
  <2> DEFINE pc == CASE op = "decide" -> "compare" [] op = "resume" -> "count" [] OTHER -> "write"
             k == [IdleWork EXCEPT !.pc = pc]
             l == [k EXCEPT !.op = op]
  <2>4. Become(a, l)
    BY <1>2 DEF Request, IdleWork
  <2>5. pc \in {"compare", "count", "write"} /\ op \in Ops \cup {"resume draining", None}
    OBVIOUS
  <2>6. pc \in {"count", "write"} => op \in Writes
    BY CampaignAssumption DEF Writes
  <2> HIDE DEF pc
  <2>7. k \in Work
    BY <2>5, IdleIsWork, WorkFields
  <2>8. l \in Work /\ l.pc = pc /\ l.op = op /\ l.left = {}
    BY <2>5, <2>7, WorkFields DEF IdleWork
  <2> HIDE DEF k, l
  <2> QED
    BY <1>0, <2>1, <2>3, <2>4, <2>5, <2>6, <2>8, TurnTo, RowsStay DEF OnRow, Listing, Deciding, Empty
<1>3. CASE CountRecipients(a)
  <2>1. /\ UNCHANGED <<kind, campaign, suppressed, used, history, rows, hook>>
        /\ work[a].op \in Writes /\ work[a] \in Work
    BY <1>0, <1>3, WorkOf DEF CountRecipients, ledger, TypedInv, HandsFull
  <2>2. work[a].op \in Ops \cup {"resume draining", None}
    BY <2>1 DEF Work
  <2>3. PICK op \in Writes \cap (Ops \cup {"resume draining", None}) :
          Become(a, [work[a] EXCEPT !.pc = "write", !.op = op])
    BY <1>3, <2>1, <2>2 DEF CountRecipients, Writes
  <2> DEFINE k == [work[a] EXCEPT !.pc = "write"]
             l == [k EXCEPT !.op = op]
  <2>4. DOMAIN work[a] = Fields
    BY <1>0, WorkOf
  <2>5. k \in Work
    BY <2>1, WorkFields
  <2>6. l \in Work
    BY <2>3, <2>5, WorkFields
  <2>7. l.pc = "write" /\ l.op = op /\ Become(a, l)
    BY <2>3, <2>4 DEF Fields
  <2> HIDE DEF k, l
  <2> QED
    BY <1>0, <2>1, <2>3, <2>6, <2>7, TurnTo, RowsStay, RestStays DEF OnRow, Listing, Deciding, Empty
<1> QED
  BY <1>1, <1>2, <1>3 DEF AdminStep

(* A step of nobody who holds anything: the hooks, time and the link.      *)
LEMMA OthersTyped ==
  ASSUME TypedInv, Rest', RowsGrow, UNCHANGED work, hook' \in [Hooks -> Handling], ReceiptsFit'
  PROVE  TypedInv'
<1>1. TypeOK'
  BY TypeParts DEF TypedInv, TypeOK, Rest, RowsGrow
<1>2. HandsFull'
  <2>1. \A w \in Workers \cup Admins : work[w].left \subseteq Contacts
    BY WorkOf
  <2> QED
    BY <2>1 DEF TypedInv, HandsFull, RowsGrow
<1> QED
  BY <1>1, <1>2 DEF TypedInv

LEMMA ReceiptsStay == ASSUME TypedInv, RowsGrow, UNCHANGED hook PROVE ReceiptsFit'
BY DEF TypedInv, ReceiptsFit, RowsGrow

LEMMA SuppressTyped ==
  ASSUME TypedInv, NEW c \in Contacts, Suppress(c),
         UNCHANGED <<kind, campaign, mailed, frozen, wronged, stopped, undone, after>>,
         used' \in [{"requests", "receipts", "leaves", "faults"} -> Nat]
  PROVE  Rest'
<1>1. suppressed' \subseteq Contacts
  BY TypeParts DEF TypedInv, Rest, Suppress
<1>2. checked' \in [Contacts -> SUBSET Workers]
  <2> DEFINE S == {w \in Workers : work[w].pc = "send" /\ work[w].at = c}
  <2>1. S \in SUBSET Workers /\ checked \in [Contacts -> SUBSET Workers]
    BY TypeParts DEF TypedInv, Rest
  <2>2. checked' = checked \/ checked' = [checked EXCEPT ![c] = S]
    BY DEF Suppress
  <2> HIDE DEF S
  <2> QED
    BY <2>1, <2>2
<1> QED
  BY <1>1, <1>2, TypeParts DEF TypedInv, Rest

LEMMA RanksAreNumbers == \A s : FunnelRank(s) \in 0 .. 3
<1> SUFFICES ASSUME NEW s PROVE FunnelRank(s) \in 0 .. 3
  OBVIOUS
<1>1. FunnelRank(s) \in {0, 1, 2, 3}
  BY DEF FunnelRank
<1> QED
  BY <1>1

LEMMA ReceiptTyped ==
  ASSUME TypedInv, NEW h \in Hooks,
         \/ \E c \in Contacts, e \in Receipts : Receive(h, c, e)
         \/ WriteReceipt(h) \/ SuppressBounced(h)
  PROVE  TypedInv'
<1>0. /\ hook \in [Hooks -> Handling] /\ hook[h] \in Handling
      /\ rows \in [Contacts -> Recipient \cup {None}]
  BY TypeParts DEF TypedInv
<1>1. ASSUME NEW c \in Contacts, NEW e \in Receipts, Receive(h, c, e) PROVE TypedInv'
  <2>1. /\ UNCHANGED <<kind, campaign, suppressed, rows, work, history>> /\ Spend("receipts")
        /\ rows[c] # None /\ rows[c].id
    BY <1>1 DEF Receive, ledger
  <2>2. Rest' /\ RowsGrow
    BY <2>1, FaultCounted, RowsStay, TypeParts DEF TypedInv, Rest, history
  <2> DEFINE v == [pc |-> "write", contact |-> c, event |-> e, seen |-> rows[c].status]
  <2>3. rows[c].status \in RowStatuses
    BY <1>0, <2>1 DEF Recipient
  <2>4. v \in Handling /\ IdleHook \in Handling
    BY <2>3 DEF Handling, IdleHook
  <2>5. CASE hook' = [hook EXCEPT ![h] = IdleHook]
    <3>1. ReceiptsFit'
      BY <1>0, <2>1, <2>5 DEF TypedInv, ReceiptsFit, IdleHook
    <3> QED
      BY <1>0, <2>1, <2>2, <2>4, <2>5, <3>1, OthersTyped
  <2>6. CASE /\ hook' = [hook EXCEPT ![h] = v]
             /\ e \in Funnel => ~ (FunnelRank(e) <= FunnelRank(rows[c].status))
    <3>1. e \in Funnel => FunnelRank(rows[c].status) < FunnelRank(e)
      BY <2>6, RanksAreNumbers
    <3>2. /\ \A g \in Hooks : g # h => hook'[g] = hook[g]
          /\ hook'[h] = v
      BY <1>0, <2>6
    <3>3. ReceiptsFit'
      BY <2>1, <3>1, <3>2 DEF TypedInv, ReceiptsFit
    <3> QED
      BY <1>0, <2>1, <2>2, <2>4, <2>6, <3>3, OthersTyped
  <2> QED
    BY <1>1, <2>5, <2>6 DEF Receive
<1>2. CASE WriteReceipt(h)
  <2>1. /\ UNCHANGED <<kind, campaign, suppressed, used, work, history>>
        /\ Mark(hook[h].contact, hook[h].event)
        /\ hook[h].contact \in Contacts /\ hook[h].event \in Receipts
        /\ rows[hook[h].contact] # None /\ rows[hook[h].contact].id
    BY <1>2 DEF WriteReceipt, TypedInv, ReceiptsFit
  <2>2. hook[h].event \in RowStatuses
    BY <2>1, CampaignAssumption DEF RowStatuses, Reached
  <2>3. RowsGrow
    BY <2>1, <2>2, MarkGrows
  <2> DEFINE v == IF hook[h].event = "BOUNCED" THEN [hook[h] EXCEPT !.pc = "suppress"] ELSE IdleHook
  <2>4. hook' = [hook EXCEPT ![h] = v]
    BY <1>0, <1>2 DEF WriteReceipt
  <2>5. /\ v \in Handling /\ v.pc \in {"suppress", "idle"}
        /\ v.pc = "suppress" => v.contact = hook[h].contact /\ v.event = hook[h].event
    BY <1>0 DEF Handling, IdleHook
  <2> HIDE DEF v
  <2>6. /\ \A g \in Hooks : g # h => hook'[g] = hook[g]
        /\ hook'[h] = v
    BY <1>0, <2>4
  <2>7. ReceiptsFit'
    BY <2>1, <2>3, <2>5, <2>6 DEF TypedInv, ReceiptsFit, RowsGrow
  <2> QED
    BY <1>0, <2>1, <2>3, <2>4, <2>5, <2>7, OthersTyped, RestStays
<1>3. CASE SuppressBounced(h)
  <2>1. /\ UNCHANGED <<kind, campaign, rows, work, used, mailed, frozen, wronged, stopped, undone, after>>
        /\ Suppress(hook[h].contact) /\ hook[h].contact \in Contacts
        /\ hook' = [hook EXCEPT ![h] = IdleHook]
    BY <1>3 DEF SuppressBounced, TypedInv, ReceiptsFit
  <2>2. used' \in [{"requests", "receipts", "leaves", "faults"} -> Nat]
    BY <2>1, TypeParts DEF TypedInv, Rest
  <2>3. Rest'
    BY <2>1, <2>2, SuppressTyped
  <2>4. ReceiptsFit'
    BY <1>0, <2>1 DEF TypedInv, ReceiptsFit, IdleHook
  <2>5. IdleHook \in Handling
    BY DEF Handling, IdleHook
  <2> QED
    BY <1>0, <2>1, <2>3, <2>4, <2>5, OthersTyped, RowsStay
<1> QED
  BY <1>1, <1>2, <1>3

LEMMA StepTyped == TypedInv /\ [Next]_vars => TypedInv'
<1> SUFFICES ASSUME TypedInv, [Next]_vars PROVE TypedInv'
  OBVIOUS
<1>1. CASE UNCHANGED vars
  <2>1. UNCHANGED <<kind, campaign, suppressed, used, history, rows, work, hook>>
    BY <1>1 DEF vars, ledger
  <2> QED
    BY <2>1, OthersTyped, RowsStay, RestStays, ReceiptsStay, TypeParts DEF TypedInv
<1>2. ASSUME NEW w \in Workers, RecordFailed(w) PROVE TypedInv'
  <2>1. /\ UNCHANGED <<kind, campaign, suppressed, history, hook>> /\ NextUp(w)
        /\ work[w].pc \in OnRow /\ Mark(work[w].at, "FAILED") /\ Spend("faults")
        /\ work[w].at \in Contacts /\ rows[work[w].at] # None
    BY <1>2 DEF RecordFailed, TypedInv, HandsFull, OnRow
  <2>2. RowsGrow
    BY <2>1, MarkGrows DEF RowStatuses
  <2>3. Rest'
    BY <2>1, FaultCounted, TypeParts DEF TypedInv, Rest, history
  <2> QED
    BY <2>1, <2>2, <2>3, NextUpTyped
<1>3. ASSUME NEW w \in Workers, Crash(w) PROVE TypedInv'
  <2>1. /\ UNCHANGED <<kind, campaign, suppressed, rows, hook>> /\ Spend("faults")
        /\ UNCHANGED <<frozen, checked, wronged, stopped, undone, after>>
        /\ Become(w, IdleWork) /\ mailed' = [mailed EXCEPT ![w] = [c \in Contacts |-> 0]]
    BY <1>3 DEF Crash, ledger
  <2>2. Rest'
    BY <2>1, FaultCounted, TypeParts DEF TypedInv, Rest
  <2> QED
    BY <2>1, <2>2, TurnTo, RowsStay, IdleFields, IdleIsWork DEF OnRow, Listing, Deciding, Empty
<1>4. CASE DateComes \/ WindowPasses
  <2>1. UNCHANGED <<kind, rows, work, suppressed, used, history, hook>>
    BY <1>4 DEF DateComes, WindowPasses, ledger
  <2>2. campaign' \in Campaign
    BY <1>4, CampaignFields, TypeParts DEF DateComes, WindowPasses, TypedInv, Rest
  <2>3. Rest'
    BY <2>1, <2>2, TypeParts DEF TypedInv, Rest, history
  <2> QED
    BY <2>1, <2>3, OthersTyped, RowsStay, ReceiptsStay, TypeParts DEF TypedInv
<1>5. ASSUME NEW c \in Contacts, Unsubscribe(c) PROVE TypedInv'
  <2>1. /\ UNCHANGED <<kind, campaign, rows, work, hook, mailed, frozen, wronged, stopped, undone, after>>
        /\ Suppress(c) /\ Spend("leaves")
    BY <1>5 DEF Unsubscribe
  <2>2. Rest'
    BY <2>1, SuppressTyped, FaultCounted
  <2> QED
    BY <2>1, <2>2, OthersTyped, RowsStay, ReceiptsStay, TypeParts DEF TypedInv
<1> QED
  BY <1>1, <1>2, <1>3, <1>4, <1>5, DispatchTyped, DecisionTyped, AdminTyped, ReceiptTyped DEF Next

LEMMA TypedInvariant == Spec => []TypedInv
BY TypedInit, StepTyped, PTL DEF Spec

(* The campaign, its rows and what every handler holds keep their types;   *)
(* in particular no handler writes to a recipient that does not exist.     *)
THEOREM CampaignTypeCorrect == Spec => []TypeOK
<1>1. TypedInv => TypeOK
  BY DEF TypedInv
<1> QED
  BY <1>1, TypedInvariant, PTL

-----------------------------------------------------------------------------
(* Receipts and the funnel.                                                *)
Forward ==
  \A c \in Contacts :
    /\ rows[c] # None /\ rows'[c].status \in Funnel
    /\ FunnelRank(rows'[c].status) < FunnelRank(rows[c].status)
    => \E h \in Hooks : hook[h].contact = c /\ hook[h].seen # rows[c].status

(* A step that leaves each status alone, or makes it one of no rank.       *)
LEMMA NoDescent ==
  ASSUME \A c \in Contacts : rows[c] # None =>
           rows'[c].status = rows[c].status \/ rows'[c].status \notin Funnel
  PROVE  Forward
<1> SUFFICES ASSUME NEW c \in Contacts, rows[c] # None, rows'[c].status \in Funnel,
                    FunnelRank(rows'[c].status) < FunnelRank(rows[c].status)
             PROVE  FALSE
  BY DEF Forward
<1>1. rows'[c].status = rows[c].status
  OBVIOUS
<1> DEFINE r == FunnelRank(rows[c].status)
<1>2. r \in 0 .. 3 /\ FunnelRank(rows'[c].status) = r
  BY <1>1, RanksAreNumbers
<1> HIDE DEF r
<1>3. ~ (r < r)
  BY <1>2
<1> QED
  BY <1>2, <1>3 DEF r

LEMMA MarkedForward ==
  ASSUME TypedInv, NEW c \in Contacts, rows[c] # None, NEW s \in RowStatuses, s \notin Funnel, Mark(c, s)
  PROVE  Forward
<1>1. rows[c] \in Recipient /\ DOMAIN rows = Contacts
  BY TypeParts DEF TypedInv
<1>2. rows' = [rows EXCEPT ![c] = [rows[c] EXCEPT !.status = s]]
  BY MarkGrows
<1>3. [rows[c] EXCEPT !.status = s].status = s
  BY <1>1 DEF Recipient
<1>4. \A d \in Contacts : rows'[d].status = IF d = c THEN s ELSE rows[d].status
  BY <1>1, <1>2, <1>3
<1> QED
  BY <1>4, NoDescent

LEMMA StepForward == TypedInv /\ [Next]_vars => [Forward]_vars
<1> SUFFICES ASSUME TypedInv, Next PROVE Forward
  OBVIOUS
<1> USE DEF Workers
<1>1. CASE UNCHANGED rows
  BY <1>1, NoDescent
<1>2. ASSUME NEW w \in Workers, CreateRecipient(w) PROVE Forward
  <2>1. PICK a \in work[w].fill :
          rows' = IF rows[a[1]] # None THEN rows
                  ELSE [rows EXCEPT ![a[1]] = [status |-> "PENDING", variant |-> a[2], id |-> FALSE]]
    BY <1>2 DEF CreateRecipient
  <2>2. \A c \in Contacts : rows[c] # None => rows'[c] = rows[c]
    BY <2>1, TypeParts DEF TypedInv
  <2> QED
    BY <2>2, NoDescent
<1>3. ASSUME NEW w \in Workers, work[w].pc \in OnRow,
             NEW s \in {"UNSUBSCRIBED", "QUEUED", "FAILED"}, Mark(work[w].at, s)
      PROVE  Forward
  <2>1. work[w].at \in Contacts /\ rows[work[w].at] # None
    BY <1>3 DEF TypedInv, HandsFull
  <2> QED
    BY <1>3, <2>1, MarkedForward DEF RowStatuses, Funnel
<1>4. ASSUME NEW w \in Workers, RecordSent(w) PROVE Forward
  <2>1. work[w].at \in Contacts /\ rows[work[w].at] # None
    BY <1>4 DEF RecordSent, TypedInv, HandsFull, OnRow
  <2>2. PICK c \in Contacts : c = work[w].at
    BY <2>1
  <2>3. rows' = [rows EXCEPT ![c] = [rows[c] EXCEPT !.status = "SENT", !.id = TRUE]]
    BY <1>4, <2>1, <2>2, RowSent DEF RecordSent
  <2>4. rows[c] \in Recipient /\ DOMAIN rows = Contacts
    BY <2>1, <2>2, TypeParts DEF TypedInv
  <2>5. [rows[c] EXCEPT !.status = "SENT", !.id = TRUE].status = "SENT"
    BY <2>4 DEF Recipient
  <2>6. \A d \in Contacts : rows'[d].status = IF d = c THEN "SENT" ELSE rows[d].status
    BY <2>3, <2>4, <2>5
  <2> QED
    BY <2>6, NoDescent DEF Funnel
<1>5. ASSUME NEW w \in Deciders, AssignWinner(w) PROVE Forward
  <2>1. PICK c : rows' = [rows EXCEPT ![c].variant = work[w].winner]
    BY <1>5 DEF AssignWinner
  <2>2. \A d \in Contacts : rows[d] # None => rows[d] \in Recipient
    BY TypeParts DEF TypedInv
  <2>3. \A d \in Contacts : rows[d] # None => rows'[d].status = rows[d].status
    BY <2>1, <2>2, TypeParts DEF TypedInv, Recipient
  <2> QED
    BY <2>3, NoDescent
<1>6. ASSUME NEW h \in Hooks, WriteReceipt(h) PROVE Forward
  <2>1. /\ Mark(hook[h].contact, hook[h].event) /\ hook[h].pc = "write"
        /\ hook[h].contact \in Contacts /\ hook[h].event \in Receipts
        /\ rows[hook[h].contact] # None
    BY <1>6 DEF WriteReceipt, TypedInv, ReceiptsFit
  <2>2. PICK c \in Contacts, e \in Receipts : c = hook[h].contact /\ e = hook[h].event
    BY <2>1
  <2>3. e \in RowStatuses
    BY CampaignAssumption DEF RowStatuses, Reached
  <2>4. CASE e \notin Funnel
    BY <2>1, <2>2, <2>3, <2>4, MarkedForward
  <2>5. CASE e \in Funnel
    <3>1. FunnelRank(hook[h].seen) < FunnelRank(e)
      BY <2>1, <2>2, <2>5 DEF TypedInv, ReceiptsFit
    <3>2. rows[c] \in Recipient /\ DOMAIN rows = Contacts
      BY <2>1, <2>2, TypeParts DEF TypedInv
    <3>3. rows' = [rows EXCEPT ![c] = [rows[c] EXCEPT !.status = e]]
      BY <2>1, <2>2, <2>3, MarkGrows
    <3>4. [rows[c] EXCEPT !.status = e].status = e
      BY <3>2 DEF Recipient
    <3>5. \A d \in Contacts : rows'[d].status = IF d = c THEN e ELSE rows[d].status
      BY <3>2, <3>3, <3>4
    <3> SUFFICES ASSUME NEW d \in Contacts, rows[d] # None,
                        FunnelRank(rows'[d].status) < FunnelRank(rows[d].status)
                 PROVE  hook[h].contact = d /\ hook[h].seen # rows[d].status
      BY DEF Forward
    <3>6. CASE d # c
      <4> DEFINE r == FunnelRank(rows[d].status)
      <4>1. r \in 0 .. 3 /\ FunnelRank(rows'[d].status) = r
        BY <3>5, <3>6, RanksAreNumbers
      <4> HIDE DEF r
      <4>2. ~ (r < r)
        BY <4>1
      <4> QED
        BY <4>1, <4>2 DEF r
    <3>7. CASE d = c
      <4> DEFINE r == FunnelRank(rows[d].status)
                 n == FunnelRank(e)
                 m == FunnelRank(hook[h].seen)
      <4>1. r \in 0 .. 3 /\ n \in 0 .. 3 /\ m \in 0 .. 3 /\ m < n /\ n < r
        BY <3>1, <3>5, <3>7, RanksAreNumbers
      <4> HIDE DEF r, n, m
      <4>2. m # r
        BY <4>1
      <4> QED
        BY <2>2, <3>7, <4>2 DEF r, m
    <3> QED
      BY <3>6, <3>7
  <2> QED
    BY <2>4, <2>5
<1>7. ASSUME NEW w \in Workers, WorkerStep(w) PROVE Forward
  <2>1. CASE Vet(w)
    BY <1>1, <1>3, <2>1 DEF Vet, OnRow
  <2>2. CASE ~ Vet(w) /\ ~ RecordSent(w) /\ ~ CreateRecipient(w)
    <3>1. UNCHANGED rows
      BY <1>7, <2>2 DEF WorkerStep, Begin, ReadAudience, Filled, Open, ListPending, NextRecipient,
                        Send, Close, Sampled, FinishCampaign, JudgeTest, ledger
    <3> QED
      BY <1>1, <3>1
  <2> QED
    BY <1>2, <1>4, <2>1, <2>2
<1>8. ASSUME NEW w \in Deciders, DecisionStep(w) PROVE Forward
  <2>1. CASE ~ AssignWinner(w)
    BY <1>1, <1>8, <2>1 DEF DecisionStep, Compare, Decide, ListHeldBack, Decided, ledger
  <2> QED
    BY <1>5, <2>1
<1>9. ASSUME NEW w \in Workers, RecordFailed(w) \/ Crash(w) PROVE Forward
  BY <1>1, <1>3, <1>9 DEF RecordFailed, Crash, ledger, OnRow
<1>10. CASE \E a \in Admins : AdminStep(a)
  BY <1>1, <1>10 DEF AdminStep, CountRecipients, WriteCampaign, Request, ledger
<1>11. CASE DateComes \/ WindowPasses
  BY <1>1, <1>11 DEF DateComes, WindowPasses, ledger
<1>12. CASE \E c \in Contacts : Unsubscribe(c) \/ \E h \in Hooks, e \in Receipts : Receive(h, c, e)
  BY <1>1, <1>12 DEF Unsubscribe, Receive, ledger
<1>13. CASE \E h \in Hooks : WriteReceipt(h) \/ SuppressBounced(h)
  BY <1>1, <1>6, <1>13 DEF SuppressBounced
<1> QED
  BY <1>7, <1>8, <1>9, <1>10, <1>11, <1>12, <1>13 DEF Next

(* A receipt that comes late or twice takes nobody back down the funnel,   *)
(* unless the row changed between the receipt's two queries.               *)
THEOREM ReceiptsGoForward == Spec => FunnelForward
<1>1. FunnelForward <=> [][Forward]_vars
  BY PTL DEF FunnelForward, Forward
<1> QED
  BY <1>1, TypedInvariant, StepForward, PTL DEF Spec

-----------------------------------------------------------------------------
(* How often a worker mails one contact.  While its row is missing or      *)
(* PENDING, only a worker that has yet to record its message has mailed    *)
(* it; afterwards, whoever still has it listed has not.                    *)
Waiting(c) == rows[c] = None \/ rows[c].status = "PENDING"
Claimed(l, c) ==
  \/ l.pc \in {"next", "vet", "send", "sent"} /\ c \in l.left
  \/ l.pc \in {"vet", "send"} /\ l.at = c
Unrecorded(l, c) == l.pc = "sent" /\ l.at = c

Once ==
  \A w \in Workers, c \in Contacts :
    /\ mailed[w][c] <= 1
    /\ Waiting(c) /\ ~ Unrecorded(work[w], c) => mailed[w][c] = 0
    /\ ~ Waiting(c) /\ Claimed(work[w], c) => mailed[w][c] = 0

(* The provider's id comes with the status.                                *)
NoIdYet == \A c \in Contacts : rows[c] # None /\ rows[c].status = "PENDING" => ~ rows[c].id

OnceInv == TypedInv /\ Once /\ NoIdYet

WaitingStays == \A c \in Contacts : Waiting(c)' <=> Waiting(c)

(* A step of a worker in which nothing is mailed, nobody claims a          *)
(* recipient that no longer waits, and no message is forgotten.            *)
LEMMA Unmailed ==
  ASSUME OnceInv, TypedInv', NoIdYet', UNCHANGED mailed, WaitingStays,
         NEW w \in Workers, work[w].pc # "sent",
         \A u \in Workers : u # w => work'[u] = work[u],
         \A c \in Contacts : ~ Waiting(c) /\ Claimed(work[w], c)' => Claimed(work[w], c)
  PROVE  OnceInv'
<1> SUFFICES ASSUME NEW u \in Workers, NEW c \in Contacts
             PROVE  /\ mailed[u][c] <= 1
                    /\ Waiting(c) /\ ~ Unrecorded(work'[u], c) => mailed[u][c] = 0
                    /\ ~ Waiting(c) /\ Claimed(work'[u], c) => mailed[u][c] = 0
  BY DEF OnceInv, Once, WaitingStays
<1>1. Unrecorded(work[u], c) => Unrecorded(work'[u], c)
  BY DEF Unrecorded
<1>2. ~ Waiting(c) /\ Claimed(work'[u], c) => Claimed(work[u], c)
  BY DEF Claimed
<1> QED
  BY <1>1, <1>2 DEF OnceInv, Once

(* A step of no worker.                                                    *)
LEMMA OthersUnmailed ==
  ASSUME OnceInv, TypedInv', NoIdYet', UNCHANGED mailed, WaitingStays,
         \A u \in Workers : work'[u] = work[u]
  PROVE  OnceInv'
BY DEF OnceInv, Once, WaitingStays

LEMMA RowsSame == ASSUME UNCHANGED rows, NoIdYet PROVE WaitingStays /\ NoIdYet'
BY DEF WaitingStays, Waiting, NoIdYet

(* A worker is done with a recipient and marks its row.                    *)
LEMMA DoneWith ==
  ASSUME OnceInv, TypedInv', UNCHANGED mailed, NEW w \in Workers, work[w].pc \in OnRow, NextUp(w),
         rows'[work[w].at] # None, rows'[work[w].at].status # "PENDING",
         \A c \in Contacts : c # work[w].at => rows'[c] = rows[c]
  PROVE  OnceInv'
<1>at. PICK a \in Contacts : a = work[w].at
  BY DEF OnceInv, TypedInv, HandsFull, Workers
<1>0. /\ DOMAIN work[w] = Fields /\ DOMAIN work = Workers \cup Admins
      /\ a \notin work[w].left /\ rows'[a] # None /\ rows'[a].status # "PENDING"
      /\ \A c \in Contacts : c # a => rows'[c] = rows[c]
  BY <1>at, WorkOf, TypeParts DEF OnceInv, TypedInv, HandsFull, Workers
<1>1. /\ work'[w].pc = "next" /\ work'[w].left = work[w].left
      /\ \A u \in Workers : u # w => work'[u] = work[u]
  BY <1>0 DEF NextUp, Become, Fields, Workers
<1>2. NoIdYet'
  BY <1>0 DEF OnceInv, NoIdYet
<1>3. /\ ~ Waiting(a)' /\ \A c \in Contacts : c # a => (Waiting(c)' <=> Waiting(c))
  BY <1>0 DEF Waiting
<1> SUFFICES ASSUME NEW u \in Workers, NEW c \in Contacts
             PROVE  /\ mailed[u][c] <= 1
                    /\ Waiting(c)' /\ ~ Unrecorded(work'[u], c) => mailed[u][c] = 0
                    /\ ~ Waiting(c)' /\ Claimed(work'[u], c) => mailed[u][c] = 0
  BY <1>2 DEF OnceInv, Once
<1>4. Claimed(work'[u], c) => Claimed(work[u], c)
  BY <1>1 DEF Claimed, OnRow
<1>5. ~ (Claimed(work[u], c) /\ Unrecorded(work[u], c))
  BY DEF Claimed, Unrecorded, OnceInv, TypedInv, HandsFull, OnRow, Workers
<1>6. CASE c = a
  BY <1>3, <1>4, <1>5, <1>6 DEF OnceInv, Once
<1>7. CASE c # a
  <2>1. Unrecorded(work[u], c) => Unrecorded(work'[u], c)
    BY <1>1, <1>at, <1>7 DEF Unrecorded
  <2> QED
    BY <1>3, <1>4, <1>7, <2>1 DEF OnceInv, Once
<1> QED
  BY <1>6, <1>7

LEMMA SendOnce ==
  ASSUME OnceInv, TypedInv', NEW w \in Workers, Send(w)
  PROVE  OnceInv'
<1>at. PICK a \in Contacts : a = work[w].at
  BY DEF Send, OnceInv, TypedInv, HandsFull, Workers, OnRow
<1>0. /\ DOMAIN work[w] = Fields /\ DOMAIN work = Workers \cup Admins
      /\ work[w].pc = "send" /\ work[w].at = a /\ a \notin work[w].left
      /\ mailed \in [Workers -> [Contacts -> Nat]]
  BY <1>at, WorkOf, TypeParts DEF Send, OnceInv, TypedInv, HandsFull, Workers, OnRow, Rest
<1>1. /\ work'[w].pc = "sent" /\ work'[w].left = work[w].left /\ work'[w].at = a
      /\ \A u \in Workers : u # w => work'[u] = work[u]
  BY <1>0 DEF Send, Goto, Become, Fields, Workers
<1>2. mailed[w][a] = 0
  BY <1>0 DEF OnceInv, Once, Claimed, Unrecorded
<1>3. /\ mailed'[w][a] = 1
      /\ \A u \in Workers, c \in Contacts : u # w \/ c # a => mailed'[u][c] = mailed[u][c]
  BY <1>0, <1>2, <1>at DEF Send
<1>4. WaitingStays /\ NoIdYet'
  BY RowsSame DEF Send, ledger, OnceInv
<1> SUFFICES ASSUME NEW u \in Workers, NEW c \in Contacts
             PROVE  /\ mailed'[u][c] <= 1
                    /\ Waiting(c) /\ ~ Unrecorded(work'[u], c) => mailed'[u][c] = 0
                    /\ ~ Waiting(c) /\ Claimed(work'[u], c) => mailed'[u][c] = 0
  BY <1>4 DEF OnceInv, Once, WaitingStays
<1>5. CASE u = w /\ c = a
  BY <1>0, <1>1, <1>3, <1>5 DEF Claimed, Unrecorded
<1>6. CASE u = w /\ c # a
  <2>1. Claimed(work'[u], c) => Claimed(work[u], c)
    BY <1>0, <1>1, <1>6 DEF Claimed
  <2>2. ~ Unrecorded(work[u], c)
    BY <1>0, <1>6 DEF Unrecorded
  <2> QED
    BY <1>3, <1>6, <2>1, <2>2 DEF OnceInv, Once
<1>7. CASE u # w
  BY <1>1, <1>3, <1>7 DEF OnceInv, Once
<1> QED
  BY <1>5, <1>6, <1>7

LEMMA MarkChanges ==
  ASSUME TypedInv, NEW c \in Contacts, rows[c] # None, NEW s \in RowStatuses, Mark(c, s)
  PROVE  /\ rows'[c] # None /\ rows'[c].status = s
         /\ \A d \in Contacts : d # c => rows'[d] = rows[d]
<1>1. rows[c] \in Recipient /\ DOMAIN rows = Contacts
  BY TypeParts DEF TypedInv
<1>2. RowsGrow /\ rows' = [rows EXCEPT ![c] = [rows[c] EXCEPT !.status = s]]
  BY MarkGrows
<1>3. [rows[c] EXCEPT !.status = s].status = s
  BY <1>1 DEF Recipient
<1> QED
  BY <1>1, <1>2, <1>3 DEF RowsGrow

LEMMA MarkedRow ==
  ASSUME TypedInv, NEW w \in Workers, work[w].pc \in OnRow,
         NEW s \in {"UNSUBSCRIBED", "QUEUED", "FAILED"}, Mark(work[w].at, s)
  PROVE  /\ rows'[work[w].at] # None /\ rows'[work[w].at].status # "PENDING"
         /\ \A d \in Contacts : d # work[w].at => rows'[d] = rows[d]
<1>1. work[w].at \in Contacts /\ rows[work[w].at] # None
  BY DEF TypedInv, HandsFull, Workers
<1> QED
  BY <1>1, MarkChanges DEF RowStatuses

LEMMA WinnerAssigned ==
  ASSUME TypedInv, NEW w \in Workers \cup Admins, AssignWinner(w)
  PROVE  \E c \in Contacts :
           /\ rows[c] # None /\ rows'[c] # None
           /\ rows'[c].status = rows[c].status /\ rows'[c].id = rows[c].id
           /\ \A d \in Contacts : d # c => rows'[d] = rows[d]
<1>1. work[w].pc = "assign" /\ work[w].left # {} /\ work[w].left \subseteq Nat
  BY WorkOf, CampaignAssumption DEF AssignWinner
<1>2. Min(work[w].left) \in work[w].left
  BY <1>1, LeastOf DEF Min
<1>3. PICK c \in work[w].left : rows' = [rows EXCEPT ![c].variant = work[w].winner]
  BY <1>2 DEF AssignWinner
<1>4. c \in Contacts /\ rows[c] # None /\ work[w].winner \in Variants
  BY <1>1, WorkOf DEF TypedInv, HandsFull, Listing, Deciding
<1> DEFINE r == [rows[c] EXCEPT !.variant = work[w].winner]
<1>5. rows[c] \in Recipient /\ DOMAIN rows = Contacts
  BY <1>4, TypeParts DEF TypedInv
<1>6. r \in Recipient /\ r.status = rows[c].status /\ r.id = rows[c].id
  BY <1>4, <1>5, RowFields DEF Recipient
<1>7. rows' = [rows EXCEPT ![c] = r]
  BY <1>3, <1>5
<1> HIDE DEF r
<1>8. rows'[c] = r /\ r # None /\ \A d \in Contacts : d # c => rows'[d] = rows[d]
  BY <1>4, <1>5, <1>6, <1>7, CampaignAssumption
<1> QED
  BY <1>4, <1>6, <1>8

LEMMA OnceInit == Init => OnceInv
<1> SUFFICES ASSUME Init PROVE OnceInv
  OBVIOUS
<1>1. TypedInv
  BY TypedInit
<1>2. Once
  BY DEF Init, Once, Waiting
<1>3. NoIdYet
  BY DEF Init, NoIdYet
<1> QED
  BY <1>1, <1>2, <1>3 DEF OnceInv

(* Whoever turns to something that is not a list of recipients.            *)
LEMMA TurnsElsewhere ==
  ASSUME OnceInv, TypedInv', NoIdYet', WaitingStays, UNCHANGED mailed,
         NEW w \in Workers \cup Admins, NEW l, Become(w, l), work[w].pc # "sent",
         l.pc \notin {"next", "vet", "send", "sent"}
  PROVE  OnceInv'
<1>1. \A u \in Workers \cup Admins : work'[u] = IF u = w THEN l ELSE work[u]
  BY TypeParts DEF Become, OnceInv, TypedInv
<1>2. CASE w \in Workers
  BY <1>1, <1>2, Unmailed DEF Claimed
<1>3. CASE w \notin Workers
  BY <1>1, <1>3, OthersUnmailed
<1> QED
  BY <1>2, <1>3

LEMMA DispatchOnce ==
  ASSUME OnceInv, TypedInv', NEW w \in Workers, WorkerStep(w)
  PROVE  OnceInv'
<1>0. /\ w \in Workers \cup Admins /\ DOMAIN work[w] = Fields
      /\ DOMAIN work = Workers \cup Admins /\ NoIdYet /\ TypedInv
  BY WorkOf, TypeParts DEF OnceInv, TypedInv, Workers
<1>1. CASE \/ Begin(w) \/ ReadAudience(w) \/ Filled(w) \/ Open(w) \/ Close(w)
           \/ Sampled(w) \/ FinishCampaign(w) \/ JudgeTest(w)
  <2>1. UNCHANGED <<rows, mailed, used>> /\ work[w].pc # "sent"
    BY <1>1 DEF Begin, ReadAudience, Filled, Open, Close, Sampled, FinishCampaign, JudgeTest,
                ledger, history
  <2>2. WaitingStays /\ NoIdYet' /\ used'.faults = used.faults
    BY <1>0, <2>1, RowsSame
  <2>3. \E l : Become(w, l) /\ l.pc \notin {"next", "vet", "send", "sent"}
    <3>1. IdleWork.pc = "idle" /\ \A pc : [IdleWork EXCEPT !.copy = campaign, !.pc = pc].pc = pc
      BY DEF IdleWork
    <3>2. /\ \A pc : [work[w] EXCEPT !.pc = pc].pc = pc
          /\ \A fill : [work[w] EXCEPT !.fill = fill, !.pc = "fill"].pc = "fill"
      BY <1>0 DEF Fields
    <3>3. CASE Begin(w)
      <4>1. PICK pc \in {"idle", "audience", "drain", "open"} :
              Become(w, [IdleWork EXCEPT !.copy = campaign, !.pc = pc])
        BY <3>3 DEF Begin
      <4> QED
        BY <3>1, <4>1
    <3>4. CASE ReadAudience(w)
      <4>1. PICK fill : Become(w, [work[w] EXCEPT !.fill = fill, !.pc = "fill"])
        BY <3>4 DEF ReadAudience
      <4> QED
        BY <3>2, <4>1
    <3>5. CASE Filled(w)
      <4>1. PICK pc \in {"drain", "open"} : Become(w, [work[w] EXCEPT !.pc = pc])
        BY <3>5 DEF Filled, Goto, AfterFill
      <4> QED
        BY <3>2, <4>1
    <3>6. CASE Open(w)
      <4>1. Become(w, IdleWork)
            \/ \E pc \in {"audience", "drain"} : Become(w, [work[w] EXCEPT !.pc = pc])
        BY <3>6 DEF Open, Goto
      <4> QED
        BY <3>1, <3>2, <4>1
    <3>7. CASE Close(w)
      <4>1. Become(w, IdleWork) \/ \E pc \in {"sampled", "finish"} : Goto(w, pc)
        BY <3>7 DEF Close
      <4> QED
        BY <3>1, <3>2, <4>1 DEF Goto
    <3>8. CASE Sampled(w) \/ FinishCampaign(w)
      BY <3>1, <3>8 DEF Sampled, FinishCampaign
    <3>9. CASE JudgeTest(w)
      BY <3>2, <3>9 DEF JudgeTest, Goto
    <3> QED
      BY <1>1, <3>3, <3>4, <3>5, <3>6, <3>7, <3>8, <3>9
  <2> QED
    BY <1>0, <2>1, <2>2, <2>3, TurnsElsewhere
<1>2. CASE CreateRecipient(w)
  <2>1. PICK a \in work[w].fill :
          /\ rows' = IF rows[a[1]] # None THEN rows
                     ELSE [rows EXCEPT ![a[1]] = [status |-> "PENDING", variant |-> a[2], id |-> FALSE]]
          /\ Become(w, [work[w] EXCEPT !.fill = @ \ {a}])
    BY <1>2 DEF CreateRecipient
  <2>2. work[w].pc = "fill" /\ UNCHANGED <<mailed, used>>
    BY <1>2 DEF CreateRecipient, history
  <2>3. PICK r : r = [status |-> "PENDING", variant |-> a[2], id |-> FALSE]
    OBVIOUS
  <2>4. r.status = "PENDING" /\ ~ r.id
    BY <2>3
  <2>5. \A c \in Contacts : \/ rows'[c] = rows[c]
                            \/ rows[c] = None /\ rows'[c] = r
    BY <2>1, <2>3, TypeParts DEF OnceInv, TypedInv
  <2>6. WaitingStays /\ NoIdYet'
    BY <1>0, <2>4, <2>5 DEF WaitingStays, Waiting, NoIdYet
  <2>7. [work[w] EXCEPT !.fill = @ \ {a}].pc = "fill"
    BY <1>0, <2>2 DEF Fields
  <2> QED
    BY <1>0, <2>1, <2>2, <2>6, <2>7, TurnsElsewhere
<1>3. CASE ListPending(w)
  <2> DEFINE S == {c \in RowsWith("PENDING") : work[w].copy.ab => rows[c].variant # 0}
  <2>1. UNCHANGED <<rows, mailed, used>> /\ work[w].pc = "drain"
        /\ Become(w, [work[w] EXCEPT !.pc = "next", !.left = S])
    BY <1>3 DEF ListPending, ledger, history
  <2>2. /\ work'[w].pc = "next" /\ work'[w].left = S
        /\ \A u \in Workers : u # w => work'[u] = work[u]
    BY <1>0, <2>1 DEF Become, Fields
  <2>3. \A c \in S : Waiting(c)
    BY DEF RowsWith, Waiting
  <2> HIDE DEF S
  <2>4. \A c \in Contacts : Claimed(work[w], c)' => Waiting(c)
    BY <2>2, <2>3 DEF Claimed
  <2> QED
    BY <1>0, <2>1, <2>2, <2>4, RowsSame, Unmailed
<1>4. CASE NextRecipient(w)
  <2>1. UNCHANGED <<rows, mailed, used>> /\ work[w].pc = "next"
    BY <1>4 DEF NextRecipient, ledger, history
  <2>2. CASE Become(w, [work[w] EXCEPT !.pc = "close", !.left = {}, !.at = None])
    <3>1. [work[w] EXCEPT !.pc = "close", !.left = {}, !.at = None].pc = "close"
      BY <1>0 DEF Fields
    <3> QED
      BY <1>0, <2>1, <2>2, <3>1, RowsSame, TurnsElsewhere
  <2>3. ASSUME NEW c \in work[w].left,
               Become(w, [work[w] EXCEPT !.pc = "vet", !.at = c, !.left = @ \ {c}])
        PROVE  OnceInv'
    <3>1. /\ work'[w].pc = "vet" /\ work'[w].left = work[w].left \ {c} /\ work'[w].at = c
          /\ \A u \in Workers : u # w => work'[u] = work[u]
      BY <1>0, <2>3 DEF Become, Fields
    <3>2. \A d \in Contacts : Claimed(work[w], d)' => Claimed(work[w], d)
      BY <2>1, <3>1 DEF Claimed
    <3> QED
      BY <1>0, <2>1, <3>1, <3>2, RowsSame, Unmailed
  <2> QED
    BY <1>4, <2>2, <2>3 DEF NextRecipient
<1>5. ASSUME work[w].pc \in OnRow, NEW s \in {"UNSUBSCRIBED", "QUEUED"}, Mark(work[w].at, s),
             NextUp(w), UNCHANGED <<mailed, used>>
      PROVE  OnceInv'
  BY <1>0, <1>5, MarkedRow, DoneWith
<1>6. CASE Vet(w)
  <2>1. work[w].pc = "vet" /\ UNCHANGED <<mailed, used>>
    BY <1>6 DEF Vet, history
  <2>2. CASE Goto(w, "send") /\ UNCHANGED rows
    <3>1. /\ work'[w].pc = "send" /\ work'[w].left = work[w].left /\ work'[w].at = work[w].at
          /\ \A u \in Workers : u # w => work'[u] = work[u]
      BY <1>0, <2>2 DEF Goto, Become, Fields
    <3>2. \A d \in Contacts : Claimed(work[w], d)' => Claimed(work[w], d)
      BY <2>1, <3>1 DEF Claimed
    <3> QED
      BY <1>0, <2>1, <2>2, <3>1, <3>2, RowsSame, Unmailed
  <2> QED
    BY <1>5, <1>6, <2>1, <2>2 DEF Vet, OnRow
<1>7. CASE Send(w)
  BY <1>7, SendOnce
<1>8. CASE RecordSent(w)
  <2>1. /\ work[w].pc = "sent" /\ NextUp(w) /\ UNCHANGED <<mailed, used>>
        /\ work[w].at \in Contacts /\ rows[work[w].at] # None
        /\ rows' = [rows EXCEPT ![work[w].at].status = "SENT", ![work[w].at].id = TRUE]
    BY <1>0, <1>8 DEF RecordSent, history, TypedInv, HandsFull, OnRow
  <2>2. PICK c \in Contacts : c = work[w].at
    BY <2>1
  <2>3. RowsGrow /\ rows' = [rows EXCEPT ![c] = [rows[c] EXCEPT !.status = "SENT", !.id = TRUE]]
    BY <1>0, <2>1, <2>2, RowSent
  <2>4. rows[c] \in Recipient /\ DOMAIN rows = Contacts
    BY <1>0, <2>1, <2>2, TypeParts DEF TypedInv
  <2>5. rows'[c].status = "SENT" /\ rows'[c] # None /\ \A d \in Contacts : d # c => rows'[d] = rows[d]
    <3>1. [rows[c] EXCEPT !.status = "SENT", !.id = TRUE].status = "SENT"
      BY <2>4 DEF Recipient
    <3>2. rows'[c] # None
      BY <2>1, <2>2, <2>3 DEF RowsGrow
    <3> QED
      BY <2>3, <2>4, <3>1, <3>2
  <2> QED
    BY <2>1, <2>2, <2>5, DoneWith DEF OnRow
<1> QED
  BY <1>1, <1>2, <1>3, <1>4, <1>6, <1>7, <1>8 DEF WorkerStep

LEMMA DecisionOnce ==
  ASSUME OnceInv, TypedInv', NEW w \in Deciders, DecisionStep(w)
  PROVE  OnceInv'
<1>0. /\ w \in Workers \cup Admins /\ DOMAIN work[w] = Fields /\ NoIdYet /\ TypedInv
  BY WorkOf DEF OnceInv, Deciders, Workers
<1>1. UNCHANGED <<mailed, used>> /\ work[w].pc # "sent"
  BY DEF DecisionStep, Compare, Decide, ListHeldBack, AssignWinner, Decided, history
<1>2. WaitingStays /\ NoIdYet'
  <2>1. CASE UNCHANGED rows
    BY <1>0, <2>1, RowsSame
  <2>2. CASE AssignWinner(w)
    <3>1. PICK c \in Contacts :
            /\ rows[c] # None /\ rows'[c] # None
            /\ rows'[c].status = rows[c].status /\ rows'[c].id = rows[c].id
            /\ \A d \in Contacts : d # c => rows'[d] = rows[d]
      BY <1>0, <2>2, WinnerAssigned
    <3> QED
      BY <1>0, <3>1 DEF WaitingStays, Waiting, NoIdYet
  <2>3. CASE ~ AssignWinner(w)
    <3>1. UNCHANGED rows
      BY <2>3 DEF DecisionStep, Compare, Decide, ListHeldBack, Decided, ledger
    <3> QED
      BY <2>1, <3>1
  <2> QED
    BY <2>2, <2>3
<1>3. \E l : Become(w, l) /\ l.pc \notin {"next", "vet", "send", "sent"}
  <2>1. IdleWork.pc = "idle" /\ [IdleWork EXCEPT !.pc = "dispatch"].pc = "dispatch"
    BY DEF IdleWork
  <2>2. /\ \A pc : [work[w] EXCEPT !.pc = pc].pc = pc
        /\ \A v : [work[w] EXCEPT !.pc = "decide", !.winner = v].pc = "decide"
        /\ \A S : [work[w] EXCEPT !.pc = "assign", !.left = S].pc = "assign"
    BY <1>0 DEF Fields
  <2>3. CASE Compare(w)
    <3>1. Become(w, IdleWork) \/ \E v : Become(w, [work[w] EXCEPT !.pc = "decide", !.winner = v])
      BY <2>3 DEF Compare
    <3> QED
      BY <2>1, <2>2, <3>1
  <2>4. CASE Decide(w)
    <3>1. PICK pc \in {"assign", "heldback"} : Become(w, [work[w] EXCEPT !.pc = pc])
      BY <2>4 DEF Decide, Goto
    <3> QED
      BY <2>2, <3>1
  <2>5. CASE ListHeldBack(w)
    <3>1. PICK S : Become(w, [work[w] EXCEPT !.pc = "assign", !.left = S])
      BY <2>5 DEF ListHeldBack
    <3> QED
      BY <2>2, <3>1
  <2>6. CASE AssignWinner(w)
    <3>1. PICK c : Become(w, [work[w] EXCEPT !.left = @ \ {c}])
      BY <2>6 DEF AssignWinner
    <3>2. [work[w] EXCEPT !.left = @ \ {c}].pc = "assign"
      BY <1>0, <2>6 DEF AssignWinner, Fields
    <3> QED
      BY <2>2, <3>1, <3>2
  <2>7. CASE Decided(w)
    BY <2>1, <2>7 DEF Decided
  <2> QED
    BY <2>3, <2>4, <2>5, <2>6, <2>7 DEF DecisionStep
<1> QED
  BY <1>0, <1>1, <1>2, <1>3, TurnsElsewhere

LEMMA StepOnce == OnceInv /\ [Next]_vars => OnceInv'
<1> SUFFICES ASSUME OnceInv, [Next]_vars PROVE OnceInv'
  OBVIOUS
<1>0. TypedInv /\ TypedInv' /\ NoIdYet
  BY StepTyped DEF OnceInv
<1>1. CASE UNCHANGED vars
  <2>1. UNCHANGED <<mailed, used, rows, work>>
    BY <1>1 DEF vars, ledger, history
  <2> QED
    BY <1>0, <2>1, RowsSame, OthersUnmailed
<1>2. ASSUME NEW w \in Workers, RecordFailed(w) PROVE OnceInv'
  <2>1. /\ NextUp(w) /\ UNCHANGED mailed /\ Spend("faults")
        /\ work[w].pc \in OnRow /\ Mark(work[w].at, "FAILED")
    BY <1>2 DEF RecordFailed, OnRow, history
  <2>2. used'.faults = used.faults + 1
    BY <1>0, <2>1, TypeParts DEF Spend, TypedInv, Rest
  <2> QED
    BY <1>0, <2>1, <2>2, MarkedRow, DoneWith
<1>3. ASSUME NEW w \in Workers, Crash(w) PROVE OnceInv'
  <2>1. /\ UNCHANGED rows /\ mailed' = [mailed EXCEPT ![w] = [c \in Contacts |-> 0]]
        /\ Become(w, IdleWork)
    BY <1>3 DEF Crash, ledger
  <2>2. mailed \in [Workers -> [Contacts -> Nat]] /\ work \in [Workers \cup Admins -> Work]
    BY <1>0, TypeParts DEF TypedInv, Rest
  <2>3. /\ \A c \in Contacts : mailed'[w][c] = 0
        /\ \A u \in Workers : u # w => work'[u] = work[u] /\ mailed'[u] = mailed[u]
    BY <2>1, <2>2 DEF Become
  <2>4. WaitingStays /\ NoIdYet'
    BY <1>0, <2>1, RowsSame
  <2>5. Once'
    BY <2>3, <2>4 DEF OnceInv, Once, WaitingStays
  <2> QED
    BY <1>0, <2>4, <2>5 DEF OnceInv
<1>4. CASE \E a \in Admins : AdminStep(a)
  <2>1. UNCHANGED <<mailed, rows>> /\ used'.faults = used.faults
    BY <1>0, <1>4, TypeParts DEF AdminStep, CountRecipients, WriteCampaign, Request, ledger, history,
       Spend, TypedInv, Rest
  <2>2. \A u \in Workers : work'[u] = work[u]
    <3>1. PICK a \in Admins : \E l : Become(a, l)
      BY <1>4 DEF AdminStep, CountRecipients, WriteCampaign, Request
    <3>2. a \notin Workers
      BY CampaignAssumption
    <3> QED
      BY <1>0, <3>1, <3>2, TypeParts DEF Become, TypedInv
  <2> QED
    BY <1>0, <2>1, <2>2, RowsSame, OthersUnmailed
<1>5. CASE DateComes \/ WindowPasses
  <2>1. UNCHANGED <<mailed, used, rows, work>>
    BY <1>5 DEF DateComes, WindowPasses, ledger, history
  <2> QED
    BY <1>0, <2>1, RowsSame, OthersUnmailed
<1>6. CASE \E c \in Contacts : Unsubscribe(c) \/ \E h \in Hooks, e \in Receipts : Receive(h, c, e)
  <2>1. UNCHANGED <<mailed, rows, work>> /\ used'.faults = used.faults
    BY <1>0, <1>6, TypeParts DEF Unsubscribe, Receive, ledger, history, Spend, TypedInv, Rest
  <2> QED
    BY <1>0, <2>1, RowsSame, OthersUnmailed
<1>7. ASSUME NEW h \in Hooks, SuppressBounced(h) PROVE OnceInv'
  <2>1. UNCHANGED <<mailed, used, rows, work>>
    BY <1>7 DEF SuppressBounced
  <2> QED
    BY <1>0, <2>1, RowsSame, OthersUnmailed
<1>8. ASSUME NEW h \in Hooks, WriteReceipt(h) PROVE OnceInv'
  <2>1. /\ Mark(hook[h].contact, hook[h].event) /\ UNCHANGED <<mailed, used, work>>
        /\ hook[h].contact \in Contacts /\ hook[h].event \in Receipts
        /\ rows[hook[h].contact] # None /\ rows[hook[h].contact].id
    BY <1>0, <1>8 DEF WriteReceipt, history, TypedInv, ReceiptsFit
  <2>2. PICK c \in Contacts, e \in Receipts : c = hook[h].contact /\ e = hook[h].event
    BY <2>1
  <2>3. e \in RowStatuses /\ e # "PENDING"
    BY CampaignAssumption DEF RowStatuses, Reached
  <2>4. /\ rows'[c] # None /\ rows'[c].status = e
        /\ \A d \in Contacts : d # c => rows'[d] = rows[d]
    BY <1>0, <2>1, <2>2, <2>3, MarkChanges
  <2>5. WaitingStays /\ NoIdYet'
    BY <1>0, <2>1, <2>2, <2>3, <2>4 DEF WaitingStays, Waiting, NoIdYet
  <2> QED
    BY <1>0, <2>1, <2>5, OthersUnmailed
<1> QED
  BY <1>0, <1>1, <1>2, <1>3, <1>4, <1>5, <1>6, <1>7, <1>8, DispatchOnce, DecisionOnce DEF Next

(* No worker mails a contact twice unless it crashes in between, however   *)
(* polls, resolutions, receipts and administrators interleave.             *)
THEOREM MailsExplained == Spec => []OnceExplained
<1>1. OnceInv => OnceExplained
  BY DEF OnceInv, Once, OnceExplained
<1> QED
  BY <1>1, OnceInit, StepOnce, PTL DEF Spec

-----------------------------------------------------------------------------
(* EveryoneReached, with one consumer of the campaign-dispatch queue.  As  *)
(* long as that one makes up the audience, no row has left PENDING and the *)
(* campaign is not SENT; all that comes later (a resolver past its         *)
(* comparison, a receipt) shows that a row has left it (Reach).            *)

OnePoller == \A v, w \in Pollers : v = w

Begun == \E c \in Contacts : rows[c] # None /\ rows[c].status # "PENDING"
Filling(w) ==
  \/ work[w].pc = "audience" /\ Unstarted
  \/ work[w].pc = "fill" /\ work[w].fill # {}
NobodyFills == \A w \in Workers : ~ Filling(w)
InHand(c) == \E w \in Pollers : work[w].pc = "fill" /\ \E a \in work[w].fill : a[1] = c

Reach ==
  /\ \A w \in Workers : Filling(w) => w \in Pollers /\ ~ Begun /\ campaign.status # "SENT"
  /\ \A w \in Resolvers : work[w].pc \notin {"idle", "compare"} => Begun
  /\ \A h \in Hooks : hook[h].pc # "idle" => Begun
  /\ \A w \in Workers : work[w].pc = "finish" => RowsWith("PENDING") = {}
  /\ campaign.status = "SENT" => RowsWith("PENDING") = {}
  /\ frozen # None => frozen # {} /\ \A c \in frozen : rows[c] # None \/ InHand(c)

ReachInv == used.faults = 0 => Reach

(* What most steps do: no row is added, none becomes PENDING again, and    *)
(* the first to leave PENDING and the closing come when nobody fills.      *)
RowsSettle ==
  /\ \A c \in Contacts :
       /\ rows'[c] = None <=> rows[c] = None
       /\ rows'[c] # None /\ rows'[c].status = "PENDING" => rows[c].status = "PENDING"
  /\ Begun' => Begun \/ NobodyFills
  /\ campaign'.status = "SENT" =>
       campaign.status = "SENT" \/ (RowsWith("PENDING") = {} /\ NobodyFills)

Steady(w) ==
  /\ ~ (work[w].pc = "fill" /\ work[w].fill # {})
  /\ Filling(w)' => w \in Pollers /\ ~ Begun' /\ campaign'.status # "SENT"
  /\ w \in Resolvers /\ work'[w].pc \notin {"idle", "compare"} => Begun
  /\ work'[w].pc = "finish" => RowsWith("PENDING") = {}

LEMMA Settled ==
  ASSUME RowsSettle
  PROVE  /\ Begun => Begun'
         /\ Unstarted' <=> Unstarted
         /\ RowsWith("PENDING")' \subseteq RowsWith("PENDING")
<1>1. Begun => Begun'
  BY DEF RowsSettle, Begun
<1>2. Unstarted' <=> Unstarted
  BY DEF RowsSettle, Unstarted
<1>3. RowsWith("PENDING")' \subseteq RowsWith("PENDING")
  BY DEF RowsSettle, RowsWith
<1> QED
  BY <1>1, <1>2, <1>3

LEMMA ReachStays ==
  ASSUME TypedInv, Reach, RowsSettle, UNCHANGED frozen,
         \A w \in Workers : work'[w] = work[w] \/ Steady(w),
         \A h \in Hooks : hook'[h].pc # "idle" => hook[h].pc # "idle" \/ Begun
  PROVE  Reach'
<1>0. /\ Begun => Begun'
      /\ Unstarted' <=> Unstarted
      /\ RowsWith("PENDING")' \subseteq RowsWith("PENDING")
  BY Settled
<1>1. ASSUME NEW w \in Workers, Filling(w)'
      PROVE  w \in Pollers /\ ~ Begun' /\ campaign'.status # "SENT"
  <2>1. CASE Steady(w)
    BY <1>1, <2>1 DEF Steady
  <2>2. CASE work'[w] = work[w]
    <3>1. Filling(w)
      BY <1>0, <1>1, <2>2 DEF Filling
    <3>2. w \in Pollers /\ ~ Begun /\ campaign.status # "SENT" /\ ~ NobodyFills
      BY <3>1 DEF Reach, NobodyFills
    <3> QED
      BY <3>2 DEF RowsSettle
  <2> QED
    BY <2>1, <2>2
<1>2. ASSUME NEW w \in Resolvers, work'[w].pc \notin {"idle", "compare"} PROVE Begun'
  BY <1>0, <1>2 DEF Reach, Steady, Workers
<1>3. ASSUME NEW h \in Hooks, hook'[h].pc # "idle" PROVE Begun'
  BY <1>0, <1>3 DEF Reach
<1>4. ASSUME NEW w \in Workers, work'[w].pc = "finish" PROVE RowsWith("PENDING")' = {}
  BY <1>0, <1>4 DEF Reach, Steady
<1>5. ASSUME campaign'.status = "SENT" PROVE RowsWith("PENDING")' = {}
  BY <1>0, <1>5 DEF Reach, RowsSettle
<1>6. ASSUME frozen' # None
      PROVE  frozen' # {} /\ \A c \in frozen' : rows'[c] # None \/ InHand(c)'
  <2>1. frozen # None /\ frozen' = frozen
    BY <1>6
  <2>2. SUFFICES ASSUME NEW c \in frozen PROVE rows'[c] # None \/ InHand(c)'
    BY <2>1 DEF Reach
  <2>3. rows[c] # None \/ InHand(c)
    BY <2>1, <2>2 DEF Reach
  <2>4. ASSUME InHand(c) PROVE InHand(c)'
    <3>1. PICK w \in Pollers : work[w].pc = "fill" /\ \E a \in work[w].fill : a[1] = c
      BY <2>4 DEF InHand
    <3>2. work'[w] = work[w]
      BY <3>1 DEF Steady, Workers
    <3> QED
      BY <3>1, <3>2 DEF InHand
  <2>5. ASSUME rows[c] # None, c \in Contacts PROVE rows'[c] # None
    BY <2>5 DEF RowsSettle
  <2>6. c \in Contacts
    BY <2>1, TypeParts DEF TypedInv, Rest
  <2> QED
    BY <2>3, <2>4, <2>5, <2>6
<1> QED
  BY <1>1, <1>2, <1>3, <1>4, <1>5, <1>6 DEF Reach

(* Nobody fills while someone else is at work, since there is one poller.  *)
LEMMA Quiet ==
  ASSUME Reach, OnePoller, NEW w \in Workers, ~ Filling(w),
         w \in Resolvers => work[w].pc \notin {"idle", "compare"}
  PROVE  NobodyFills /\ (w \in Resolvers => Begun)
BY DEF Reach, NobodyFills, OnePoller, Workers

(* Rows as they were, or one row marked by someone on his way to it.       *)
LEMMA SettleSame ==
  ASSUME UNCHANGED rows, campaign'.status = "SENT" => campaign.status = "SENT"
  PROVE  RowsSettle
BY DEF RowsSettle, Begun

LEMMA SettleMarked ==
  ASSUME NEW c \in Contacts, rows[c] # None, rows'[c] # None,
         rows'[c].status = "PENDING" => rows[c].status = "PENDING",
         \A d \in Contacts : d # c => rows'[d] = rows[d],
         UNCHANGED campaign, Begun \/ NobodyFills
  PROVE  RowsSettle
BY DEF RowsSettle

(* Whoever turns to something else than filling or closing.                *)
LEMMA TurnReach ==
  ASSUME TypedInv, Reach, RowsSettle, UNCHANGED <<frozen, hook>>,
         NEW w \in Workers \cup Admins, NEW l, Become(w, l),
         ~ (work[w].pc = "fill" /\ work[w].fill # {}),
         l.pc \notin {"fill", "finish"},
         l.pc = "audience" => campaign'.status # "SENT",
         w \in Resolvers /\ l.pc \notin {"idle", "compare"} => Begun
  PROVE  Reach'
<1>1. \A u \in Workers \cup Admins : work'[u] = IF u = w THEN l ELSE work[u]
  BY TypeParts DEF Become, TypedInv
<1>2. /\ Begun => Begun'
      /\ Unstarted' <=> Unstarted
  BY Settled
<1>3. ASSUME w \in Workers PROVE Steady(w)
  <2>1. work'[w] = l
    BY <1>1
  <2>2. ASSUME Filling(w)' PROVE w \in Pollers /\ ~ Begun' /\ campaign'.status # "SENT"
    <3>1. l.pc = "audience" /\ Unstarted'
      BY <2>1, <2>2 DEF Filling
    <3>2. ~ Begun' /\ ~ Begun
      BY <1>2, <3>1 DEF Begun, Unstarted
    <3> QED
      BY <1>3, <3>1, <3>2 DEF Workers
  <2> QED
    BY <2>1, <2>2 DEF Steady
<1>4. \A u \in Workers : work'[u] = work[u] \/ Steady(u)
  BY <1>1, <1>3 DEF Workers
<1> QED
  BY <1>4, ReachStays

LEMMA MarkSettles ==
  ASSUME TypedInv, Reach, OnePoller, NEW w \in Workers, work[w].pc \in OnRow,
         NEW s \in {"UNSUBSCRIBED", "QUEUED", "FAILED"}, Mark(work[w].at, s), UNCHANGED campaign
  PROVE  RowsSettle
<1>1. work[w].at \in Contacts /\ rows[work[w].at] # None
  BY DEF TypedInv, HandsFull, Workers
<1>2. PICK c \in Contacts : c = work[w].at
  BY <1>1
<1>3. /\ rows'[c] # None /\ rows'[c].status # "PENDING"
      /\ \A d \in Contacts : d # c => rows'[d] = rows[d]
  BY <1>2, MarkedRow
<1>4. Begun \/ NobodyFills
  BY Quiet DEF OnRow, Filling
<1> QED
  BY <1>1, <1>2, <1>3, <1>4, SettleMarked

LEMMA IdlersReach ==
  ASSUME TypedInv, Reach, UNCHANGED <<frozen, hook, work>>, RowsSettle
  PROVE  Reach'
BY ReachStays

-----------------------------------------------------------------------------
LEMMA CreateReach ==
  ASSUME TypedInv, Reach, OnePoller, NEW w \in Workers, CreateRecipient(w)
  PROVE  Reach'
<1>1. PICK a \in work[w].fill :
        /\ rows' = IF rows[a[1]] # None THEN rows
                   ELSE [rows EXCEPT ![a[1]] = [status |-> "PENDING", variant |-> a[2], id |-> FALSE]]
        /\ Become(w, [work[w] EXCEPT !.fill = @ \ {a}])
  BY DEF CreateRecipient
<1>2. work[w].pc = "fill" /\ UNCHANGED <<campaign, hook, frozen>>
  BY DEF CreateRecipient, history
<1>3. DOMAIN work[w] = Fields /\ a[1] \in Contacts
  BY WorkOf DEF Workers
<1>4. /\ work'[w].pc = "fill" /\ work'[w].fill = work[w].fill \ {a}
      /\ \A u \in Workers : u # w => work'[u] = work[u]
  BY <1>1, <1>2, <1>3, TypeParts DEF Become, TypedInv, Workers, Fields
<1>5. w \in Pollers /\ ~ Begun /\ campaign.status # "SENT" /\ Filling(w)
  BY <1>2 DEF Reach, Filling
<1>6. PICK r : r = [status |-> "PENDING", variant |-> a[2], id |-> FALSE]
  OBVIOUS
<1>7. r # None /\ r.status = "PENDING"
  <2>1. a[2] \in Variants \cup {0}
    BY WorkOf DEF Workers
  <2>2. r \in Recipient
    BY <1>6, <2>1 DEF Recipient, RowStatuses
  <2> QED
    BY <1>6, <2>2, CampaignAssumption
<1>8. /\ rows'[a[1]] # None
      /\ \A c \in Contacts : rows'[c] = rows[c] \/ (rows[c] = None /\ c = a[1] /\ rows'[c] = r)
  BY <1>1, <1>3, <1>6, <1>7, TypeParts DEF TypedInv
<1>9. ~ Begun'
  BY <1>5, <1>7, <1>8 DEF Begun
<1>10. ASSUME NEW u \in Workers, Filling(u)'
       PROVE  u \in Pollers /\ ~ Begun' /\ campaign'.status # "SENT"
  <2>1. CASE u = w
    BY <1>2, <1>5, <1>9, <2>1
  <2>2. CASE u # w
    <3>1. Unstarted' => Unstarted
      BY <1>8 DEF Unstarted
    <3>2. Filling(u)
      BY <1>4, <1>10, <2>2, <3>1 DEF Filling
    <3> QED
      BY <1>2, <1>5, <1>9, <3>2 DEF Reach
  <2> QED
    BY <2>1, <2>2
<1>11. ASSUME NEW u \in Resolvers, work'[u].pc \notin {"idle", "compare"} PROVE FALSE
  <2>1. u # w
    BY <1>5, CampaignAssumption
  <2> QED
    BY <1>4, <1>5, <1>11, <2>1 DEF Reach, Workers
<1>12. \A h \in Hooks : hook'[h].pc = "idle"
  BY <1>2, <1>5 DEF Reach
<1>13. ASSUME NEW u \in Workers, work'[u].pc = "finish" PROVE FALSE
  <2>1. u # w /\ work[u].pc = "finish"
    BY <1>4, <1>13
  <2>2. u \in Resolvers
    BY <1>5, <2>1 DEF OnePoller, Workers
  <2> QED
    BY <1>5, <2>1, <2>2 DEF Reach
<1>14. campaign'.status # "SENT"
  BY <1>2, <1>5
<1>15. ASSUME frozen # None, NEW c \in frozen PROVE rows'[c] # None \/ InHand(c)'
  <2>1. c \in Contacts
    BY <1>15, TypeParts DEF TypedInv, Rest
  <2>2. CASE rows[c] # None
    BY <1>8, <2>1, <2>2
  <2>3. CASE c = a[1]
    BY <1>8, <2>3
  <2>4. CASE rows[c] = None /\ c # a[1]
    <3>1. PICK u \in Pollers : work[u].pc = "fill" /\ \E b \in work[u].fill : b[1] = c
      BY <1>15, <2>4 DEF Reach, InHand
    <3>2. u = w
      BY <1>5 DEF OnePoller
    <3>3. PICK b \in work[w].fill : b[1] = c
      BY <3>1, <3>2
    <3>4. b \in work'[w].fill
      BY <1>4, <2>4, <3>3
    <3> QED
      BY <1>4, <1>5, <3>3, <3>4 DEF InHand
  <2> QED
    BY <2>2, <2>3, <2>4
<1>16. frozen' # None => frozen' # {}
  BY <1>2 DEF Reach
<1> QED
  BY <1>2, <1>10, <1>11, <1>12, <1>13, <1>14, <1>15, <1>16 DEF Reach

LEMMA AudienceReach ==
  ASSUME TypedInv, Reach, OnePoller, NEW w \in Workers, ReadAudience(w)
  PROVE  Reach'
<1>1. PICK segment \in Segments :
        LET audience == IF Unstarted THEN segment \ suppressed ELSE {} IN
        /\ Become(w, [work[w] EXCEPT !.fill = Assignments(audience, work[w].copy.ab /\ kind.variants), !.pc = "fill"])
        /\ frozen' = IF frozen = None /\ audience # {} THEN audience ELSE frozen
  BY DEF ReadAudience
<1>2. PICK audience : audience = IF Unstarted THEN segment \ suppressed ELSE {}
  OBVIOUS
<1>3. PICK fill : fill = Assignments(audience, work[w].copy.ab /\ kind.variants)
  OBVIOUS
<1>4. /\ work[w].pc = "audience" /\ UNCHANGED <<campaign, hook, rows>>
      /\ Become(w, [work[w] EXCEPT !.fill = fill, !.pc = "fill"])
      /\ frozen' = IF frozen = None /\ audience # {} THEN audience ELSE frozen
  BY <1>1, <1>2, <1>3 DEF ReadAudience, ledger
<1>5. DOMAIN work[w] = Fields
  BY WorkOf DEF Workers
<1>6. /\ work'[w].pc = "fill" /\ work'[w].fill = fill
      /\ \A u \in Workers : u # w => work'[u] = work[u]
  BY <1>4, <1>5, TypeParts DEF Become, TypedInv, Workers, Fields
<1>7. /\ \A c \in audience : \E a \in fill : a[1] = c
      /\ audience = {} => fill = {}
  <2> DEFINE given(c) == IF work[w].copy.ab /\ kind.variants
                         THEN SplitContact(Cardinality(audience),
                                           Cardinality({o \in audience : o <= c}),
                                           SplitPercents, kind.sample)
                         ELSE 0
  <2>1. fill = {<<c, given(c)>> : c \in audience}
    BY <1>3 DEF Assignments
  <2> HIDE DEF given
  <2>2. ASSUME NEW c \in audience PROVE \E a \in fill : a[1] = c
    <3>1. <<c, given(c)>> \in fill /\ <<c, given(c)>>[1] = c
      BY <2>1
    <3> QED
      BY <3>1
  <2>3. audience = {} => fill = {}
    BY <2>1
  <2> QED
    BY <2>2, <2>3
<1>8. audience # {} => Unstarted /\ Filling(w)
  BY <1>2, <1>4 DEF Filling
<1>9. (Unstarted' <=> Unstarted) /\ (Begun' <=> Begun) /\ RowsWith("PENDING")' = RowsWith("PENDING")
  BY <1>4 DEF Unstarted, Begun, RowsWith
<1>10. ASSUME NEW u \in Workers, Filling(u)' PROVE Filling(u)
  BY <1>6, <1>7, <1>8, <1>9, <1>10 DEF Filling
<1>11. \A u \in Workers : Filling(u)' => u \in Pollers /\ ~ Begun' /\ campaign'.status # "SENT"
  BY <1>4, <1>9, <1>10 DEF Reach
<1>12. ASSUME NEW u \in Resolvers, work'[u].pc \notin {"idle", "compare"} PROVE Begun'
  BY <1>4, <1>6, <1>9, <1>12 DEF Reach, Workers
<1>13. \A h \in Hooks : hook'[h].pc # "idle" => Begun'
  BY <1>4, <1>9 DEF Reach
<1>14. ASSUME NEW u \in Workers, work'[u].pc = "finish" PROVE RowsWith("PENDING")' = {}
  BY <1>6, <1>9, <1>14 DEF Reach
<1>15. campaign'.status = "SENT" => RowsWith("PENDING")' = {}
  BY <1>4, <1>9 DEF Reach
<1>16. ASSUME frozen' # None
       PROVE  frozen' # {} /\ \A c \in frozen' : rows'[c] # None \/ InHand(c)'
  <2>1. CASE frozen = None
    <3>1. frozen' = audience /\ audience # {}
      BY <1>4, <1>16, <2>1
    <3>2. w \in Pollers
      BY <1>8, <3>1 DEF Reach
    <3> QED
      BY <1>6, <1>7, <3>1, <3>2 DEF InHand
  <2>2. CASE frozen # None
    <3>1. frozen' = frozen /\ frozen # {} /\ \A c \in frozen : rows[c] # None \/ InHand(c)
      BY <1>4, <2>2 DEF Reach
    <3>2. ASSUME NEW c \in frozen, InHand(c) PROVE InHand(c)'
      <4>1. PICK u \in Pollers : work[u].pc = "fill" /\ \E a \in work[u].fill : a[1] = c
        BY <3>2 DEF InHand
      <4>2. work'[u] = work[u]
        BY <1>4, <1>6, <4>1 DEF Workers
      <4> QED
        BY <4>1, <4>2 DEF InHand
    <3> QED
      BY <1>4, <3>1, <3>2
  <2> QED
    BY <2>1, <2>2
<1> QED
  BY <1>11, <1>12, <1>13, <1>14, <1>15, <1>16 DEF Reach

LEMMA DispatchReach ==
  ASSUME OnceInv, Reach, OnePoller, NEW w \in Workers, WorkerStep(w)
  PROVE  Reach'
<1>0. /\ w \in Workers \cup Admins /\ DOMAIN work[w] = Fields /\ TypedInv
      /\ DOMAIN work = Workers \cup Admins
  BY WorkOf, TypeParts DEF OnceInv, TypedInv, Workers
<1>1. /\ IdleWork.pc = "idle" /\ \A pc : [IdleWork EXCEPT !.copy = campaign, !.pc = pc].pc = pc
      /\ \A pc : [work[w] EXCEPT !.pc = pc].pc = pc
  BY <1>0 DEF IdleWork, Fields
<1>2. CASE Begin(w)
  <2>1. PICK pc \in {"idle", "audience", "drain", "open"} :
          /\ Become(w, [IdleWork EXCEPT !.copy = campaign, !.pc = pc])
          /\ pc = "audience" => campaign.status # "SENT"
    BY <1>2 DEF Begin
  <2>2. /\ UNCHANGED <<campaign, rows, frozen, hook>> /\ work[w].pc \in {"idle", "dispatch"}
        /\ (w \in Resolvers => work[w].pc = "dispatch")
    BY <1>2, CampaignAssumption DEF Begin, ledger, history
  <2>3. w \in Resolvers => Begun
    BY <2>2 DEF Reach
  <2> QED
    BY <1>0, <1>1, <2>1, <2>2, <2>3, SettleSame, TurnReach
<1>3. CASE ReadAudience(w)
  BY <1>0, <1>3, AudienceReach
<1>4. CASE CreateRecipient(w)
  BY <1>0, <1>4, CreateReach
<1>5. CASE Filled(w)
  <2>1. PICK pc \in {"drain", "open"} : Become(w, [work[w] EXCEPT !.pc = pc])
    BY <1>5 DEF Filled, Goto, AfterFill
  <2>2. UNCHANGED <<campaign, rows, frozen, hook>> /\ work[w].pc = "fill" /\ work[w].fill = {}
    BY <1>5 DEF Filled, ledger, history
  <2> QED
    BY <1>0, <1>1, <2>1, <2>2, SettleSame, TurnReach DEF Reach
<1>6. CASE Open(w)
  <2>1. /\ UNCHANGED <<rows, frozen, hook>> /\ work[w].pc = "open"
        /\ campaign'.status = "SENT" => campaign.status = "SENT"
    <3>1. UNCHANGED campaign \/ campaign' = [campaign EXCEPT !.status = "SENDING"]
      BY <1>6 DEF Open
    <3>2. "status" \in DOMAIN campaign
      BY <1>0, TypeParts DEF TypedInv, Rest, Campaign
    <3> QED
      BY <1>6, <3>1, <3>2 DEF Open, ledger
  <2>2. CASE Become(w, IdleWork)
    BY <1>0, <1>1, <2>1, <2>2, SettleSame, TurnReach
  <2>3. CASE ~ Become(w, IdleWork)
    <3>1. campaign' = [campaign EXCEPT !.status = "SENDING"]
      BY <1>6, <2>3 DEF Open
    <3>2. campaign'.status # "SENT"
      BY <1>0, <3>1, TypeParts DEF TypedInv, Rest, Campaign
    <3>3. PICK pc \in {"audience", "drain"} : Become(w, [work[w] EXCEPT !.pc = pc])
      BY <1>6, <2>3 DEF Open, Goto
    <3> QED
      BY <1>0, <1>1, <2>1, <3>2, <3>3, SettleSame, TurnReach DEF Reach
  <2> QED
    BY <2>2, <2>3
<1>7. CASE ListPending(w) \/ NextRecipient(w)
  <2>1. \E l : Become(w, l) /\ l.pc \in {"next", "vet", "close"}
    <3>1. /\ \A S : [work[w] EXCEPT !.pc = "next", !.left = S].pc = "next"
          /\ [work[w] EXCEPT !.pc = "close", !.left = {}, !.at = None].pc = "close"
          /\ \A c : [work[w] EXCEPT !.pc = "vet", !.at = c, !.left = @ \ {c}].pc = "vet"
      BY <1>0 DEF Fields
    <3> QED
      BY <1>7, <3>1 DEF ListPending, NextRecipient
  <2>2. UNCHANGED <<campaign, rows, frozen, hook>> /\ work[w].pc \in {"drain", "next"}
    BY <1>7 DEF ListPending, NextRecipient, ledger, history
  <2> QED
    BY <1>0, <2>1, <2>2, SettleSame, TurnReach DEF Reach
<1>8. CASE Vet(w)
  <2>1. work[w].pc = "vet" /\ UNCHANGED <<campaign, frozen, hook>>
    BY <1>8 DEF Vet, history
  <2>2. CASE Goto(w, "send") /\ UNCHANGED rows
    BY <1>0, <1>1, <2>1, <2>2, SettleSame, TurnReach DEF Reach, Goto
  <2>3. ASSUME NEW s \in {"UNSUBSCRIBED", "QUEUED"}, Mark(work[w].at, s), NextUp(w)
        PROVE  Reach'
    <3>1. RowsSettle
      BY <1>0, <2>1, <2>3, MarkSettles DEF OnRow
    <3>2. [work[w] EXCEPT !.pc = "next", !.at = None].pc = "next"
      BY <1>0 DEF Fields
    <3> QED
      BY <1>0, <2>1, <2>3, <3>1, <3>2, TurnReach DEF Reach, NextUp
  <2> QED
    BY <1>8, <2>2, <2>3 DEF Vet
<1>9. CASE Send(w)
  <2>1. UNCHANGED <<campaign, rows, frozen, hook>> /\ work[w].pc = "send" /\ Goto(w, "sent")
    BY <1>9 DEF Send, ledger
  <2> QED
    BY <1>0, <1>1, <2>1, SettleSame, TurnReach DEF Reach, Goto
<1>10. CASE RecordSent(w)
  <2>1. /\ work[w].pc = "sent" /\ NextUp(w) /\ UNCHANGED <<campaign, frozen, hook>>
        /\ work[w].at \in Contacts /\ rows[work[w].at] # None
        /\ rows' = [rows EXCEPT ![work[w].at].status = "SENT", ![work[w].at].id = TRUE]
    BY <1>0, <1>10 DEF RecordSent, history, TypedInv, HandsFull, OnRow
  <2>2. PICK c \in Contacts : c = work[w].at
    BY <2>1
  <2>3. RowsGrow /\ rows' = [rows EXCEPT ![c] = [rows[c] EXCEPT !.status = "SENT", !.id = TRUE]]
    BY <1>0, <2>1, <2>2, RowSent
  <2>4. rows[c] \in Recipient /\ DOMAIN rows = Contacts
    BY <1>0, <2>1, <2>2, TypeParts DEF TypedInv
  <2>5. [rows[c] EXCEPT !.status = "SENT", !.id = TRUE].status = "SENT"
    BY <2>4 DEF Recipient
  <2>6. rows'[c] # None /\ rows'[c].status # "PENDING" /\ \A d \in Contacts : d # c => rows'[d] = rows[d]
    BY <2>1, <2>2, <2>3, <2>4, <2>5 DEF RowsGrow
  <2>7. RowsSettle
    BY <2>1, <2>2, <2>6, SettleMarked, Quiet DEF Filling
  <2>8. [work[w] EXCEPT !.pc = "next", !.at = None].pc = "next"
    BY <1>0 DEF Fields
  <2> QED
    BY <1>0, <2>1, <2>7, <2>8, TurnReach DEF Reach, NextUp
<1>11. CASE Close(w)
  <2>1. UNCHANGED <<campaign, rows, frozen, hook>> /\ work[w].pc = "close"
    BY <1>11 DEF Close, ledger, history
  <2>2. CASE Become(w, IdleWork) \/ Goto(w, "sampled")
    BY <1>0, <1>1, <2>1, <2>2, SettleSame, TurnReach DEF Reach, Goto
  <2>3. CASE Goto(w, "finish") /\ RowsWith("PENDING") = {}
    <3>1. \A u \in Workers : work'[u] = IF u = w THEN [work[w] EXCEPT !.pc = "finish"] ELSE work[u]
      BY <1>0, <2>3 DEF Goto, Become, Workers
    <3>2. w \in Resolvers => Begun
      BY <2>1 DEF Reach
    <3>3. Steady(w)
      BY <1>1, <2>1, <2>3, <3>1, <3>2 DEF Steady, Filling
    <3> QED
      BY <1>0, <2>1, <3>1, <3>3, SettleSame, ReachStays
  <2>4. ASSUME Goto(w, "finish"), ~ Become(w, IdleWork), ~ Goto(w, "sampled")
        PROVE  RowsWith("PENDING") = {}
    <3> DEFINE sampling == work[w].copy.ab /\ work[w].copy.winner = None
    <3>1. CASE sampling
      BY <1>11, <2>4, <3>1 DEF Close
    <3>2. CASE ~ sampling
      <4>1. {c \in RowsWith("PENDING") : sampling => rows[c].variant # 0} = {}
        BY <1>11, <2>4, <3>2 DEF Close
      <4> QED
        BY <3>2, <4>1
    <3> QED
      BY <3>1, <3>2
  <2>5. Become(w, IdleWork) \/ Goto(w, "sampled") \/ Goto(w, "finish")
    BY <1>11 DEF Close
  <2> QED
    BY <2>2, <2>3, <2>4, <2>5
<1>12. CASE Sampled(w)
  <2>1. /\ UNCHANGED <<rows, frozen, hook>> /\ work[w].pc = "sampled" /\ Become(w, IdleWork)
        /\ campaign'.status = "SENT" => campaign.status = "SENT"
    <3>1. campaign' = [campaign EXCEPT !.sample = "sent"] /\ "status" \in DOMAIN campaign
      BY <1>0, <1>12, TypeParts DEF Sampled, TypedInv, Rest, Campaign
    <3> QED
      BY <1>12, <3>1 DEF Sampled, ledger, history
  <2> QED
    BY <1>0, <1>1, <2>1, SettleSame, TurnReach
<1>13. CASE FinishCampaign(w)
  <2>1. UNCHANGED <<rows, frozen, hook>> /\ work[w].pc = "finish" /\ Become(w, IdleWork)
    BY <1>13 DEF FinishCampaign, ledger
  <2>2. RowsWith("PENDING") = {} /\ NobodyFills
    BY <2>1, Quiet DEF Reach, Filling
  <2>3. RowsSettle
    BY <2>1, <2>2 DEF RowsSettle
  <2> QED
    BY <1>0, <1>1, <2>1, <2>3, TurnReach
<1>14. CASE JudgeTest(w)
  <2>1. /\ UNCHANGED <<campaign, rows, frozen, hook>> /\ work[w].pc = "idle"
        /\ Become(w, [work[w] EXCEPT !.pc = "compare"])
    BY <1>14 DEF JudgeTest, ledger, history, Goto
  <2> QED
    BY <1>0, <1>1, <2>1, SettleSame, TurnReach
<1> QED
  BY <1>2, <1>3, <1>4, <1>5, <1>6, <1>7, <1>8, <1>9, <1>10, <1>11, <1>12, <1>13, <1>14
  DEF WorkerStep

(* A test is only won where somebody of the sample was reached.            *)
LEMMA WinnerNeedsReach == CurrentWinner # 0 => Begun
<1> SUFFICES ASSUME ~ Begun PROVE CurrentWinner = 0
  OBVIOUS
<1>1. ASSUME NEW v PROVE CountBy(v, Reached) = 0
  <2> DEFINE S == {c \in Contacts : rows[c] # None /\ rows[c].variant = v /\ rows[c].status \in Reached}
  <2>1. S = {}
    BY DEF Begun, Reached
  <2>2. CountBy(v, Reached) = Cardinality(S)
    BY DEF CountBy
  <2> HIDE DEF S
  <2> QED
    BY <2>1, <2>2, FS_EmptySet
<1> DEFINE sent == [v \in Variants |-> CountBy(v, Reached)]
           hits == [v \in Variants |-> CountBy(v, {"OPENED", "CLICKED"})]
<1>2. \A i \in DOMAIN sent : sent[i] = 0
  BY <1>1
<1>3. CurrentWinner = Winner(sent, hits)
  BY DEF CurrentWinner
<1> HIDE DEF sent, hits
<1> QED
  BY <1>2, <1>3 DEF Winner

LEMMA DecisionReach ==
  ASSUME OnceInv, Reach, OnePoller, NEW w \in Deciders, DecisionStep(w)
  PROVE  Reach'
<1>0. /\ w \in Workers \cup Admins /\ DOMAIN work[w] = Fields /\ TypedInv
  BY WorkOf DEF OnceInv, TypedInv, Workers, Deciders
<1>1. /\ IdleWork.pc = "idle" /\ [IdleWork EXCEPT !.pc = "dispatch"].pc = "dispatch"
      /\ \A pc : [work[w] EXCEPT !.pc = pc].pc = pc
  BY <1>0 DEF IdleWork, Fields
<1>2. UNCHANGED <<frozen, hook>> /\ work[w].pc \in {"compare", "decide", "heldback", "assign"}
  BY DEF DecisionStep, Compare, Decide, ListHeldBack, AssignWinner, Decided, history
<1>3. w \in Resolvers /\ work[w].pc # "compare" => Begun
  BY <1>2 DEF Reach
<1>4. campaign'.status = campaign.status
  <2>1. CASE Decide(w)
    <3>1. campaign' = [campaign EXCEPT !.winner = work[w].winner] /\ "status" \in DOMAIN campaign
      BY <1>0, <2>1, TypeParts DEF Decide, TypedInv, Rest, Campaign
    <3> QED
      BY <3>1
  <2> QED
    BY <2>1 DEF DecisionStep, Compare, ListHeldBack, AssignWinner, Decided
<1>5. CASE Compare(w)
  <2>1. UNCHANGED rows /\ work[w].pc = "compare"
    BY <1>5 DEF Compare, ledger
  <2>2. CASE CurrentWinner = 0
    <3>1. Become(w, IdleWork)
      BY <1>5, <2>2 DEF Compare
    <3> QED
      BY <1>0, <1>1, <1>2, <1>4, <2>1, <3>1, SettleSame, TurnReach
  <2>3. CASE CurrentWinner # 0
    <3>1. Become(w, [work[w] EXCEPT !.pc = "decide", !.winner = CurrentWinner])
      BY <1>5, <2>3 DEF Compare
    <3>2. [work[w] EXCEPT !.pc = "decide", !.winner = CurrentWinner].pc = "decide"
      BY <1>0 DEF Fields
    <3> QED
      BY <1>0, <1>2, <1>4, <2>1, <2>3, <3>1, <3>2, WinnerNeedsReach, SettleSame, TurnReach
  <2> QED
    BY <2>2, <2>3
<1>6. CASE Decide(w)
  <2>1. PICK pc \in {"assign", "heldback"} : Become(w, [work[w] EXCEPT !.pc = pc])
    BY <1>6 DEF Decide, Goto
  <2>2. UNCHANGED rows /\ work[w].pc = "decide"
    BY <1>6 DEF Decide, ledger
  <2> QED
    BY <1>0, <1>1, <1>2, <1>3, <1>4, <2>1, <2>2, SettleSame, TurnReach
<1>7. CASE ListHeldBack(w)
  <2>1. PICK S : Become(w, [work[w] EXCEPT !.pc = "assign", !.left = S])
    BY <1>7 DEF ListHeldBack
  <2>2. [work[w] EXCEPT !.pc = "assign", !.left = S].pc = "assign"
    BY <1>0 DEF Fields
  <2>3. UNCHANGED rows /\ work[w].pc = "heldback"
    BY <1>7 DEF ListHeldBack, ledger
  <2> QED
    BY <1>0, <1>2, <1>3, <1>4, <2>1, <2>2, <2>3, SettleSame, TurnReach
<1>8. CASE AssignWinner(w)
  <2>1. PICK c \in Contacts :
          /\ rows[c] # None /\ rows'[c] # None
          /\ rows'[c].status = rows[c].status /\ rows'[c].id = rows[c].id
          /\ \A d \in Contacts : d # c => rows'[d] = rows[d]
    BY <1>0, <1>8, WinnerAssigned
  <2>2. RowsSettle
    <3>1. Begun' => Begun
      BY <2>1 DEF Begun
    <3> QED
      BY <1>4, <2>1, <3>1 DEF RowsSettle
  <2>3. PICK gone : Become(w, [work[w] EXCEPT !.left = @ \ {gone}])
    BY <1>8 DEF AssignWinner
  <2>4. work[w].pc = "assign" /\ [work[w] EXCEPT !.left = @ \ {gone}].pc = "assign"
    BY <1>0, <1>8 DEF AssignWinner, Fields
  <2> QED
    BY <1>0, <1>2, <1>3, <2>2, <2>3, <2>4, TurnReach
<1>9. CASE Decided(w)
  <2>1. /\ UNCHANGED rows /\ work[w].pc = "assign"
        /\ Become(w, IdleWork) \/ Become(w, [IdleWork EXCEPT !.pc = "dispatch"])
    BY <1>9 DEF Decided, ledger
  <2> QED
    BY <1>0, <1>1, <1>2, <1>3, <1>4, <2>1, SettleSame, TurnReach
<1> QED
  BY <1>5, <1>6, <1>7, <1>8, <1>9 DEF DecisionStep

LEMMA AdminReach ==
  ASSUME TypedInv, Reach, NEW a \in Admins,
         AdminStep(a)
  PROVE  Reach'
<1>1. UNCHANGED <<rows, frozen, hook>>
  BY DEF AdminStep, CountRecipients, WriteCampaign, Request, ledger, history
<1>2. campaign'.status = "SENT" => campaign.status = "SENT"
  <2>1. CASE WriteCampaign(a)
    <3>1. work[a].op \in Writes /\ "status" \in DOMAIN campaign
      BY <2>1, TypeParts DEF WriteCampaign, TypedInv, HandsFull, Rest, Campaign
    <3>2. CASE work[a].op = "edit"
      <4>1. \E ab, metric \in BOOLEAN : campaign' = [campaign EXCEPT !.ab = ab, !.metric = metric]
        BY <2>1, <3>2 DEF WriteCampaign
      <4> QED
        BY <3>1, <4>1
    <3>3. CASE work[a].op # "edit"
      <4>1. \/ campaign' = [campaign EXCEPT !.status = "SCHEDULED", !.due = FALSE]
            \/ campaign' = [campaign EXCEPT !.status = "SCHEDULED", !.due = TRUE]
            \/ \E s \in {"SENDING", "PAUSED", "CANCELLED"} : campaign' = [campaign EXCEPT !.status = s]
        BY <2>1, <3>1, <3>3 DEF WriteCampaign, Writes
      <4> QED
        BY <3>1, <4>1
    <3> QED
      BY <3>2, <3>3
  <2> QED
    BY <2>1 DEF AdminStep, CountRecipients, Request
<1>3. \A u \in Workers : work'[u] = work[u]
  <2>1. PICK l : Become(a, l)
    BY DEF AdminStep, CountRecipients, WriteCampaign, Request
  <2>2. a \notin Workers
    BY CampaignAssumption
  <2> QED
    BY <2>1, <2>2, TypeParts DEF Become, TypedInv
<1> QED
  BY <1>1, <1>2, <1>3, SettleSame, ReachStays

(* The count of faults only grows.                                         *)
LEMMA FaultsStay == TypedInv /\ [Next]_vars => (used'.faults = 0 => used.faults = 0 /\ ~ Spend("faults"))
<1> SUFFICES ASSUME TypedInv, [Next]_vars, used'.faults = 0
             PROVE  used.faults = 0 /\ ~ Spend("faults")
  OBVIOUS
<1>0. used \in [{"requests", "receipts", "leaves", "faults"} -> Nat]
  BY TypeParts DEF TypedInv, Rest
<1>1. used.faults \in Nat
  BY <1>0
<1>2. Spend("faults") => used'.faults = used.faults + 1
  BY <1>0 DEF Spend
<1>3. ~ Spend("faults")
  BY <1>1, <1>2
<1>4. \A b \in {"requests", "receipts", "leaves"} : Spend(b) => used'.faults = used.faults
  BY <1>0 DEF Spend
<1>5. used' = used \/ \E b \in {"requests", "receipts", "leaves", "faults"} : Spend(b)
  <2>1. CASE UNCHANGED vars
    BY <2>1 DEF vars
  <2>2. CASE \E w \in Workers : WorkerStep(w)
    BY <2>2 DEF WorkerStep, Begin, ReadAudience, CreateRecipient, Filled, Open, ListPending,
         NextRecipient, Vet, Send, RecordSent, Close, Sampled, FinishCampaign, JudgeTest
  <2>3. CASE \E w \in Workers : RecordFailed(w) \/ Crash(w)
    BY <2>3 DEF RecordFailed, Crash
  <2>4. CASE \E w \in Deciders : DecisionStep(w)
    BY <2>4 DEF DecisionStep, Compare, Decide, ListHeldBack, AssignWinner, Decided
  <2>5. CASE \E a \in Admins : AdminStep(a)
    BY <2>5 DEF AdminStep, CountRecipients, WriteCampaign, Request
  <2>6. CASE DateComes \/ WindowPasses
    BY <2>6 DEF DateComes, WindowPasses
  <2>7. CASE \E c \in Contacts : Unsubscribe(c) \/ \E h \in Hooks, e \in Receipts : Receive(h, c, e)
    BY <2>7 DEF Unsubscribe, Receive
  <2>8. CASE \E h \in Hooks : WriteReceipt(h) \/ SuppressBounced(h)
    BY <2>8 DEF WriteReceipt, SuppressBounced
  <2> QED
    BY <2>1, <2>2, <2>3, <2>4, <2>5, <2>6, <2>7, <2>8 DEF Next
<1> QED
  BY <1>3, <1>4, <1>5

LEMMA StepReach == OnePoller /\ OnceInv /\ ReachInv /\ [Next]_vars => ReachInv'
<1> SUFFICES ASSUME OnePoller, OnceInv, ReachInv, [Next]_vars, used'.faults = 0
             PROVE  Reach'
  BY DEF ReachInv
<1>0. TypedInv /\ NoIdYet
  BY DEF OnceInv
<1>1. used.faults = 0 /\ ~ Spend("faults")
  BY <1>0, FaultsStay
<1>2. Reach
  BY <1>1 DEF ReachInv
<1>3. CASE UNCHANGED vars
  <2>1. UNCHANGED <<rows, campaign, frozen, hook, work>>
    BY <1>3 DEF vars, ledger, history
  <2> QED
    BY <1>0, <1>2, <2>1, SettleSame, IdlersReach
<1>4. ASSUME NEW w \in Workers, RecordFailed(w) \/ Crash(w) PROVE Reach'
  BY <1>1, <1>4 DEF RecordFailed, Crash
<1>5. CASE DateComes \/ WindowPasses
  <2>1. UNCHANGED <<rows, frozen, hook, work>>
    BY <1>5 DEF DateComes, WindowPasses, ledger, history
  <2>2. campaign'.status = campaign.status
    <3>1. "status" \in DOMAIN campaign
      BY <1>0, TypeParts DEF TypedInv, Rest, Campaign
    <3>2. \/ campaign' = [campaign EXCEPT !.due = TRUE]
          \/ campaign' = [campaign EXCEPT !.sample = "aged"]
      BY <1>5 DEF DateComes, WindowPasses
    <3> QED
      BY <3>1, <3>2
  <2> QED
    BY <1>0, <1>2, <2>1, <2>2, SettleSame, IdlersReach
<1>6. ASSUME NEW c \in Contacts, Unsubscribe(c) PROVE Reach'
  <2>1. UNCHANGED <<rows, campaign, frozen, hook, work>>
    BY <1>6 DEF Unsubscribe
  <2> QED
    BY <1>0, <1>2, <2>1, SettleSame, IdlersReach
<1>7. ASSUME NEW c \in Contacts, NEW h \in Hooks, NEW e \in Receipts, Receive(h, c, e) PROVE Reach'
  <2>1. UNCHANGED <<rows, campaign, frozen, work>> /\ rows[c] # None /\ rows[c].id
    BY <1>7 DEF Receive, ledger, history
  <2>2. Begun
    BY <1>0, <2>1 DEF NoIdYet, Begun
  <2> QED
    BY <1>0, <1>2, <2>1, <2>2, SettleSame, ReachStays
<1>8. ASSUME NEW h \in Hooks, SuppressBounced(h) PROVE Reach'
  <2>1. UNCHANGED <<rows, campaign, frozen, work>> /\ hook[h].pc = "suppress"
    BY <1>8 DEF SuppressBounced
  <2>2. Begun
    BY <1>2, <2>1 DEF Reach
  <2> QED
    BY <1>0, <1>2, <2>1, <2>2, SettleSame, ReachStays
<1>9. ASSUME NEW h \in Hooks, WriteReceipt(h) PROVE Reach'
  <2>1. /\ Mark(hook[h].contact, hook[h].event) /\ UNCHANGED <<campaign, frozen, work>>
        /\ hook[h].contact \in Contacts /\ hook[h].event \in Receipts
        /\ rows[hook[h].contact] # None /\ hook[h].pc = "write"
    BY <1>0, <1>9 DEF WriteReceipt, history, TypedInv, ReceiptsFit
  <2>2. PICK c \in Contacts, e \in Receipts : c = hook[h].contact /\ e = hook[h].event
    BY <2>1
  <2>3. e \in RowStatuses /\ e # "PENDING"
    BY CampaignAssumption DEF RowStatuses, Reached
  <2>4. /\ rows'[c] # None /\ rows'[c].status = e
        /\ \A d \in Contacts : d # c => rows'[d] = rows[d]
    BY <1>0, <2>1, <2>2, <2>3, MarkChanges
  <2>5. Begun
    BY <1>2, <2>1 DEF Reach
  <2>6. RowsSettle
    BY <2>1, <2>2, <2>3, <2>4, <2>5, SettleMarked
  <2> QED
    BY <1>0, <1>2, <2>1, <2>5, <2>6, ReachStays
<1> QED
  BY <1>0, <1>2, <1>3, <1>4, <1>5, <1>6, <1>7, <1>8, <1>9, DispatchReach, DecisionReach, AdminReach
  DEF Next

LEMMA ReachInit == Init => ReachInv
<1> SUFFICES ASSUME Init PROVE Reach
  BY DEF ReachInv
<1>1. /\ \A w \in Workers : work[w].pc = "idle"
      /\ \A h \in Hooks : hook[h].pc = "idle"
      /\ campaign.status = "DRAFT" /\ frozen = None
  BY DEF Init, IdleWork, IdleHook
<1> QED
  BY <1>1 DEF Reach, Filling, Workers

(* With one consumer of the campaign-dispatch queue, and as long as no     *)
(* worker dies and no mail is refused, a campaign that says SENT has a row *)
(* for everyone in its audience and no row waits, whatever receipts,       *)
(* administrators and resolutions of its test come in between.             *)
THEOREM EveryoneIsReached ==
  ASSUME OnePoller
  PROVE  Spec => []EveryoneReached
<1>1. Init => OnceInv /\ ReachInv
  BY OnceInit, ReachInit
<1>2. OnceInv /\ ReachInv /\ [Next]_vars => (OnceInv /\ ReachInv)'
  BY StepOnce, StepReach
<1>3. OnceInv /\ ReachInv => EveryoneReached
  <2> SUFFICES ASSUME OnceInv, Reach, campaign.status = "SENT"
               PROVE  RowsWith("PENDING") = {} /\ (frozen # None => \A c \in frozen : rows[c] # None)
    BY DEF EveryoneReached, ReachInv
  <2>1. ASSUME frozen # None, NEW c \in frozen PROVE rows[c] # None
    <3>1. \A w \in Workers : ~ Filling(w)
      BY DEF Reach
    <3>2. ~ InHand(c)
      BY <3>1 DEF InHand, Filling, Workers
    <3> QED
      BY <2>1, <3>2 DEF Reach
  <2> QED
    BY <2>1 DEF Reach
<1> QED
  BY <1>1, <1>2, <1>3, PTL DEF Spec

-----------------------------------------------------------------------------
(* FairSample, with one poller and nobody rewriting the test.  The copy a  *)
(* worker fills from tells of the test what the campaign was made with,    *)
(* and no variant is assigned before a winner stands (TestKept); so, until *)
(* then, every row and every row still to be created is of the allocation  *)
(* of the first audience (Shared).                                         *)
Copying == {"audience", "fill", "open"}
Assigning == {"heldback", "assign"}

TestKept ==
  /\ campaign.ab = kind.ab
  /\ \A w \in Workers \cup Admins :
       /\ work[w].pc \in Copying => work[w].copy.ab = kind.ab
       /\ work[w].pc \in Assigning => campaign.winner # None
       /\ work[w].pc \in {"count", "write"} => work[w].op # "edit"

Allotted == Assignments(frozen, kind.ab /\ kind.variants)
Shared ==
  /\ \A c \in Contacts : rows[c] # None => <<c, rows[c].variant>> \in Allotted
  /\ \A w \in Workers : work[w].pc = "fill" => work[w].fill \subseteq Allotted

Sampling == used.faults = 0 /\ campaign.winner = None
ShareInv == TestKept /\ (Sampling => Shared)

(* What most steps leave of the test, and of whoever takes one.            *)
TestStays ==
  /\ UNCHANGED <<kind, frozen>> /\ campaign'.ab = campaign.ab
  /\ campaign'.winner = None => campaign.winner = None
  /\ used'.faults = 0 => used.faults = 0
VariantsStay ==
  \A c \in Contacts : rows'[c] # None => rows[c] # None /\ rows'[c].variant = rows[c].variant
Placed(u) ==
  /\ work'[u].pc \in Copying => work'[u].copy.ab = kind.ab
  /\ work'[u].pc \in Assigning => campaign'.winner # None
  /\ work'[u].pc \in {"count", "write"} => work'[u].op # "edit"
  /\ work'[u].pc = "fill" => work[u].pc = "fill" /\ work'[u].fill \subseteq work[u].fill

LEMMA SharesStay ==
  ASSUME ShareInv, TestStays, campaign'.winner = None => VariantsStay,
         \A u \in Workers \cup Admins : work'[u] = work[u] \/ Placed(u)
  PROVE  ShareInv'
<1>1. TestKept'
  BY DEF ShareInv, TestKept, TestStays, Placed
<1>2. ASSUME Sampling' PROVE Shared'
  <2>1. Shared /\ VariantsStay
    BY <1>2 DEF ShareInv, Sampling, TestStays
  <2>2. Allotted' = Allotted
    BY DEF TestStays, Allotted, Assignments
  <2>3. \A c \in Contacts : rows'[c] # None => <<c, rows'[c].variant>> \in Allotted
    BY <2>1 DEF Shared, VariantsStay
  <2>4. ASSUME NEW u \in Workers, work'[u].pc = "fill", NEW a \in work'[u].fill
        PROVE  a \in Allotted
    <3>1. work[u].pc = "fill" /\ a \in work[u].fill
      BY <2>4 DEF Placed
    <3> QED
      BY <2>1, <3>1 DEF Shared
  <2> HIDE DEF Allotted
  <2> QED
    BY <2>2, <2>3, <2>4 DEF Shared
<1> QED
  BY <1>1, <1>2 DEF ShareInv

(* Someone turns to something else.                                        *)
LEMMA TurnShares ==
  ASSUME TypedInv, ShareInv, TestStays, campaign'.winner = None => VariantsStay,
         NEW w \in Workers \cup Admins, NEW l, Become(w, l),
         l.pc \in Copying => l.copy.ab = kind.ab,
         l.pc \in Assigning => campaign'.winner # None,
         l.pc \in {"count", "write"} => l.op # "edit",
         l.pc = "fill" => work[w].pc = "fill" /\ l.fill \subseteq work[w].fill
  PROVE  ShareInv'
<1>1. \A u \in Workers \cup Admins : work'[u] = IF u = w THEN l ELSE work[u]
  BY TypeParts DEF Become, TypedInv
<1>2. Placed(w)
  BY <1>1 DEF Placed
<1>3. \A u \in Workers \cup Admins : work'[u] = work[u] \/ Placed(u)
  BY <1>1, <1>2
<1> QED
  BY <1>3, SharesStay

LEMMA SameVariants == ASSUME UNCHANGED rows PROVE VariantsStay
BY DEF VariantsStay

LEMMA SameTest ==
  ASSUME UNCHANGED <<kind, frozen, campaign>>, used'.faults = 0 => used.faults = 0
  PROVE  TestStays
BY DEF TestStays

LEMMA MarkedVariants ==
  ASSUME TypedInv, NEW c \in Contacts, rows[c] # None, NEW s \in RowStatuses, Mark(c, s)
  PROVE  VariantsStay
<1>1. rows[c] \in Recipient /\ DOMAIN rows = Contacts
  BY TypeParts DEF TypedInv
<1>2. rows' = [rows EXCEPT ![c] = [rows[c] EXCEPT !.status = s]]
  BY MarkGrows
<1>3. [rows[c] EXCEPT !.status = s].variant = rows[c].variant
  BY <1>1 DEF Recipient
<1> QED
  BY <1>1, <1>2, <1>3 DEF VariantsStay

-----------------------------------------------------------------------------
(* The audience is taken once: whoever finds no rows is the one poller,    *)
(* and had it taken one before, it would still be creating its rows.       *)
LEMMA AudienceOnce ==
  ASSUME TypedInv, Reach, OnePoller, NEW w \in Workers, work[w].pc = "audience", Unstarted
  PROVE  frozen = None
<1> SUFFICES ASSUME frozen # None PROVE FALSE
  OBVIOUS
<1>1. w \in Pollers
  BY DEF Reach, Filling
<1>2. PICK c \in frozen : c \in Contacts
  BY TypeParts DEF Reach, TypedInv, Rest
<1>3. InHand(c)
  BY <1>2 DEF Reach, Unstarted
<1> QED
  BY <1>1, <1>3 DEF InHand, OnePoller

LEMMA AudienceShares ==
  ASSUME TypedInv, Reach, OnePoller, ShareInv, NEW w \in Workers, ReadAudience(w),
         used'.faults = 0 => used.faults = 0
  PROVE  ShareInv'
<1>1. PICK segment \in Segments :
        LET audience == IF Unstarted THEN segment \ suppressed ELSE {} IN
        /\ Become(w, [work[w] EXCEPT !.fill = Assignments(audience, work[w].copy.ab /\ kind.variants), !.pc = "fill"])
        /\ frozen' = IF frozen = None /\ audience # {} THEN audience ELSE frozen
  BY DEF ReadAudience
<1>2. PICK audience : audience = IF Unstarted THEN segment \ suppressed ELSE {}
  OBVIOUS
<1>3. PICK fill : fill = Assignments(audience, work[w].copy.ab /\ kind.variants)
  OBVIOUS
<1>4. /\ work[w].pc = "audience" /\ UNCHANGED <<kind, campaign, rows>>
      /\ Become(w, [work[w] EXCEPT !.fill = fill, !.pc = "fill"])
      /\ frozen' = IF frozen = None /\ audience # {} THEN audience ELSE frozen
  BY <1>1, <1>2, <1>3 DEF ReadAudience, ledger
<1>5. DOMAIN work[w] = Fields
  BY WorkOf DEF Workers
<1>6. /\ work'[w].pc = "fill" /\ work'[w].fill = fill /\ work'[w].copy = work[w].copy
      /\ \A u \in Workers \cup Admins : u # w => work'[u] = work[u]
  BY <1>4, <1>5, TypeParts DEF Become, TypedInv, Workers, Fields
<1>7. work[w].copy.ab = kind.ab
  BY <1>4 DEF ShareInv, TestKept, Copying, Workers
<1>8. TestKept'
  BY <1>4, <1>6, <1>7 DEF ShareInv, TestKept, Copying, Assigning
<1>9. audience = {} => fill = {}
  BY <1>3 DEF Assignments
<1>10. ASSUME Sampling' PROVE Shared'
  <2>1. Shared
    BY <1>4, <1>10 DEF ShareInv, Sampling
  <2>2. CASE audience = {}
    <3>1. Allotted' = Allotted
      BY <1>4, <2>2 DEF Allotted, Assignments
    <3>2. ASSUME NEW u \in Workers, work'[u].pc = "fill", NEW a \in work'[u].fill
          PROVE  a \in Allotted
      <4>1. u # w
        BY <1>6, <1>9, <2>2, <3>2
      <4> QED
        BY <1>6, <2>1, <3>2, <4>1 DEF Shared
    <3> HIDE DEF Allotted
    <3> QED
      BY <1>4, <2>1, <3>1, <3>2 DEF Shared
  <2>3. CASE audience # {}
    <3>1. Unstarted /\ Filling(w)
      BY <1>2, <1>4, <2>3 DEF Filling
    <3>2. frozen = None /\ w \in Pollers
      BY <1>4, <3>1, AudienceOnce DEF Reach
    <3>3. frozen' = audience
      BY <1>4, <2>3, <3>2
    <3>4. fill = Allotted'
      BY <1>3, <1>4, <1>7, <3>3 DEF Allotted, Assignments
    <3>5. \A c \in Contacts : rows'[c] = None
      BY <1>4, <3>1 DEF Unstarted
    <3>6. ASSUME NEW u \in Workers, work'[u].pc = "fill", NEW a \in work'[u].fill
          PROVE  a \in fill
      <4>1. CASE u = w
        BY <1>6, <3>6, <4>1
      <4>2. CASE u # w
        <5>1. Filling(u)
          BY <1>6, <3>6, <4>2 DEF Filling
        <5> QED
          BY <3>2, <4>2, <5>1 DEF Reach, OnePoller
      <4> QED
        BY <4>1, <4>2
    <3> HIDE DEF Allotted
    <3> QED
      BY <3>3, <3>4, <3>5, <3>6 DEF Shared
  <2> QED
    BY <2>2, <2>3
<1> QED
  BY <1>8, <1>10 DEF ShareInv

LEMMA CreateShares ==
  ASSUME TypedInv, ShareInv, NEW w \in Workers, CreateRecipient(w)
  PROVE  ShareInv'
<1>1. PICK a \in work[w].fill :
        /\ rows' = IF rows[a[1]] # None THEN rows
                   ELSE [rows EXCEPT ![a[1]] = [status |-> "PENDING", variant |-> a[2], id |-> FALSE]]
        /\ Become(w, [work[w] EXCEPT !.fill = @ \ {a}])
  BY DEF CreateRecipient
<1>2. work[w].pc = "fill" /\ UNCHANGED <<kind, campaign, frozen, used>>
  BY DEF CreateRecipient, history
<1>3. DOMAIN work[w] = Fields /\ a[1] \in Contacts /\ a = <<a[1], a[2]>>
  BY WorkOf DEF Workers
<1>4. /\ work'[w].pc = "fill" /\ work'[w].fill \subseteq work[w].fill /\ work'[w].copy = work[w].copy
      /\ \A u \in Workers \cup Admins : u # w => work'[u] = work[u]
  BY <1>1, <1>2, <1>3, TypeParts DEF Become, TypedInv, Workers, Fields
<1>5. PICK r : r = [status |-> "PENDING", variant |-> a[2], id |-> FALSE]
  OBVIOUS
<1>6. \A c \in Contacts : rows'[c] = rows[c] \/ (c = a[1] /\ rows'[c].variant = a[2])
  BY <1>1, <1>3, <1>5, TypeParts DEF TypedInv
<1>7. TestKept'
  BY <1>2, <1>4 DEF ShareInv, TestKept, Copying, Assigning
<1>8. ASSUME Sampling' PROVE Shared'
  <2>1. Shared /\ Allotted' = Allotted
    BY <1>2, <1>8 DEF ShareInv, Sampling, Allotted, Assignments
  <2> HIDE DEF Allotted
  <2>2. a \in Allotted
    BY <1>1, <1>2, <2>1 DEF Shared
  <2>3. ASSUME NEW c \in Contacts, rows'[c] # None PROVE <<c, rows'[c].variant>> \in Allotted
    BY <1>3, <1>6, <2>1, <2>2, <2>3 DEF Shared
  <2>4. ASSUME NEW u \in Workers, work'[u].pc = "fill" PROVE work'[u].fill \subseteq Allotted
    <3>1. work[u].pc = "fill" /\ work'[u].fill \subseteq work[u].fill
      BY <1>2, <1>4, <2>4
    <3> QED
      BY <2>1, <3>1 DEF Shared
  <2> QED
    BY <2>1, <2>3, <2>4 DEF Shared
<1> QED
  BY <1>7, <1>8 DEF ShareInv

LEMMA DispatchShares ==
  ASSUME TypedInv, ReachInv, OnePoller, ShareInv, NEW w \in Workers, WorkerStep(w)
  PROVE  ShareInv'
<1>0. /\ w \in Workers \cup Admins /\ DOMAIN work[w] = Fields
      /\ DOMAIN work = Workers \cup Admins
  BY WorkOf, TypeParts DEF TypedInv, Workers
<1>1. /\ IdleWork.pc = "idle"
      /\ \A pc : LET l == [IdleWork EXCEPT !.copy = campaign, !.pc = pc] IN l.pc = pc /\ l.copy = campaign
      /\ \A pc : LET l == [work[w] EXCEPT !.pc = pc] IN l.pc = pc /\ l.copy = work[w].copy
  BY <1>0 DEF IdleWork, Fields
<1>2. UNCHANGED <<kind, used>>
  BY DEF WorkerStep, Begin, ReadAudience, CreateRecipient, Filled, Open, ListPending,
     NextRecipient, Vet, Send, RecordSent, Close, Sampled, FinishCampaign, JudgeTest
<1>3. /\ campaign.ab = kind.ab
      /\ work[w].pc \in Copying => work[w].copy.ab = kind.ab
  BY <1>0 DEF ShareInv, TestKept
<1>4. CASE Begin(w)
  <2>1. PICK pc \in {"idle", "audience", "drain", "open"} :
          Become(w, [IdleWork EXCEPT !.copy = campaign, !.pc = pc])
    BY <1>4 DEF Begin
  <2>2. UNCHANGED <<campaign, rows, frozen>>
    BY <1>4 DEF Begin, ledger, history
  <2>3. PICK l : l = [IdleWork EXCEPT !.copy = campaign, !.pc = pc]
    OBVIOUS
  <2>4. Become(w, l) /\ l.pc = pc /\ l.copy.ab = kind.ab
    BY <1>1, <1>3, <2>1, <2>3
  <2> QED
    BY <1>0, <1>2, <2>2, <2>4, SameVariants, SameTest, TurnShares DEF Copying, Assigning
<1>5. CASE ReadAudience(w)
  <2>1. CASE used.faults = 0
    BY <1>2, <1>5, <2>1, AudienceShares DEF ReachInv
  <2>2. CASE used.faults # 0
    <3>1. ~ Sampling'
      BY <1>2, <2>2 DEF Sampling
    <3>2. UNCHANGED campaign /\ \E fill : Become(w, [work[w] EXCEPT !.fill = fill, !.pc = "fill"])
      BY <1>5 DEF ReadAudience
    <3>3. /\ \A fill : LET l == [work[w] EXCEPT !.fill = fill, !.pc = "fill"]
                       IN l.pc = "fill" /\ l.copy = work[w].copy
      BY <1>0 DEF Fields
    <3>4. work[w].pc = "audience"
      BY <1>5 DEF ReadAudience
    <3>5. \A u \in Workers \cup Admins :
            \/ work'[u] = work[u]
            \/ work'[u].pc = "fill" /\ work'[u].copy.ab = kind.ab
      BY <1>0, <1>3, <3>2, <3>3, <3>4 DEF Become, Copying
    <3>6. TestKept'
      BY <1>2, <3>2, <3>5 DEF ShareInv, TestKept, Copying, Assigning
    <3> QED
      BY <3>1, <3>6 DEF ShareInv
  <2> QED
    BY <2>1, <2>2
<1>6. CASE CreateRecipient(w)
  BY <1>6, CreateShares
<1>7. CASE Filled(w)
  <2>1. PICK pc \in {"drain", "open"} : Become(w, [work[w] EXCEPT !.pc = pc])
    BY <1>7 DEF Filled, Goto, AfterFill
  <2>2. UNCHANGED <<campaign, rows, frozen>> /\ work[w].pc = "fill"
    BY <1>7 DEF Filled, ledger, history
  <2>3. PICK l : l = [work[w] EXCEPT !.pc = pc]
    OBVIOUS
  <2>4. Become(w, l) /\ l.pc = pc /\ l.copy.ab = kind.ab
    BY <1>1, <1>3, <2>1, <2>2, <2>3 DEF Copying
  <2> QED
    BY <1>0, <1>2, <2>2, <2>4, SameVariants, SameTest, TurnShares DEF Copying, Assigning
<1>8. CASE Open(w)
  <2>1. UNCHANGED <<rows, frozen>> /\ work[w].pc = "open"
    BY <1>8 DEF Open, ledger
  <2>2. UNCHANGED campaign \/ campaign' = [campaign EXCEPT !.status = "SENDING"]
    BY <1>8 DEF Open
  <2>3. TestStays
    BY <1>2, <2>1, <2>2, TypeParts DEF TestStays, TypedInv, Rest, Campaign
  <2>4. \/ Become(w, IdleWork)
        \/ \E pc \in {"audience", "drain"} : Become(w, [work[w] EXCEPT !.pc = pc])
    BY <1>8 DEF Open, Goto
  <2>5. CASE Become(w, IdleWork)
    BY <1>0, <1>1, <2>1, <2>3, <2>5, SameVariants, TurnShares DEF Copying, Assigning
  <2>6. ASSUME NEW pc \in {"audience", "drain"}, Become(w, [work[w] EXCEPT !.pc = pc]) PROVE ShareInv'
    <3>1. PICK l : l = [work[w] EXCEPT !.pc = pc]
      OBVIOUS
    <3>2. Become(w, l) /\ l.pc = pc /\ l.copy.ab = kind.ab
      BY <1>1, <1>3, <2>1, <2>6, <3>1 DEF Copying
    <3> QED
      BY <1>0, <2>1, <2>3, <3>2, SameVariants, TurnShares DEF Copying, Assigning
  <2> QED
    BY <2>4, <2>5, <2>6
<1>9. CASE ListPending(w) \/ NextRecipient(w)
  <2>1. \E l : Become(w, l) /\ l.pc \in {"next", "vet", "close"}
    <3>1. /\ \A S : [work[w] EXCEPT !.pc = "next", !.left = S].pc = "next"
          /\ [work[w] EXCEPT !.pc = "close", !.left = {}, !.at = None].pc = "close"
          /\ \A c : [work[w] EXCEPT !.pc = "vet", !.at = c, !.left = @ \ {c}].pc = "vet"
      BY <1>0 DEF Fields
    <3> QED
      BY <1>9, <3>1 DEF ListPending, NextRecipient
  <2>2. UNCHANGED <<campaign, rows, frozen>>
    BY <1>9 DEF ListPending, NextRecipient, ledger, history
  <2> QED
    BY <1>0, <1>2, <2>1, <2>2, SameVariants, SameTest, TurnShares DEF Copying, Assigning
<1>10. CASE Vet(w)
  <2>1. work[w].pc = "vet" /\ UNCHANGED <<campaign, frozen>>
    BY <1>10 DEF Vet, history
  <2>2. CASE Goto(w, "send") /\ UNCHANGED rows
    BY <1>0, <1>1, <1>2, <2>1, <2>2, SameVariants, SameTest, TurnShares DEF Copying, Assigning, Goto
  <2>3. ASSUME NEW s \in {"UNSUBSCRIBED", "QUEUED"}, Mark(work[w].at, s), NextUp(w)
        PROVE  ShareInv'
    <3>1. work[w].at \in Contacts /\ rows[work[w].at] # None
      BY <2>1 DEF TypedInv, HandsFull, Workers, OnRow
    <3>2. VariantsStay
      BY <2>3, <3>1, MarkedVariants DEF RowStatuses
    <3>3. [work[w] EXCEPT !.pc = "next", !.at = None].pc = "next"
      BY <1>0 DEF Fields
    <3> QED
      BY <1>0, <1>2, <2>1, <2>3, <3>2, <3>3, SameTest, TurnShares DEF Copying, Assigning, NextUp
  <2> QED
    BY <1>10, <2>2, <2>3 DEF Vet
<1>11. CASE Send(w)
  <2>1. UNCHANGED <<campaign, rows, frozen>> /\ Goto(w, "sent")
    BY <1>11 DEF Send, ledger
  <2> QED
    BY <1>0, <1>1, <1>2, <2>1, SameVariants, SameTest, TurnShares DEF Copying, Assigning, Goto
<1>12. CASE RecordSent(w)
  <2>1. /\ work[w].pc = "sent" /\ NextUp(w) /\ UNCHANGED <<campaign, frozen>>
        /\ work[w].at \in Contacts /\ rows[work[w].at] # None
        /\ rows' = [rows EXCEPT ![work[w].at].status = "SENT", ![work[w].at].id = TRUE]
    BY <1>0, <1>12 DEF RecordSent, history, TypedInv, HandsFull, OnRow
  <2>2. PICK c \in Contacts : c = work[w].at
    BY <2>1
  <2>3. rows' = [rows EXCEPT ![c] = [rows[c] EXCEPT !.status = "SENT", !.id = TRUE]]
    BY <1>0, <2>1, <2>2, RowSent
  <2>4. rows[c] \in Recipient /\ DOMAIN rows = Contacts
    BY <1>0, <2>1, <2>2, TypeParts DEF TypedInv
  <2>5. [rows[c] EXCEPT !.status = "SENT", !.id = TRUE].variant = rows[c].variant
    BY <2>4 DEF Recipient
  <2>6. VariantsStay
    BY <2>1, <2>2, <2>3, <2>4, <2>5 DEF VariantsStay
  <2>7. [work[w] EXCEPT !.pc = "next", !.at = None].pc = "next"
    BY <1>0 DEF Fields
  <2> QED
    BY <1>0, <1>2, <2>1, <2>6, <2>7, SameTest, TurnShares DEF Copying, Assigning, NextUp
<1>13. CASE Close(w)
  <2>1. UNCHANGED <<campaign, rows, frozen>>
    BY <1>13 DEF Close, ledger, history
  <2>2. \E l : Become(w, l) /\ l.pc \in {"idle", "sampled", "finish"}
    <3>1. Become(w, IdleWork) \/ Goto(w, "sampled") \/ Goto(w, "finish")
      BY <1>13 DEF Close
    <3> QED
      BY <1>1, <3>1 DEF Goto
  <2> QED
    BY <1>0, <1>2, <2>1, <2>2, SameVariants, SameTest, TurnShares DEF Copying, Assigning
<1>14. CASE Sampled(w) \/ FinishCampaign(w)
  <2>1. UNCHANGED <<rows, frozen>> /\ Become(w, IdleWork)
    BY <1>14 DEF Sampled, FinishCampaign, ledger, history
  <2>2. \/ campaign' = [campaign EXCEPT !.sample = "sent"]
        \/ campaign' = [campaign EXCEPT !.status = "SENT", !.sample = IF @ = "unsent" THEN "sent" ELSE @]
    BY <1>14 DEF Sampled, FinishCampaign
  <2>3. TestStays
    BY <1>2, <2>1, <2>2, TypeParts DEF TestStays, TypedInv, Rest, Campaign
  <2> QED
    BY <1>0, <1>1, <2>1, <2>3, SameVariants, TurnShares DEF Copying, Assigning
<1>15. CASE JudgeTest(w)
  <2>1. UNCHANGED <<campaign, rows, frozen>> /\ Become(w, [work[w] EXCEPT !.pc = "compare"])
    BY <1>15 DEF JudgeTest, ledger, history, Goto
  <2> QED
    BY <1>0, <1>1, <1>2, <2>1, SameVariants, SameTest, TurnShares DEF Copying, Assigning
<1> QED
  BY <1>4, <1>5, <1>6, <1>7, <1>8, <1>9, <1>10, <1>11, <1>12, <1>13, <1>14, <1>15 DEF WorkerStep

LEMMA DecisionShares ==
  ASSUME TypedInv, ShareInv, NEW w \in Deciders, DecisionStep(w)
  PROVE  ShareInv'
<1>0. w \in Workers \cup Admins /\ DOMAIN work[w] = Fields
  BY WorkOf DEF Workers, Deciders
<1>1. /\ IdleWork.pc = "idle" /\ [IdleWork EXCEPT !.pc = "dispatch"].pc = "dispatch"
      /\ \A pc : [work[w] EXCEPT !.pc = pc].pc = pc
  BY <1>0 DEF IdleWork, Fields
<1>2. UNCHANGED <<kind, frozen, used>>
  BY DEF DecisionStep, Compare, Decide, ListHeldBack, AssignWinner, Decided, history
<1>3. work[w].pc \in Assigning => campaign.winner # None
  BY <1>0 DEF ShareInv, TestKept
<1>4. CASE Compare(w)
  <2>1. UNCHANGED <<campaign, rows>>
    BY <1>4 DEF Compare, ledger
  <2>2. \E l : Become(w, l) /\ l.pc \in {"idle", "decide"}
    <3>1. [work[w] EXCEPT !.pc = "decide", !.winner = CurrentWinner].pc = "decide"
      BY <1>0 DEF Fields
    <3> QED
      BY <1>1, <1>4, <3>1 DEF Compare
  <2> QED
    BY <1>0, <1>2, <2>1, <2>2, SameVariants, SameTest, TurnShares DEF Copying, Assigning
<1>5. CASE Decide(w)
  <2>1. UNCHANGED rows /\ campaign' = [campaign EXCEPT !.winner = work[w].winner]
    BY <1>5 DEF Decide, ledger
  <2>2. work[w].winner # None
    BY <1>0, <1>5 DEF Decide, TypedInv, HandsFull, Deciding
  <2>3. campaign'.winner # None /\ campaign'.ab = campaign.ab
    BY <2>1, <2>2, TypeParts DEF TypedInv, Rest, Campaign
  <2>4. PICK pc \in {"assign", "heldback"} : Become(w, [work[w] EXCEPT !.pc = pc])
    BY <1>5 DEF Decide, Goto
  <2>5. TestStays
    BY <1>2, <2>3 DEF TestStays
  <2> QED
    BY <1>0, <1>1, <2>3, <2>4, <2>5, TurnShares DEF Copying, Assigning
<1>6. CASE ListHeldBack(w)
  <2>1. UNCHANGED <<campaign, rows>> /\ work[w].pc = "heldback"
    BY <1>6 DEF ListHeldBack, ledger
  <2>2. PICK S : Become(w, [work[w] EXCEPT !.pc = "assign", !.left = S])
    BY <1>6 DEF ListHeldBack
  <2>3. [work[w] EXCEPT !.pc = "assign", !.left = S].pc = "assign"
    BY <1>0 DEF Fields
  <2> QED
    BY <1>0, <1>2, <1>3, <2>1, <2>2, <2>3, SameVariants, SameTest, TurnShares DEF Copying, Assigning
<1>7. CASE AssignWinner(w)
  <2>1. UNCHANGED campaign /\ work[w].pc = "assign"
    BY <1>7 DEF AssignWinner
  <2>2. campaign'.winner # None
    BY <1>3, <2>1 DEF Assigning
  <2>3. PICK gone : Become(w, [work[w] EXCEPT !.left = @ \ {gone}])
    BY <1>7 DEF AssignWinner
  <2>4. [work[w] EXCEPT !.left = @ \ {gone}].pc = "assign"
    BY <1>0, <2>1 DEF Fields
  <2> QED
    BY <1>0, <1>2, <2>1, <2>2, <2>3, <2>4, SameTest, TurnShares DEF Copying, Assigning
<1>8. CASE Decided(w)
  <2>1. /\ UNCHANGED <<campaign, rows>>
        /\ Become(w, IdleWork) \/ Become(w, [IdleWork EXCEPT !.pc = "dispatch"])
    BY <1>8 DEF Decided, ledger
  <2> QED
    BY <1>0, <1>1, <1>2, <2>1, SameVariants, SameTest, TurnShares DEF Copying, Assigning
<1> QED
  BY <1>4, <1>5, <1>6, <1>7, <1>8 DEF DecisionStep

LEMMA AdminShares ==
  ASSUME TypedInv, ShareInv, "edit" \notin Ops, [Next]_vars, NEW a \in Admins,
         AdminStep(a)
  PROVE  ShareInv'
<1>1. UNCHANGED <<kind, rows, frozen>> /\ (used'.faults = 0 => used.faults = 0)
  BY FaultsStay DEF AdminStep, CountRecipients, WriteCampaign, Request, ledger, history
<1>2. a \in Workers \cup Admins
  OBVIOUS
<1>3. CASE WriteCampaign(a)
  <2>1. work[a].op \in Writes \ {"edit"}
    BY <1>2, <1>3 DEF WriteCampaign, TypedInv, HandsFull, ShareInv, TestKept
  <2>2. \/ campaign' = [campaign EXCEPT !.status = "SCHEDULED", !.due = FALSE]
        \/ campaign' = [campaign EXCEPT !.status = "SCHEDULED", !.due = TRUE]
        \/ \E s \in {"SENDING", "PAUSED", "CANCELLED"} : campaign' = [campaign EXCEPT !.status = s]
    BY <1>3, <2>1 DEF WriteCampaign, Writes
  <2>3. TestStays
    BY <1>1, <2>2, TypeParts DEF TestStays, TypedInv, Rest, Campaign
  <2>4. Become(a, IdleWork) /\ IdleWork.pc = "idle"
    BY <1>3 DEF WriteCampaign, IdleWork
  <2> QED
    BY <1>1, <1>2, <2>3, <2>4, SameVariants, TurnShares DEF Copying, Assigning
<1>4. ASSUME NEW op \in Ops, Request(a, op) PROVE ShareInv'
  <2>1. PICK pc \in {"compare", "count", "write"} : Become(a, [IdleWork EXCEPT !.op = op, !.pc = pc])
    BY <1>4 DEF Request
  <2>2. LET l == [IdleWork EXCEPT !.op = op, !.pc = pc] IN l.pc = pc /\ l.op # "edit"
    BY DEF IdleWork
  <2>3. UNCHANGED campaign
    BY <1>4 DEF Request
  <2> QED
    BY <1>1, <1>2, <2>1, <2>2, <2>3, SameVariants, SameTest, TurnShares DEF Copying, Assigning
<1>5. CASE CountRecipients(a)
  <2>1. UNCHANGED campaign /\ work[a].op # "edit" /\ DOMAIN work[a] = Fields
    BY <1>2, <1>5, WorkOf DEF CountRecipients, ShareInv, TestKept
  <2>2. PICK op \in {work[a].op, "resume draining"} :
          Become(a, [work[a] EXCEPT !.pc = "write", !.op = op])
    BY <1>5 DEF CountRecipients
  <2>3. LET l == [work[a] EXCEPT !.pc = "write", !.op = op] IN l.pc = "write" /\ l.op # "edit"
    BY <2>1, <2>2 DEF Fields
  <2> QED
    BY <1>1, <1>2, <2>1, <2>2, <2>3, SameVariants, SameTest, TurnShares DEF Copying, Assigning
<1> QED
  BY <1>3, <1>4, <1>5 DEF AdminStep

LEMMA StepShares == OnePoller /\ "edit" \notin Ops /\ OnceInv /\ ReachInv /\ ShareInv /\ [Next]_vars => ShareInv'
<1> SUFFICES ASSUME OnePoller, "edit" \notin Ops, OnceInv, ReachInv, ShareInv, [Next]_vars
             PROVE  ShareInv'
  OBVIOUS
<1>0. TypedInv /\ (used'.faults = 0 => used.faults = 0 /\ ~ Spend("faults"))
  BY FaultsStay DEF OnceInv
<1>1. CASE UNCHANGED vars
  <2>1. UNCHANGED <<kind, rows, campaign, frozen, work>>
    BY <1>1 DEF vars, ledger, history
  <2> QED
    BY <1>0, <2>1, SameVariants, SameTest, SharesStay
<1>2. ASSUME NEW w \in Workers, RecordFailed(w) PROVE ShareInv'
  <2>1. /\ UNCHANGED <<kind, campaign, frozen>> /\ NextUp(w) /\ work[w].pc \in OnRow
        /\ Mark(work[w].at, "FAILED")
    BY <1>2 DEF RecordFailed, history, OnRow
  <2>2. work[w].at \in Contacts /\ rows[work[w].at] # None
    BY <1>0, <2>1 DEF TypedInv, HandsFull, Workers
  <2>3. VariantsStay
    BY <1>0, <2>1, <2>2, MarkedVariants DEF RowStatuses
  <2>4. [work[w] EXCEPT !.pc = "next", !.at = None].pc = "next" /\ w \in Workers \cup Admins
    BY <1>0, WorkOf DEF Fields
  <2> QED
    BY <1>0, <2>1, <2>3, <2>4, SameTest, TurnShares DEF Copying, Assigning, NextUp
<1>3. ASSUME NEW w \in Workers, Crash(w) PROVE ShareInv'
  <2>1. UNCHANGED <<kind, campaign, rows, frozen>> /\ Become(w, IdleWork) /\ IdleWork.pc = "idle"
    BY <1>3 DEF Crash, ledger, history, IdleWork
  <2> QED
    BY <1>0, <2>1, SameVariants, SameTest, TurnShares DEF Copying, Assigning
<1>4. CASE DateComes \/ WindowPasses
  <2>1. UNCHANGED <<kind, rows, frozen, work, used>>
    BY <1>4 DEF DateComes, WindowPasses, ledger, history
  <2>2. \/ campaign' = [campaign EXCEPT !.due = TRUE]
        \/ campaign' = [campaign EXCEPT !.sample = "aged"]
    BY <1>4 DEF DateComes, WindowPasses
  <2>3. TestStays
    BY <1>0, <2>1, <2>2, TypeParts DEF TestStays, TypedInv, Rest, Campaign
  <2> QED
    BY <2>1, <2>3, SameVariants, SharesStay
<1>5. ASSUME NEW c \in Contacts, Unsubscribe(c) \/ \E h \in Hooks, e \in Receipts : Receive(h, c, e)
      PROVE  ShareInv'
  <2>1. UNCHANGED <<kind, rows, campaign, frozen, work>>
    BY <1>5 DEF Unsubscribe, Receive, ledger, history
  <2> QED
    BY <1>0, <2>1, SameVariants, SameTest, SharesStay
<1>6. ASSUME NEW h \in Hooks, SuppressBounced(h) PROVE ShareInv'
  <2>1. UNCHANGED <<kind, rows, campaign, frozen, work>>
    BY <1>6 DEF SuppressBounced
  <2> QED
    BY <1>0, <2>1, SameVariants, SameTest, SharesStay
<1>7. ASSUME NEW h \in Hooks, WriteReceipt(h) PROVE ShareInv'
  <2>1. /\ Mark(hook[h].contact, hook[h].event) /\ UNCHANGED <<kind, campaign, frozen, work>>
        /\ hook[h].contact \in Contacts /\ hook[h].event \in Receipts /\ rows[hook[h].contact] # None
    BY <1>0, <1>7 DEF WriteReceipt, history, TypedInv, ReceiptsFit
  <2>2. hook[h].event \in RowStatuses
    BY <2>1, CampaignAssumption DEF RowStatuses, Reached
  <2>3. VariantsStay
    BY <1>0, <2>1, <2>2, MarkedVariants
  <2> QED
    BY <1>0, <2>1, <2>3, SameTest, SharesStay
<1> QED
  BY <1>0, <1>1, <1>2, <1>3, <1>4, <1>5, <1>6, <1>7, DispatchShares, DecisionShares, AdminShares DEF Next

LEMMA InitShares == Init => ShareInv
<1> SUFFICES ASSUME Init PROVE ShareInv
  OBVIOUS
<1>1. \A w \in Workers \cup Admins : work[w].pc = "idle"
  BY DEF Init, IdleWork
<1>2. campaign.ab = kind.ab /\ \A c \in Contacts : rows[c] = None
  BY DEF Init
<1> QED
  BY <1>1, <1>2 DEF ShareInv, TestKept, Shared, Copying, Assigning

(* Once the audience has its rows, a variant's rows are those of the       *)
(* contacts the split gave it.                                             *)
LEMMA SharesHeld ==
  ASSUME TypedInv, Reach, Shared, frozen # None, kind.ab,
         \A w \in Workers : work[w].pc # "fill", NEW v \in Variants
  PROVE  {c \in Contacts : rows[c] # None /\ rows[c].variant = v}
           = {c \in frozen : SplitContact(Cardinality(frozen), Cardinality({o \in frozen : o <= c}),
                                          SplitPercents, kind.sample) = v}
<1> DEFINE given(c) == SplitContact(Cardinality(frozen), Cardinality({o \in frozen : o <= c}),
                                    SplitPercents, kind.sample)
<1>1. frozen \subseteq Contacts
  BY TypeParts DEF TypedInv, Rest
<1>2. \A c \in frozen : rows[c] # None
  BY DEF Reach, InHand, Workers
<1>v. kind.variants
  BY TypeParts, CampaignAssumption DEF TypedInv, Rest, Kind
<1>3. Allotted = {<<c, given(c)>> : c \in frozen}
  BY <1>v DEF Allotted, Assignments
<1> HIDE DEF given, Allotted
<1>4. ASSUME NEW c \in Contacts, rows[c] # None PROVE c \in frozen /\ rows[c].variant = given(c)
  <2>1. <<c, rows[c].variant>> \in Allotted
    BY <1>4 DEF Shared
  <2>2. PICK d \in frozen : <<c, rows[c].variant>> = <<d, given(d)>>
    BY <1>3, <2>1
  <2> QED
    BY <2>2
<1>5. {c \in Contacts : rows[c] # None /\ rows[c].variant = v} = {c \in frozen : given(c) = v}
  BY <1>1, <1>2, <1>4
<1> QED
  BY <1>5 DEF given

(* With one consumer of the campaign-dispatch queue, nobody rewriting the  *)
(* test and shares that do not all amount to nothing, the sample of a test *)
(* has the announced size and each variant its share of it, whatever is    *)
(* mailed, received, unsubscribed, paused or crashes in between.           *)
THEOREM SampleIsFair ==
  ASSUME OnePoller, "edit" \notin Ops, Total(SplitPercents) # 0
  PROVE  Spec => []FairSample
<1>1. Init => OnceInv /\ ReachInv /\ ShareInv
  BY OnceInit, ReachInit, InitShares
<1>2. OnceInv /\ ReachInv /\ ShareInv /\ [Next]_vars => (OnceInv /\ ReachInv /\ ShareInv)'
  BY StepOnce, StepReach, StepShares
<1>3. OnceInv /\ ReachInv /\ ShareInv => FairSample
  <2> SUFFICES ASSUME OnceInv, ReachInv, ShareInv, frozen # None, kind.ab, campaign.winner = None,
                      used.faults = 0, \A w \in Workers : work[w].pc # "fill"
               PROVE  LET n == SampleSize(Cardinality(frozen), kind.sample)
                          given == [v \in Variants |->
                                      Cardinality({c \in Contacts : rows[c] # None /\ rows[c].variant = v})]
                      IN /\ Total(given) = n
                         /\ \A v \in Variants :
                              /\ Total(SplitPercents) * given[v] < n * SplitPercents[v] + Total(SplitPercents)
                              /\ n * SplitPercents[v] < Total(SplitPercents) * (given[v] + 1)
    BY DEF FairSample
  <2>1. TypedInv /\ Reach /\ Shared
    BY DEF OnceInv, ReachInv, ShareInv, Sampling
  <2>2. frozen \subseteq Contacts /\ kind.sample \in 0 .. 100
    BY <2>1, TypeParts, CampaignAssumption DEF TypedInv, Rest, Kind
  <2>3. IsFiniteSet(frozen) /\ frozen \subseteq Nat /\ Cardinality(frozen) \in Nat
    BY <2>2, CampaignAssumption, FS_Subset, FS_CardinalityType
  <2>4. PICK n : n = SampleSize(Cardinality(frozen), kind.sample)
    OBVIOUS
  <2>5. n \in Nat
    BY <2>2, <2>3, <2>4 DEF SampleSize
  <2>6. PICK counts : counts = AllocateVariantCounts(n, SplitPercents)
    OBVIOUS
  <2>7. /\ counts \in [1 .. Len(SplitPercents) -> Nat] /\ Total(counts) = n
        /\ \A v \in 1 .. Len(SplitPercents) :
             /\ Total(SplitPercents) * counts[v] < n * SplitPercents[v] + Total(SplitPercents)
             /\ n * SplitPercents[v] < Total(SplitPercents) * (counts[v] + 1)
    BY <2>5, <2>6, AllocationIsFair, CampaignAssumption
  <2>8. PICK given : given = [v \in Variants |->
                       Cardinality({c \in Contacts : rows[c] # None /\ rows[c].variant = v})]
    OBVIOUS
  <2>9. ASSUME NEW v \in Variants PROVE given[v] = counts[v]
    <3>1. given[v] = Cardinality({c \in Contacts : rows[c] # None /\ rows[c].variant = v})
      BY <2>8
    <3>2. PICK S, percent : S = frozen /\ percent = kind.sample
      OBVIOUS
    <3>3. given[v] = Cardinality({c \in S :
            SplitContact(Cardinality(S), Cardinality({o \in S : o <= c}), SplitPercents, percent) = v})
      BY <2>1, <3>1, <3>2, SharesHeld
    <3>4. /\ IsFiniteSet(S) /\ S \subseteq Nat /\ percent \in 0 .. 100
          /\ SplitPercents \in Seq(Nat) /\ v \in 1 .. Len(SplitPercents)
      BY <2>2, <2>3, <3>2, CampaignAssumption DEF Variants
    <3>5. Cardinality({c \in S : SplitContact(Cardinality(S), Cardinality({o \in S : o <= c}),
                                             SplitPercents, percent) = v})
            = AllocateVariantCounts(SampleSize(Cardinality(S), percent), SplitPercents)[v]
      BY ONLY <3>4, Total(SplitPercents) # 0, SharesFilled, Zenon
    <3> QED
      BY <2>4, <2>6, <3>2, <3>3, <3>5
  <2>10. given = counts
    BY <2>7, <2>8, <2>9 DEF Variants
  <2> QED
    BY <2>4, <2>7, <2>8, <2>10 DEF Variants
<1> QED
  BY <1>1, <1>2, <1>3, PTL DEF Spec

=============================================================================
