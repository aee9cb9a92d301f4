---------------------------- MODULE LoyaltyProofs ---------------------------
(***************************************************************************)
(* For any number of accounts, items, pages and requests: no account goes  *)
(* into the negative, whatever comes to the endpoints through the outbox;  *)
(* a write is applied once; and what is queued keeps its order.            *)
(*                                                                         *)
(* First the endpoints: the balance a request has read is still the        *)
(* account's when it inserts its row, because whoever has summed holds the *)
(* account's lock and nobody else does.                                    *)
(***************************************************************************)
EXTENDS OfflineOutbox, FiniteSetTheorems, TLAPS

(* The lock excludes.                                                      *)
LockOK == \A c, d \in Calls, a \in Accounts : Holds(c, a) /\ Holds(d, a) => c = d

(* What was read under the lock is current and covers the new row.         *)
SumOK ==
  \A c \in Calls : post[c].pc = "summed" =>
    /\ post[c].balance = points[post[c].order.account]
    /\ post[c].balance + Signed(post[c].order) >= 0

LedgerInv == LedgerTypeOK /\ NoOverdraft /\ LockOK /\ SumOK

(* What a row adds is a number.                                            *)
LEMMA SignedInt == \A o \in Orders : Signed(o) \in Int /\ o.account \in Accounts
  BY LedgerAssumption DEF Signed, Abs, Order

LEMMA InitInv == LedgerInit => LedgerInv
<1> SUFFICES ASSUME LedgerInit PROVE LedgerInv
  OBVIOUS
<1>1. IdlePost \in Post /\ \A c \in Calls : post[c] = IdlePost
  BY DEF LedgerInit, IdlePost, Post
<1>2. \A c \in Calls : post[c].pc = "idle"
  BY <1>1 DEF IdlePost
<1>a. points \in [Accounts -> Openings \cup {0}] /\ Openings \subseteq Nat
  BY LedgerAssumption DEF LedgerInit
<1>b. \A n \in Openings \cup {0} : n \in Int /\ n >= 0
  BY <1>a
<1>3. points \in [Accounts -> Int] /\ \A a \in Accounts : points[a] >= 0
  BY <1>a, <1>b
<1>4. LedgerTypeOK
  BY <1>1, <1>2, <1>3 DEF LedgerInit, LedgerTypeOK
<1> QED
  BY <1>2, <1>3, <1>4 DEF LedgerInv, NoOverdraft, LockOK, SumOK, Holds

-----------------------------------------------------------------------------
(* A step that changes no sum and takes no lock keeps the invariant.       *)
LEMMA QuietStep ==
  ASSUME LedgerInv, NEW c \in Calls,
         post' \in [Calls -> Post], \A d \in Calls \ {c} : post'[d] = post[d],
         post'[c].pc \notin {"locked", "summed"},
         post'[c].pc # "idle" => post'[c].order \in Orders,
         points' = points, enrolled' \subseteq Accounts
  PROVE  LedgerInv'
<1>1. LedgerTypeOK'
  BY DEF LedgerInv, LedgerTypeOK
<1>2. LockOK'
  BY DEF LedgerInv, LockOK, Holds
<1>3. SumOK'
  BY DEF LedgerInv, SumOK
<1> QED
  BY <1>1, <1>2, <1>3 DEF LedgerInv, NoOverdraft

(* An answer is such a step.                                               *)
LEMMA AnswerStep ==
  ASSUME LedgerInv, NEW c \in Calls, NEW reply \in {201, 400, 403, 404, 409, 500},
         Answer(c, reply), post[c].pc # "idle", points' = points, enrolled' \subseteq Accounts
  PROVE  LedgerInv'
<1>1. post[c].order \in Orders /\ post \in [Calls -> Post]
  BY DEF LedgerInv, LedgerTypeOK
<1>2. post' = [post EXCEPT ![c] = [pc |-> "answered", order |-> post[c].order, balance |-> 0,
                                   status |-> reply]]
  BY DEF Answer
<1>3. post' \in [Calls -> Post]
  BY <1>1, <1>2 DEF Post
<1>4. /\ \A d \in Calls \ {c} : post'[d] = post[d]
      /\ post'[c].pc = "answered" /\ post'[c].order \in Orders
  BY <1>1, <1>2
<1> QED
  BY <1>3, <1>4, QuietStep

LEMMA StepInv ==
  ASSUME LedgerInv, [LedgerNext]_ledgerVars
  PROVE  LedgerInv'
<1>1. CASE UNCHANGED ledgerVars
  BY <1>1 DEF ledgerVars, LedgerInv, LedgerTypeOK, NoOverdraft, LockOK, SumOK, Holds
<1>2. ASSUME NEW c \in Calls, NEW o \in Orders, Enter(c, o)
      PROVE  LedgerInv'
  <2> DEFINE row == [pc |-> IF o.op = "enroll" THEN "enroll" ELSE "open", order |-> o,
                     balance |-> 0, status |-> 0]
  <2>1. row \in Post /\ row.pc \notin {"locked", "summed"} /\ row.order \in Orders
    BY DEF Post
  <2>2. post' = [post EXCEPT ![c] = row] /\ points' = points /\ enrolled' \subseteq Accounts
    BY <1>2 DEF Enter, LedgerInv, LedgerTypeOK
  <2> HIDE DEF row
  <2> QED
    BY <2>1, <2>2, QuietStep DEF LedgerInv, LedgerTypeOK
<1>3. ASSUME NEW c \in Calls, Enroll(c)
      PROVE  LedgerInv'
  <2>a. post[c].pc = "enroll" /\ points' = points /\ enrolled' = enrolled \cup {post[c].order.account}
    BY <1>3 DEF Enroll
  <2>b. post[c].order \in Orders
    BY <2>a DEF LedgerInv, LedgerTypeOK
  <2>1. post[c].pc # "idle" /\ points' = points /\ enrolled' \subseteq Accounts
    BY <2>a, <2>b, SignedInt DEF LedgerInv, LedgerTypeOK
  <2>2. PICK s \in {201, 409} : Answer(c, s)
    BY <1>3 DEF Enroll
  <2> QED
    BY AnswerStep, <2>1, <2>2
<1>4. ASSUME NEW c \in Calls, CheckOrder(c)
      PROVE  LedgerInv'
  <2>1. post[c].pc = "open" /\ points' = points /\ enrolled' \subseteq Accounts
    BY <1>4 DEF CheckOrder, LedgerInv, LedgerTypeOK
  <2>2. CASE Answer(c, 400) \/ Answer(c, 403)
    BY AnswerStep, <2>1, <2>2
  <2>3. CASE Goto(c, "lock")
    <3> DEFINE row == [post[c] EXCEPT !.pc = "lock"]
    <3>1. row \in Post /\ row.pc \notin {"locked", "summed"} /\ row.order \in Orders
      BY <2>1 DEF LedgerInv, LedgerTypeOK, Post
    <3>2. post' = [post EXCEPT ![c] = row]
      BY <2>3 DEF Goto, LedgerInv, LedgerTypeOK
    <3> HIDE DEF row
    <3> QED
      BY <2>1, <3>1, <3>2, QuietStep DEF LedgerInv, LedgerTypeOK
  <2> QED
    BY <1>4, <2>2, <2>3 DEF CheckOrder
<1>5. ASSUME NEW c \in Calls, LockAccount(c)
      PROVE  LedgerInv'
  <2>1. post[c].pc = "lock" /\ points' = points /\ enrolled' \subseteq Accounts
    BY <1>5 DEF LockAccount, LedgerInv, LedgerTypeOK
  <2>2. CASE Answer(c, 404)
    BY AnswerStep, <2>1, <2>2
  <2>3. CASE Goto(c, "locked")
    <3>1. post' \in [Calls -> Post] /\ (\A d \in Calls : d # c => post'[d] = post[d])
            /\ post'[c] = [post[c] EXCEPT !.pc = "locked"]
      BY <2>1, <2>3 DEF Goto, LedgerInv, LedgerTypeOK, Post
    <3>2. LedgerTypeOK'
      BY <2>1, <3>1 DEF LedgerInv, LedgerTypeOK, Post
    <3>3. \A d \in Calls : ~ Holds(d, post[c].order.account)
      BY <1>5 DEF LockAccount
    <3>4. \A d \in Calls, a \in Accounts :
            Holds(d, a)' => Holds(d, a) \/ (d = c /\ a = post[c].order.account)
      BY <2>1, <3>1 DEF Holds, LedgerInv, LedgerTypeOK, Post
    <3>5. LockOK'
      BY <3>3, <3>4 DEF LedgerInv, LockOK
    <3>6. SumOK'
      BY <2>1, <3>1 DEF LedgerInv, LedgerTypeOK, SumOK, Post
    <3> QED
      BY <2>1, <3>2, <3>5, <3>6 DEF LedgerInv, NoOverdraft
  <2> QED
    BY <1>5, <2>2, <2>3 DEF LockAccount
<1>6. ASSUME NEW c \in Calls, SumPoints(c)
      PROVE  LedgerInv'
  <2> DEFINE o == post[c].order
  <2>1. post[c].pc = "locked" /\ points' = points /\ enrolled' \subseteq Accounts
    BY <1>6 DEF SumPoints, LedgerInv, LedgerTypeOK
  <2>2. o \in Orders /\ Signed(o) \in Int /\ o.account \in Accounts
    BY <2>1, SignedInt DEF LedgerInv, LedgerTypeOK
  <2>3. CASE Answer(c, 400)
    BY AnswerStep, <2>1, <2>3
  <2>4. CASE /\ ~ (points[o.account] + Signed(o) < 0)
             /\ post' = [post EXCEPT ![c] = [pc |-> "summed", order |-> o,
                                              balance |-> points[o.account], status |-> 0]]
    <3>1. post' \in [Calls -> Post] /\ (\A d \in Calls : d # c => post'[d] = post[d])
            /\ post'[c] = [pc |-> "summed", order |-> o, balance |-> points[o.account],
                            status |-> 0]
      BY <2>2, <2>4 DEF LedgerInv, LedgerTypeOK, Post
    <3>2. LedgerTypeOK'
      BY <2>1, <2>2, <3>1 DEF LedgerInv, LedgerTypeOK, Post
    <3>3. \A d \in Calls, a \in Accounts : Holds(d, a)' => Holds(d, a)
      BY <2>1, <3>1 DEF Holds, LedgerInv, LedgerTypeOK, Post
    <3>4. LockOK'
      BY <3>3 DEF LedgerInv, LockOK
    <3>5. SumOK'
      BY <2>1, <2>2, <2>4, <3>1 DEF LedgerInv, LedgerTypeOK, SumOK, Post
    <3> QED
      BY <2>1, <3>2, <3>4, <3>5 DEF LedgerInv, NoOverdraft
  <2> QED
    BY <1>6, <2>3, <2>4 DEF SumPoints
<1>7. ASSUME NEW c \in Calls, InsertRow(c)
      PROVE  LedgerInv'
  <2> DEFINE o == post[c].order
  <2>1. post[c].pc = "summed" /\ enrolled' = enrolled /\ o \in Orders
    BY <1>7 DEF InsertRow, LedgerInv, LedgerTypeOK
  <2>2. Signed(o) \in Int /\ o.account \in Accounts
    BY <2>1, SignedInt
  <2>3. points' = [points EXCEPT ![o.account] = @ + Signed(o)]
    BY <1>7 DEF InsertRow
  <2>4. post' \in [Calls -> Post] /\ (\A d \in Calls : d # c => post'[d] = post[d])
          /\ post'[c] = [pc |-> "answered", order |-> o, balance |-> 0, status |-> 201]
    BY <1>7 DEF InsertRow, Answer, LedgerInv, LedgerTypeOK, Post
  <2>5. LedgerTypeOK'
    BY <2>1, <2>2, <2>3, <2>4 DEF LedgerInv, LedgerTypeOK, Post
  <2>6. NoOverdraft'
    BY <2>1, <2>2, <2>3 DEF LedgerInv, LedgerTypeOK, NoOverdraft, SumOK
  <2>7. LockOK'
    BY <2>1, <2>4 DEF LedgerInv, LedgerTypeOK, LockOK, Holds, Post
  (* Whoever else has summed holds another account's lock.                 *)
  <2>8. ASSUME NEW d \in Calls, post'[d].pc = "summed"
        PROVE  d # c /\ post[d].order.account # o.account /\ post[d].order.account \in Accounts
    <3>1. d # c
      BY <2>8, <2>4, <2>1 DEF LedgerInv, LedgerTypeOK, Post
    <3>2. post[d].pc = "summed" /\ post[d].order \in Orders
      BY <2>4, <2>8, <3>1 DEF LedgerInv, LedgerTypeOK
    <3>3. Holds(c, o.account)
      BY <2>1 DEF Holds
    <3>4. post[d].order.account = o.account => Holds(d, o.account)
      BY <3>2 DEF Holds
    <3> QED
      BY <2>2, <3>1, <3>2, <3>3, <3>4, SignedInt DEF LedgerInv, LockOK
  <2>9. SumOK'
    BY <2>3, <2>4, <2>8 DEF LedgerInv, LedgerTypeOK, SumOK
  <2> QED
    BY <2>5, <2>6, <2>7, <2>9 DEF LedgerInv
<1>8. ASSUME NEW c \in Calls, Abort(c)
      PROVE  LedgerInv'
  BY AnswerStep, <1>8 DEF Abort, LedgerInv, LedgerTypeOK
<1>9. ASSUME NEW c \in Calls, Leave(c)
       PROVE  LedgerInv'
  <2>1. IdlePost \in Post /\ IdlePost.pc = "idle"
    BY DEF IdlePost, Post
  <2>2. post' = [post EXCEPT ![c] = IdlePost] /\ points' = points /\ enrolled' \subseteq Accounts
    BY <1>9 DEF Leave, LedgerInv, LedgerTypeOK
  <2> QED
    BY <2>1, <2>2, QuietStep DEF LedgerInv, LedgerTypeOK
<1> QED
  BY <1>1, <1>2, <1>3, <1>4, <1>5, <1>6, <1>7, <1>8, <1>9 DEF LedgerNext, Handle

(* The endpoints alone: types and balances.                                *)
THEOREM LedgerSafe == LedgerSpec => [](LedgerTypeOK /\ NoOverdraft)
<1>1. LedgerInv => LedgerTypeOK /\ NoOverdraft
  BY DEF LedgerInv
<1> QED
  BY InitInv, StepInv, <1>1, PTL DEF LedgerSpec

-----------------------------------------------------------------------------
(* Whatever is on its way is an item of the plan.                          *)
Request == [pc : {"idle", "claim", "look", "enter", "run", "replied"},
            item : Items \cup {None}, keyed : BOOLEAN, status : Int,
            chore : {None, "record", "forget"}]
Entry == [item : Items, attempts : Nat]

OutboxTypes ==
  /\ wanted \in Plans
  /\ box \in [Items -> Nat \cup {None}]
  /\ page \in [Pages -> Seq(Entry)]
  /\ call \in [Calls -> Request]
  /\ \A c \in Calls : call[c].pc # "idle" => call[c].item \in Items

LEMMA InitTypes == Init => OutboxTypes
  BY OutboxAssumption DEF Init, OutboxTypes, Request, IdleCall, Entry

(* The requests: what a reply makes of one, and what sending makes of one. *)
LEMMA ReplyTypes ==
  ASSUME OutboxTypes, NEW c \in Calls, NEW status \in Int,
         NEW chore \in {None, "record", "forget"}, Replies(c, status, chore),
         call[c].pc # "idle"
  PROVE  /\ call' \in [Calls -> Request]
         /\ \A d \in Calls : call'[d].pc # "idle" => call'[d].item \in Items
  BY DEF OutboxTypes, Replies, Request

LEMMA SendTypes ==
  ASSUME OutboxTypes, NEW c \in Calls, NEW i \in Items, NEW keyed \in BOOLEAN, Send(c, i, keyed)
  PROVE  /\ call' \in [Calls -> Request]
         /\ \A d \in Calls : call'[d].pc # "idle" => call'[d].item \in Items
  BY DEF OutboxTypes, Send, Request

(* What a flush takes from the store is a sequence of entries.             *)
LEMMA SnapshotTypes ==
  ASSUME OutboxTypes, NEW q \in Snapshot
  PROVE  [n \in DOMAIN q |-> [item |-> q[n], attempts |-> box[q[n]]]] \in Seq(Entry)
<1>1. InBox \subseteq Items /\ \A i \in InBox : box[i] \in Nat
  BY DEF InBox, OutboxTypes
<1>2. Cardinality(InBox) \in Nat
  BY <1>1, OutboxAssumption, FS_Subset, FS_CardinalityType
<1>3. q \in [1 .. Cardinality(InBox) -> InBox]
  BY DEF Snapshot
<1>4. [n \in DOMAIN q |-> [item |-> q[n], attempts |-> box[q[n]]]]
        \in [1 .. Cardinality(InBox) -> Entry]
  BY <1>1, <1>3 DEF Entry
<1> QED
  BY <1>2, <1>4

(* A step of a request alone keeps the types.                              *)
LEMMA RequestStep ==
  ASSUME OutboxTypes, wanted' = wanted, box' = box, page' = page,
         call' \in [Calls -> Request],
         \A c \in Calls : call'[c].pc # "idle" => call'[c].item \in Items
  PROVE  OutboxTypes'
  BY DEF OutboxTypes

(* What the device does, and what a page does, is no step of the ledger.   *)
LEMMA UserStep ==
  ASSUME OutboxTypes,
         \/ Act \/ ConnectionChanges
         \/ \E i \in Items : FirstFetchThrows(i) \/ FirstFetchAnswered(i) \/ Discard(i) \/ Expire(i)
  PROVE  OutboxTypes' /\ UNCHANGED ledgerVars
<1>1. CASE Act
  <2>1. \A i \in Items : Queued(i) => box' \in [Items -> Nat \cup {None}]
    BY DEF Queued, OutboxTypes
  <2>2. CASE online
    <3>1. PICK c \in Calls : Send(c, made + 1, FALSE)
      BY <1>1, <2>2 DEF Act
    <3> QED
      BY <1>1, <2>2, <3>1, SendTypes DEF Act, OutboxTypes
  <2> QED
    BY <1>1, <2>1, <2>2 DEF Act, OutboxTypes
<1>2. CASE ConnectionChanges
  BY <1>2 DEF ConnectionChanges, OutboxTypes
<1>3. ASSUME NEW i \in Items, FirstFetchThrows(i)
      PROVE  OutboxTypes' /\ UNCHANGED ledgerVars
  BY <1>3 DEF FirstFetchThrows, Queued, OutboxTypes
<1>4. ASSUME NEW i \in Items, FirstFetchAnswered(i)
      PROVE  OutboxTypes' /\ UNCHANGED ledgerVars
  BY <1>4 DEF FirstFetchAnswered, OutboxTypes
<1>5. ASSUME NEW i \in Items, Discard(i)
      PROVE  OutboxTypes' /\ UNCHANGED ledgerVars
  BY <1>5 DEF Discard, OutboxTypes
<1>6. ASSUME NEW i \in Items, Expire(i)
      PROVE  OutboxTypes' /\ UNCHANGED ledgerVars
  BY <1>6 DEF Expire, device, OutboxTypes
<1> QED
  BY <1>1, <1>2, <1>3, <1>4, <1>5, <1>6

LEMMA PageStepTypes ==
  ASSUME OutboxTypes, NEW p \in Pages, PageStep(p) \/ ReplayThrows(p)
  PROVE  OutboxTypes' /\ UNCHANGED ledgerVars
<1>a. /\ page[p] \in Seq(Entry)
      /\ page[p] # <<>> => Tail(page[p]) \in Seq(Entry) /\ Head(page[p]) \in Entry
  BY DEF OutboxTypes
<1>1. CASE BeginFlush(p)
  BY <1>1, SnapshotTypes DEF BeginFlush, OutboxTypes
<1>2. CASE SkipParked(p)
  BY <1>a, <1>2 DEF SkipParked, OutboxTypes
<1>3. CASE Replay(p)
  <2>1. PICK c \in Calls : Send(c, Head(page[p]).item, Relayed(Head(page[p]).item))
    BY <1>3 DEF Replay
  <2>2. Head(page[p]).item \in Items
    BY <1>a, <1>3 DEF Replay, Entry
  <2>3. Relayed(Head(page[p]).item) \in BOOLEAN
    BY DEF Relayed
  <2> QED
    BY <1>3, <2>1, <2>2, <2>3, SendTypes, RequestStep DEF Replay
<1>4. CASE TakeAnswer(p)
  <2>1. page[p] # <<>> /\ Tail(page[p]) \in Seq(Entry) /\ <<>> \in Seq(Entry)
    BY <1>a, <1>4 DEF TakeAnswer
  <2>2. page' \in [Pages -> Seq(Entry)]
    BY <2>1, <1>4 DEF TakeAnswer, OutboxTypes
  <2>3. /\ Head(page[p]).item \in Items /\ MaxAttempts \in Nat
        /\ Head(page[p]).attempts + 1 \in Nat
    BY <1>a, <2>1, OutboxAssumption DEF Entry
  <2>4. \/ box' = box
        \/ \E i \in Items, n \in Nat \cup {None} : box' = [box EXCEPT ![i] = n]
    <3>1. /\ box' = [box EXCEPT ![Head(page[p]).item] = MaxAttempts]
            => \E i \in Items, n \in Nat \cup {None} : box' = [box EXCEPT ![i] = n]
          /\ box' = [box EXCEPT ![Head(page[p]).item] = Head(page[p]).attempts + 1]
            => \E i \in Items, n \in Nat \cup {None} : box' = [box EXCEPT ![i] = n]
          /\ box' = [box EXCEPT ![Head(page[p]).item] = None]
            => \E i \in Items, n \in Nat \cup {None} : box' = [box EXCEPT ![i] = n]
      BY <2>3
    <3> QED
      BY <3>1, <1>4 DEF TakeAnswer, Put
  <2>5. box' \in [Items -> Nat \cup {None}]
    BY <2>4 DEF OutboxTypes
  <2> QED
    BY <1>4, <2>2, <2>5 DEF TakeAnswer, OutboxTypes
<1>5. CASE ReplayThrows(p)
  BY <1>5 DEF ReplayThrows, OutboxTypes
<1> QED
  BY <1>1, <1>2, <1>3, <1>4, <1>5 DEF PageStep

(* A request reaches the ledger by Enter and by the steps of its handler.  *)
LEMMA ServerStep ==
  ASSUME OutboxTypes, LedgerTypeOK, NEW c \in Calls,
         CallStep(c) \/ EndCall(c) \/ HandlerFails(c) \/ ApiDies(c) \/ KeyNotSettled(c)
  PROVE  OutboxTypes' /\ [LedgerNext]_ledgerVars
<1>1. CASE Claim(c)
  BY <1>1 DEF Claim, device, OutboxTypes, Request
<1>2. CASE Look(c)
  <2>1. call[c].pc = "look" /\ UNCHANGED <<wanted, box, page, ledgerVars>>
    BY <1>2 DEF Look, device
  <2>2. CASE Replies(c, 409, None) \/ Replies(c, 201, None)
    BY <2>1, <2>2, ReplyTypes, RequestStep
  <2>3. CASE call' = [call EXCEPT ![c].pc = "enter"]
    BY <2>1, <2>3 DEF OutboxTypes, Request
  <2> QED
    BY <1>2, <2>1, <2>2, <2>3 DEF Look
<1>3. CASE Create(c) \/ RefuseCreate(c)
  BY <1>3, ReplyTypes DEF Create, RefuseCreate, device, OutboxTypes
<1>4. CASE EnterLedger(c)
  <2>1. wanted[call[c].item] \in Orders
    BY <1>4, OutboxAssumption DEF EnterLedger, OutboxTypes
  <2>2. LedgerNext
    BY <1>4, <2>1 DEF EnterLedger, LedgerNext
  <2>3. OutboxTypes'
    BY <1>4 DEF EnterLedger, device, OutboxTypes, Request
  <2> QED
    BY <2>2, <2>3
<1>5. CASE LedgerStep(c)
  BY <1>5 DEF LedgerStep, LedgerNext, device, OutboxTypes
<1>6. CASE LedgerAnswers(c)
  <2>1. call[c].pc = "run" /\ Leave(c) /\ UNCHANGED <<wanted, box, page>>
    BY <1>6 DEF LedgerAnswers, device
  <2>2. call' \in [Calls -> Request]
          /\ \A d \in Calls : call'[d].pc # "idle" => call'[d].item \in Items
    BY <1>6, <2>1, ReplyTypes DEF LedgerAnswers, LedgerTypeOK, Post
  <2> QED
    BY <2>1, <2>2, RequestStep DEF LedgerNext
<1>7. CASE SettleKey(c)
  BY <1>7 DEF SettleKey, device, OutboxTypes, Request
<1>8. CASE EndCall(c)
  BY <1>8 DEF EndCall, IdleCall, device, OutboxTypes, Request
<1>9. CASE HandlerFails(c)
  <2>1. UNCHANGED <<wanted, box, page>>
    BY <1>9 DEF HandlerFails, device
  <2>2. CASE Abort(c) /\ UNCHANGED <<call, applied>>
    BY <2>1, <2>2 DEF LedgerNext, OutboxTypes
  <2>3. CASE call[c].pc = "enter" /\ Replies(c, 500, "forget") /\ UNCHANGED ledgerVars
    BY <2>1, <2>3, ReplyTypes, RequestStep
  <2> QED
    BY <1>9, <2>2, <2>3 DEF HandlerFails
<1>10. CASE ApiDies(c)
  <2>1. UNCHANGED <<wanted, box, page>> /\ call[c].pc # "idle"
    BY <1>10 DEF ApiDies, device
  <2>2. Leave(c) \/ UNCHANGED ledgerVars
    BY <1>10 DEF ApiDies
  <2>3. Replies(c, 502, None) \/ Replies(c, 401, None)
    BY <1>10 DEF ApiDies
  <2> QED
    BY <2>1, <2>2, <2>3, ReplyTypes, RequestStep DEF LedgerNext
<1>11. CASE KeyNotSettled(c)
  BY <1>11 DEF KeyNotSettled, device, OutboxTypes, Request
<1> QED
  BY <1>1, <1>2, <1>3, <1>4, <1>5, <1>6, <1>7, <1>8, <1>9, <1>10, <1>11 DEF CallStep

LEMMA OutboxStep ==
  ASSUME OutboxTypes, LedgerInv, [Next]_vars
  PROVE  OutboxTypes' /\ LedgerInv' /\ [LedgerNext]_ledgerVars
<1>1. ASSUME UNCHANGED vars
      PROVE  OutboxTypes' /\ UNCHANGED ledgerVars
  BY <1>1 DEF vars, device, OutboxTypes
<1>2. ASSUME Next
      PROVE  OutboxTypes' /\ [LedgerNext]_ledgerVars
  <2>1. CASE \/ Act \/ ConnectionChanges
            \/ \E i \in Items : FirstFetchThrows(i) \/ FirstFetchAnswered(i) \/ Discard(i) \/ Expire(i)
    BY <2>1, UserStep
  <2>2. CASE \E p \in Pages : PageStep(p) \/ ReplayThrows(p)
    BY <2>2, PageStepTypes
  <2>3. CASE \E c \in Calls : \/ CallStep(c) \/ EndCall(c) \/ HandlerFails(c) \/ ApiDies(c)
                             \/ KeyNotSettled(c)
    BY <2>3, ServerStep DEF LedgerInv
  <2> QED
    BY <1>2, <2>1, <2>2, <2>3 DEF Next
<1>3. OutboxTypes' /\ [LedgerNext]_ledgerVars
  BY <1>1, <1>2
<1> QED
  BY <1>3, StepInv

(* Whatever is replayed through the outbox does to the accounts what the   *)
(* endpoints allow, step by step: the composition implements the ledger.   *)
THEOREM OutboxKeepsLedger == Spec => LedgerSpec
<1>1. Init => LedgerInit /\ LedgerInv /\ OutboxTypes
  BY InitInv, InitTypes DEF Init
<1> QED
  BY <1>1, OutboxStep, PTL DEF Spec, LedgerSpec

(* So no account goes into the negative through it either.                 *)
THEOREM NoOverdraftEver == Spec => []NoOverdraft
  BY OutboxKeepsLedger, LedgerSafe, PTL

-----------------------------------------------------------------------------
(* A write is applied once.  Its key belongs to one request at a time:     *)
(* from the claim until that request, answered, has recorded or forgotten  *)
(* it, and whoever forgets it has done nothing.  A write never queued has  *)
(* its first request alone.                                                *)

Of(c, i) == call[c].pc # "idle" /\ call[c].item = i
Owns(c, i) == Of(c, i) /\ (call[c].pc = "enter" \/ call[c].chore # None)
Undone(c, i) == Of(c, i) /\ (call[c].pc = "enter" \/ call[c].chore = "forget")
InPage(i) == \E p \in Pages : \E n \in DOMAIN page[p] : page[p][n].item = i

ItemOK(i) ==
  /\ applied[i] <= 1
  /\ \A c, d \in Calls : Owns(c, i) /\ Owns(d, i) => c = d
  /\ \A c \in Calls : Undone(c, i) => applied[i] = 0
  /\ \A c \in Calls : Of(c, i) => (call[c].keyed <=> place[i] # 0)
  /\ place[i] = 0 => box[i] = None /\ ~ InPage(i)
  /\ made < i => place[i] = 0 /\ applied[i] = 0 /\ \A c \in Calls : ~ Of(c, i)
  /\ place[i] # 0 /\ key[i] = None => applied[i] = 0 /\ \A c \in Calls : ~ Owns(c, i)

CallOK(c) ==
  /\ call[c].pc \in {"claim", "look"} => call[c].keyed
  /\ call[c].pc # "replied" => call[c].chore = None
  /\ post[c].pc # "idle" => call[c].pc = "run"
  /\ call[c].pc = "run" => ~ Relayed(call[c].item)

Keys == {None, "in flight", "recorded"}
Counters ==
  /\ made \in Nat
  /\ applied \in [Items -> Nat] /\ place \in [Items -> Nat]
  /\ key \in [Items -> Keys]

Loose == keyless \cup unclaimed
Once ==
  /\ Counters /\ \A c \in Calls : CallOK(c)
  /\ \A i \in Items : Relayed(i) /\ i \notin Loose => ItemOK(i)

OnceInv == faults \in Nat /\ (faults = 0 => Once)

LEMMA InitOnce == Init => OnceInv
<1> SUFFICES ASSUME Init PROVE OnceInv
  OBVIOUS
<1>1. \A c \in Calls : call[c] = IdleCall /\ post[c] = IdlePost
  BY DEF Init, LedgerInit
<1>2. \A c \in Calls : call[c].pc = "idle" /\ call[c].chore = None /\ post[c].pc = "idle"
  BY <1>1 DEF IdleCall, IdlePost
<1>3. Counters
  BY DEF Init, Counters, Keys
<1>4. \A c \in Calls : CallOK(c)
  BY <1>2 DEF CallOK
<1>5. ASSUME NEW i \in Items PROVE ItemOK(i)
  <2>1. \A c \in Calls : ~ Of(c, i) /\ ~ Owns(c, i) /\ ~ Undone(c, i)
    BY <1>2 DEF Of, Owns, Undone
  <2>2. ~ InPage(i)
    BY DEF Init, InPage
  <2>3. applied[i] = 0 /\ place[i] = 0 /\ box[i] = None
    BY DEF Init
  <2> QED
    BY <2>1, <2>2, <2>3 DEF ItemOK
<1>6. faults = 0
  BY DEF Init
<1> QED
  BY <1>3, <1>4, <1>5, <1>6 DEF OnceInv, Once

(* A step that begins no request for an item, changes none it has and      *)
(* leaves its key alone keeps it in order.                                 *)
LEMMA ItemStays ==
  ASSUME Counters, Counters', NEW i \in Items, ItemOK(i),
         applied'[i] = applied[i], key'[i] = key[i], place'[i] = place[i], made <= made',
         box'[i] = box[i] \/ box'[i] = None \/ place[i] # 0,
         InPage(i)' => InPage(i) \/ place[i] # 0,
         \A c \in Calls : call'[c] = call[c] \/ ~ Of(c, i)'
  PROVE  ItemOK(i)'
<1>1. \A c \in Calls : Of(c, i)' => Of(c, i) /\ call'[c] = call[c]
  BY DEF Of
<1>2. \A c \in Calls : (Owns(c, i)' => Owns(c, i)) /\ (Undone(c, i)' => Undone(c, i))
  BY <1>1 DEF Owns, Undone
<1>3. made' < i => made < i
  <2>1. i \in Nat /\ made \in Nat /\ made' \in Nat
    BY OutboxAssumption DEF Counters
  <2> QED
    BY <2>1
<1>4. place'[i] = 0 => box'[i] = None /\ ~ InPage(i)'
  BY DEF ItemOK
<1>5. /\ \A c \in Calls : Undone(c, i)' => applied'[i] = 0
      /\ applied'[i] <= 1
      /\ \A c, d \in Calls : Owns(c, i)' /\ Owns(d, i)' => c = d
  BY <1>2 DEF ItemOK
<1>6. \A c \in Calls : Of(c, i)' => (call'[c].keyed <=> place'[i] # 0)
  BY <1>1 DEF ItemOK
<1>7. made' < i => place'[i] = 0 /\ applied'[i] = 0 /\ \A c \in Calls : ~ Of(c, i)'
  BY <1>1, <1>3 DEF ItemOK
<1>8. place'[i] # 0 /\ key'[i] = None => applied'[i] = 0 /\ \A c \in Calls : ~ Owns(c, i)'
  BY <1>2 DEF ItemOK
<1> QED
  BY <1>4, <1>5, <1>6, <1>7, <1>8 DEF ItemOK

(* A step of the device and the pages that sends nothing.                  *)
LEMMA DeviceOnce ==
  ASSUME Once, Counters', UNCHANGED <<wanted, call, post, applied, key, made>>,
         Loose \subseteq Loose',
         \A i \in Items : i \notin Loose' =>
           /\ place'[i] = place[i]
           /\ box'[i] = box[i] \/ box'[i] = None \/ place[i] # 0
           /\ InPage(i)' => InPage(i) \/ place[i] # 0 \/ box[i] # None
  PROVE  Once'
<1>1. \A c \in Calls : CallOK(c)'
  BY DEF Once, CallOK, Relayed
<1>2. ASSUME NEW i \in Items, Relayed(i)', i \notin Loose'
      PROVE  ItemOK(i)'
  <2>1. ItemOK(i)
    BY <1>2 DEF Once, Relayed
  <2>2. InPage(i)' => InPage(i) \/ place[i] # 0
    BY <1>2, <2>1 DEF ItemOK
  <2>3. made \in Nat /\ Counters
    BY DEF Once, Counters
  <2>4. made <= made'
    BY <2>3
  <2> QED
    BY <1>2, <2>1, <2>2, <2>3, <2>4, ItemStays
<1> QED
  BY <1>1, <1>2 DEF Once

(* A new request.                                                          *)
LEMMA SendOnce ==
  ASSUME OutboxTypes, Once, wanted' = wanted, post' = post,
         NEW c \in Calls, NEW k \in Items, NEW keyed \in BOOLEAN, Free(c), Send(c, k, keyed)
  PROVE  /\ \A d \in Calls : CallOK(d)'
         /\ \A d \in Calls : d # c => call'[d] = call[d]
         /\ call'[c] = [pc |-> IF keyed THEN "claim" ELSE "enter", item |-> k,
                        keyed |-> keyed, status |-> 0, chore |-> None]
         /\ \A i \in Items : ~ Of(c, i)
         /\ \A i \in Items, d \in Calls : i # k => call'[d] = call[d] \/ ~ Of(d, i)'
<1>1. /\ \A d \in Calls : d # c => call'[d] = call[d]
      /\ call'[c] = [pc |-> IF keyed THEN "claim" ELSE "enter", item |-> k,
                     keyed |-> keyed, status |-> 0, chore |-> None]
  BY DEF OutboxTypes, Send
<1>2. call[c].pc = "idle"
  BY DEF Free
<1>3. post[c].pc = "idle"
  BY <1>2 DEF Once, CallOK
<1>4. \A d \in Calls : CallOK(d)'
  BY <1>1, <1>3 DEF Once, CallOK, Relayed
<1>5. \A i \in Items, d \in Calls : i # k => call'[d] = call[d] \/ ~ Of(d, i)'
  BY <1>1 DEF Of
<1> QED
  BY <1>1, <1>2, <1>4, <1>5 DEF Of

LEMMA ActOnce ==
  ASSUME OutboxTypes, Once, Act
  PROVE  Once'
<1> DEFINE k == made + 1
<1>1. /\ k \in Items /\ made' = k /\ made \in Nat /\ made < k /\ made <= made'
      /\ UNCHANGED <<wanted, page, key, applied, Loose, post>>
  <2>1. made \in Nat
    BY DEF Once, Counters
  <2>2. k \in Items /\ made' = k
    BY DEF Act
  <2>3. UNCHANGED <<wanted, page, key, applied, Loose, post>>
    BY DEF Act, Loose, history, ledgerVars
  <2> QED
    BY <2>1, <2>2, <2>3
<1>2. \A i \in Items : InPage(i)' <=> InPage(i)
  BY <1>1 DEF InPage
<1>3. CASE online
  <2>1. PICK c \in Calls : Free(c) /\ Send(c, k, FALSE)
    BY <1>3 DEF Act
  <2>2. UNCHANGED <<box, place>>
    BY <1>3 DEF Act
  <2>3. Counters /\ Counters'
    BY <1>1, <2>2 DEF Once, Counters
  <2>4. /\ \A d \in Calls : CallOK(d)'
        /\ \A d \in Calls : d # c => call'[d] = call[d]
        /\ call'[c] = [pc |-> "enter", item |-> k, keyed |-> FALSE, status |-> 0, chore |-> None]
        /\ \A i \in Items, d \in Calls : i # k => call'[d] = call[d] \/ ~ Of(d, i)'
    BY <1>1, <2>1, SendOnce
  <2>5. ASSUME NEW i \in Items, Relayed(i)', i \notin Loose'
        PROVE  ItemOK(i)'
    <3>1. ItemOK(i)
      BY <1>1, <2>5 DEF Once, Relayed
    <3>2. CASE i # k
      BY <1>1, <1>2, <2>2, <2>3, <2>4, <3>1, <3>2, ItemStays
    <3>3. CASE i = k
      <4>1. place[i] = 0 /\ applied[i] = 0 /\ (\A d \in Calls : ~ Of(d, i))
              /\ box[i] = None /\ ~ InPage(i)
        BY <1>1, <3>1, <3>3 DEF ItemOK
      <4>2. \A d \in Calls : Of(d, i)' => d = c
        BY <2>4, <4>1 DEF Of
      <4>3. \A d \in Calls : (Owns(d, i)' \/ Undone(d, i)') => d = c
        BY <4>2 DEF Owns, Undone
      <4>4. ~ call'[c].keyed
        <5>1. call'[c].keyed = FALSE
          BY <2>4
        <5> QED
          BY <5>1
      <4>5. ~ (made' < i)
        BY <1>1, <3>3
      <4>6. place'[i] = 0 /\ applied'[i] = 0 /\ box'[i] = None /\ ~ InPage(i)'
        BY <1>1, <1>2, <2>2, <4>1
      <4>7. \A d \in Calls : Of(d, i)' => (call'[d].keyed <=> place'[i] # 0)
        BY <4>2, <4>4, <4>6
      <4> QED
        BY <4>3, <4>5, <4>6, <4>7 DEF ItemOK
    <3> QED
      BY <3>2, <3>3
  <2> QED
    BY <2>3, <2>4, <2>5 DEF Once
<1>4. CASE ~ online
  <2>1. Queued(k) /\ call' = call
    BY <1>4 DEF Act
  <2>2. Cardinality({j \in Items : place[j] > 0}) \in Nat
    BY OutboxAssumption, FS_Subset, FS_CardinalityType
  <2>3. Counters /\ Counters' /\ place'[k] > 0
    BY <1>1, <2>1, <2>2 DEF Once, Counters, Queued
  <2>4. \A i \in Items : i # k => place'[i] = place[i] /\ box'[i] = box[i]
    BY <2>1 DEF Queued, Once, Counters, OutboxTypes
  <2>5. \A d \in Calls : CallOK(d)'
    BY <1>1, <2>1 DEF Once, CallOK, Relayed
  <2>6. ASSUME NEW i \in Items, Relayed(i)', i \notin Loose'
        PROVE  ItemOK(i)'
    <3>1. ItemOK(i)
      BY <1>1, <2>6 DEF Once, Relayed
    <3>2. CASE i # k
      BY <1>1, <1>2, <2>1, <2>3, <2>4, <3>1, <3>2, ItemStays
    <3>3. CASE i = k
      <4>1. applied'[i] = 0 /\ \A d \in Calls : ~ Of(d, i)' /\ ~ Owns(d, i)' /\ ~ Undone(d, i)'
        BY <1>1, <2>1, <3>1, <3>3 DEF ItemOK, Of, Owns, Undone
      <4>2. ~ (made' < i) /\ place'[i] # 0
        BY <1>1, <2>3, <3>3
      <4> QED
        BY <4>1, <4>2 DEF ItemOK
    <3> QED
      BY <3>2, <3>3
  <2> QED
    BY <2>3, <2>5, <2>6 DEF Once
<1> QED
  BY <1>3, <1>4

(* What a page sends next is in its hands.                                 *)
LEMMA HeadInPage ==
  ASSUME OutboxTypes, NEW p \in Pages, page[p] # <<>>
  PROVE  /\ Head(page[p]).item \in Items /\ InPage(Head(page[p]).item)
         /\ Head(page[p]) \in Entry /\ Head(page[p]) = page[p][1] /\ 1 \in DOMAIN page[p]
<1>1. page[p] \in Seq(Entry) /\ page[p] # <<>>
  BY DEF OutboxTypes
<1>2. Len(page[p]) \in Nat /\ Len(page[p]) > 0 /\ Head(page[p]) = page[p][1]
  BY <1>1
<1>3. 1 \in DOMAIN page[p] /\ page[p][1] \in Entry
  BY <1>1, <1>2
<1> QED
  BY <1>2, <1>3 DEF Entry, InPage

LEMMA ReplayOnce ==
  ASSUME OutboxTypes, Once, NEW p \in Pages, Replay(p)
  PROVE  Once'
<1> DEFINE k == Head(page[p]).item
<1>1. page[p] # <<>>
  BY DEF Replay
<1>3. k \in Items /\ InPage(k)
  BY <1>1, HeadInPage
<1>4. PICK c \in Calls : Free(c) /\ Send(c, k, Relayed(k))
  BY DEF Replay
<1>5. UNCHANGED <<wanted, page, box, place, key, applied, Loose, made, post>>
  BY DEF Replay, Loose, history, ledgerVars
<1>6. Relayed(k) \in BOOLEAN
  BY DEF Relayed
<1>7. /\ \A d \in Calls : CallOK(d)'
      /\ \A d \in Calls : d # c => call'[d] = call[d]
      /\ call'[c] = [pc |-> IF Relayed(k) THEN "claim" ELSE "enter", item |-> k,
                     keyed |-> Relayed(k), status |-> 0, chore |-> None]
      /\ \A i \in Items, d \in Calls : i # k => call'[d] = call[d] \/ ~ Of(d, i)'
  BY <1>3, <1>4, <1>5, <1>6, SendOnce
<1>8. Counters /\ Counters' /\ made <= made'
  BY <1>5 DEF Once, Counters
<1>9. \A i \in Items : InPage(i)' <=> InPage(i)
  BY <1>5 DEF InPage
<1>10. ASSUME NEW i \in Items, Relayed(i)', i \notin Loose'
       PROVE  ItemOK(i)'
  <2>1. ItemOK(i)
    BY <1>5, <1>10 DEF Once, Relayed
  <2>2. CASE i # k
    BY <1>5, <1>7, <1>8, <1>9, <2>1, <2>2, ItemStays
  <2>3. CASE i = k
    <3>1. place[i] # 0 /\ ~ (made' < i)
      BY <1>3, <1>5, <2>1, <2>3 DEF ItemOK
    <3>2. Relayed(k)
      BY <1>5, <1>10, <2>3 DEF Relayed
    <3>3. call'[c].pc = "claim" /\ call'[c].keyed = TRUE /\ call'[c].chore = None
      <4>1. call'[c].pc = "claim" /\ call'[c].chore = None
        BY <1>7, <3>2
      <4>2. call'[c].keyed = Relayed(k)
        BY <1>7
      <4>3. call'[c].keyed = TRUE
        BY <1>6, <3>2, <4>2
      <4> QED
        BY <4>1, <4>3
    <3>4. \A d \in Calls : (Owns(d, i)' => Owns(d, i)) /\ (Undone(d, i)' => Undone(d, i))
      BY <1>7, <3>3, DistinctAssumption DEF Of, Owns, Undone
    <3>5. \A d \in Calls : Of(d, i)' => d = c \/ (Of(d, i) /\ call'[d] = call[d])
      BY <1>7 DEF Of
    <3>6. place'[i] # 0 /\ applied'[i] = applied[i] /\ key'[i] = key[i]
      BY <1>5, <3>1
    <3>7. \A d \in Calls : Of(d, i)' => (call'[d].keyed <=> place'[i] # 0)
      <4>1. ASSUME NEW d \in Calls, Of(d, i), call'[d] = call[d]
            PROVE  call'[d].keyed <=> place'[i] # 0
        BY <2>1, <3>1, <3>6, <4>1 DEF ItemOK
      <4> QED
        BY <3>3, <3>5, <3>6, <4>1
    <3>8. key'[i] = None => applied'[i] = 0 /\ \A d \in Calls : ~ Owns(d, i)'
      BY <2>1, <3>1, <3>4, <3>6 DEF ItemOK
    <3>9. /\ applied'[i] <= 1
          /\ \A d, e \in Calls : Owns(d, i)' /\ Owns(e, i)' => d = e
          /\ \A d \in Calls : Undone(d, i)' => applied'[i] = 0
      BY <2>1, <3>4, <3>6 DEF ItemOK
    <3> QED
      BY <3>1, <3>6, <3>7, <3>8, <3>9 DEF ItemOK
  <2> QED
    BY <2>2, <2>3
<1> QED
  BY <1>7, <1>8, <1>10 DEF Once

(* The pages and the device, when they send nothing.                       *)
LEMMA TailInPage ==
  ASSUME OutboxTypes, NEW p \in Pages, page[p] # <<>>, NEW i \in Items,
         page' = [page EXCEPT ![p] = Tail(@)] \/ page' = [page EXCEPT ![p] = <<>>], InPage(i)'
  PROVE  InPage(i)
<1>1. PICK r \in Pages : \E n \in DOMAIN page'[r] : page'[r][n].item = i
  BY DEF InPage
<1>2. CASE r # p
  BY <1>1, <1>2 DEF InPage, OutboxTypes
<1>3. CASE r = p
  <2>1. page[p] \in Seq(Entry)
    BY DEF OutboxTypes
  <2>2. PICK n \in DOMAIN page'[p] : page'[p][n].item = i
    BY <1>1, <1>3
  <2>a. page'[p] = Tail(page[p])
    BY <2>2 DEF OutboxTypes
  <2>3. n \in 1 .. Len(page[p]) - 1 /\ n + 1 \in DOMAIN page[p]
    BY <2>1, <2>2, <2>a
  <2>4. page[p][n + 1].item = i
    BY <2>1, <2>2, <2>a, <2>3
  <2> QED
    BY <2>3, <2>4 DEF InPage
<1> QED
  BY <1>2, <1>3

LEMMA UserOnce ==
  ASSUME OutboxTypes, Once,
         \/ ConnectionChanges
         \/ \E i \in Items : FirstFetchThrows(i) \/ FirstFetchAnswered(i) \/ Discard(i)
  PROVE  Once'
<1>1. ASSUME UNCHANGED <<wanted, call, post, applied, key, made, page, place, Loose>>,
             \A i \in Items : box'[i] = box[i] \/ box'[i] = None
      PROVE  Once'
  <2>1. Counters'
    BY <1>1 DEF Once, Counters
  <2>2. \A i \in Items : InPage(i)' <=> InPage(i)
    BY <1>1 DEF InPage
  <2> QED
    BY <1>1, <2>1, <2>2, DeviceOnce
<1>2. CASE ConnectionChanges
  BY <1>1, <1>2 DEF ConnectionChanges, Loose, history, ledgerVars
<1>3. ASSUME NEW i \in Items, FirstFetchAnswered(i)
      PROVE  Once'
  BY <1>1, <1>3 DEF FirstFetchAnswered, Loose, history, ledgerVars
<1>4. ASSUME NEW i \in Items, Discard(i)
      PROVE  Once'
  BY <1>1, <1>4 DEF Discard, Loose, history, ledgerVars, OutboxTypes
<1>5. ASSUME NEW i \in Items, FirstFetchThrows(i)
      PROVE  Once'
  <2>1. UNCHANGED <<wanted, call, post, applied, key, made, page>>
    BY <1>5 DEF FirstFetchThrows, ledgerVars
  <2>2. CASE online
    BY <1>1, <1>5, <2>1, <2>2 DEF FirstFetchThrows, Loose
  <2>3. CASE ~ online
    <3>1. Queued(i) /\ Loose' = Loose \cup {i}
      BY <1>5, <2>3 DEF FirstFetchThrows, Loose
    <3>2. Cardinality({j \in Items : place[j] > 0}) \in Nat
      BY OutboxAssumption, FS_Subset, FS_CardinalityType
    <3>3. Counters'
      BY <2>1, <3>1, <3>2 DEF Once, Counters, Queued
    <3>4. \A j \in Items : j \notin Loose' => place'[j] = place[j] /\ box'[j] = box[j]
      BY <3>1 DEF Queued, Once, Counters, OutboxTypes
    <3>5. \A j \in Items : InPage(j)' <=> InPage(j)
      BY <2>1 DEF InPage
    <3> QED
      BY <2>1, <3>1, <3>3, <3>4, <3>5, DeviceOnce
  <2> QED
    BY <2>2, <2>3
<1> QED
  BY <1>2, <1>3, <1>4, <1>5

LEMMA PageOnce ==
  ASSUME OutboxTypes, Once, NEW p \in Pages, PageStep(p) \/ ReplayThrows(p)
  PROVE  Once'
<1>1. CASE Replay(p)
  BY <1>1, ReplayOnce
<1>2. ASSUME UNCHANGED <<wanted, call, post, applied, key, made, place, Loose>>,
             \A i \in Items : /\ box'[i] = box[i] \/ box'[i] = None \/ InPage(i)
                              /\ InPage(i)' => InPage(i) \/ box[i] # None
      PROVE  Once'
  <2>1. Counters'
    BY <1>2 DEF Once, Counters
  (* Only what is queued is in a page's hands, unless its key is lost.     *)
  <2>2. \A i \in Items : Relayed(i) /\ i \notin Loose => (InPage(i) => place[i] # 0)
    BY DEF Once, ItemOK
  <2>3. \A i \in Items : Relayed(i) /\ i \notin Loose => ItemOK(i)
    BY DEF Once
  <2>4. ASSUME NEW i \in Items, Relayed(i)', i \notin Loose'
        PROVE  ItemOK(i)'
    <3>1. ItemOK(i) /\ (InPage(i) => place[i] # 0) /\ (box[i] # None => place[i] # 0)
      BY <1>2, <2>2, <2>3, <2>4 DEF Relayed, ItemOK
    <3>2. Counters /\ made <= made'
      <4>1. made \in Nat /\ made' = made
        BY <1>2 DEF Once, Counters
      <4> QED
        BY <4>1 DEF Once
    <3> QED
      BY <1>2, <2>1, <3>1, <3>2, ItemStays
  <2>5. \A c \in Calls : CallOK(c)'
    BY <1>2 DEF Once, CallOK, Relayed
  <2> QED
    BY <2>1, <2>4, <2>5 DEF Once
<1>3. CASE BeginFlush(p)
  <2>1. PICK q \in Snapshot :
          page' = [page EXCEPT ![p] = [n \in DOMAIN q |-> [item |-> q[n], attempts |-> box[q[n]]]]]
    BY <1>3 DEF BeginFlush
  <2>2. \A n \in DOMAIN q : q[n] \in InBox
    BY DEF Snapshot
  <2>3. ASSUME NEW i \in Items, InPage(i)'
        PROVE  InPage(i) \/ box[i] # None
    <3>1. PICK r \in Pages : \E n \in DOMAIN page'[r] : page'[r][n].item = i
      BY <2>3 DEF InPage
    <3>2. CASE r = p
      <4>1. page'[p] = [n \in DOMAIN q |-> [item |-> q[n], attempts |-> box[q[n]]]]
        BY <2>1 DEF OutboxTypes
      <4>2. PICK n \in DOMAIN q : q[n] = i
        BY <3>1, <3>2, <4>1
      <4> QED
        BY <2>2, <4>2 DEF InBox
    <3>3. CASE r # p
      BY <2>1, <3>1, <3>3 DEF InPage, OutboxTypes
    <3> QED
      BY <3>2, <3>3
  <2>4. UNCHANGED <<wanted, call, post, applied, key, made, place, Loose, box>>
    BY <1>3 DEF BeginFlush, Loose, history, ledgerVars
  <2> QED
    BY <1>2, <2>3, <2>4
<1>4. CASE SkipParked(p)
  <2>1. UNCHANGED <<wanted, call, post, applied, key, made, place, Loose, box>>
    BY <1>4 DEF SkipParked, Loose, history, ledgerVars
  <2>2. page[p] # <<>> /\ page' = [page EXCEPT ![p] = Tail(@)]
    BY <1>4 DEF SkipParked
  <2> QED
    BY <1>2, <2>1, <2>2, TailInPage
<1>5. CASE ReplayThrows(p)
  <2>1. UNCHANGED <<wanted, call, post, applied, key, made, place, Loose, box>>
    BY <1>5 DEF ReplayThrows, Loose, history, ledgerVars
  <2>2. page' = [page EXCEPT ![p] = <<>>]
    BY <1>5 DEF ReplayThrows
  <2>3. \A i \in Items : InPage(i)' => InPage(i)
    BY <2>2 DEF InPage, OutboxTypes
  <2> QED
    BY <1>2, <2>1, <2>3
<1>6. CASE TakeAnswer(p)
  <2> DEFINE k == Head(page[p]).item
  <2>1. UNCHANGED <<wanted, call, post, applied, key, made, place, Loose>>
    BY <1>6 DEF TakeAnswer, Loose, ledgerVars
  <2>2. page[p] # <<>> /\ \/ page' = [page EXCEPT ![p] = <<>>]
                          \/ page' = [page EXCEPT ![p] = Tail(@)]
    BY <1>6 DEF TakeAnswer
  <2>3. k \in Items /\ InPage(k)
    BY <2>2, HeadInPage
  <2>4. \A i \in Items : i # k => box'[i] = box[i]
    BY <1>6 DEF TakeAnswer, Put, OutboxTypes
  <2> QED
    BY <1>2, <2>1, <2>2, <2>3, <2>4, TailInPage
<1> QED
  BY <1>1, <1>3, <1>4, <1>5, <1>6 DEF PageStep

(* A step of one request: the items of the others stay as they are.        *)
LEMMA CallOnce ==
  ASSUME OutboxTypes, Once, device' = device, Loose' = Loose, Counters', NEW c \in Calls,
         CallOK(c)',
         \A d \in Calls : d # c => call'[d] = call[d] /\ post'[d].pc = post[d].pc,
         call'[c].pc = "idle" \/ call'[c].item = call[c].item,
         \A i \in Items : i # call[c].item => applied'[i] = applied[i] /\ key'[i] = key[i],
         \A i \in Items : i = call[c].item /\ Relayed(i) /\ ItemOK(i) => ItemOK(i)'
  PROVE  Once'
<1>1. UNCHANGED <<wanted, made, box, place, page>>
  BY DEF device
<1>2. \A d \in Calls : CallOK(d)'
  BY <1>1 DEF Once, CallOK, Relayed
<1>3. ASSUME NEW i \in Items, Relayed(i)', i \notin Loose'
      PROVE  ItemOK(i)'
  <2>1. ItemOK(i) /\ Relayed(i) /\ Counters
    BY <1>1, <1>3 DEF Once, Relayed
  <2>2. CASE i = call[c].item
    BY <2>1, <2>2
  <2>3. CASE i # call[c].item
    <3>1. \A d \in Calls : call'[d] = call[d] \/ ~ Of(d, i)'
      BY <2>3 DEF Of
    <3>2. InPage(i)' <=> InPage(i)
      BY <1>1 DEF InPage
    <3>3. made <= made'
      BY <1>1, <2>1 DEF Counters
    <3> QED
      BY <1>1, <2>1, <2>3, <3>1, <3>2, <3>3, ItemStays
  <2> QED
    BY <2>2, <2>3
<1> QED
  BY <1>2, <1>3 DEF Once

(* What is left of an item once a request of it has stepped: it has its    *)
(* key alone, if it has it at all.                                         *)
LEMMA ItemSteps ==
  ASSUME OutboxTypes, device' = device, NEW c \in Calls, NEW i \in Items, ItemOK(i), Of(c, i),
         \A d \in Calls : d # c => call'[d] = call[d],
         call'[c].keyed = call[c].keyed,
         Owns(c, i)' => \A d \in Calls : d # c => ~ Owns(d, i),
         Undone(c, i)' => applied'[i] = 0,
         applied'[i] <= 1,
         applied'[i] = applied[i] \/ \A d \in Calls : d # c => ~ Owns(d, i),
         place[i] # 0 /\ key'[i] = None => applied'[i] = 0 /\ \A d \in Calls : ~ Owns(d, i)'
  PROVE  ItemOK(i)'
<1>1. UNCHANGED <<wanted, made, box, place, page>>
  BY DEF device
<1>2. place'[i] = 0 => box'[i] = None /\ ~ InPage(i)'
  BY <1>1 DEF ItemOK, InPage
<1>3. ~ (made' < i)
  BY <1>1 DEF ItemOK
<1>4. \A d \in Calls : Of(d, i)' => (call'[d].keyed <=> place'[i] # 0)
  <2>1. call[c].keyed <=> place[i] # 0
    BY DEF ItemOK
  <2>2. ASSUME NEW d \in Calls, d # c, Of(d, i)'
        PROVE  call'[d].keyed <=> place'[i] # 0
    BY <1>1, <2>2 DEF ItemOK, Of
  <2> QED
    BY <1>1, <2>1, <2>2
<1>5. \A d \in Calls : d # c => (Owns(d, i)' <=> Owns(d, i)) /\ (Undone(d, i)' <=> Undone(d, i))
  BY DEF Of, Owns, Undone
<1>6. \A d, e \in Calls : Owns(d, i)' /\ Owns(e, i)' => d = e
  BY <1>5 DEF ItemOK
<1>7. \A d \in Calls : Undone(d, i)' => applied'[i] = 0
  <2>1. \A d \in Calls : Undone(d, i) => Owns(d, i)
    BY DistinctAssumption DEF Owns, Undone
  <2> QED
    BY <1>5, <2>1 DEF ItemOK
<1> QED
  BY <1>1, <1>2, <1>3, <1>4, <1>6, <1>7 DEF ItemOK

LEMMA ClaimOnce ==
  ASSUME OutboxTypes, Once, NEW c \in Calls, Claim(c)
  PROVE  Once'
<1> DEFINE k == call[c].item
<1>1. /\ call[c].pc = "claim" /\ UNCHANGED <<device, applied, Loose, post>>
      /\ key' = [key EXCEPT ![k] = IF @ = None THEN "in flight" ELSE @]
      /\ call' = [call EXCEPT ![c].pc = IF key[k] = None THEN "enter" ELSE "look"]
  BY DEF Claim, Loose, history, ledgerVars
<1>2. k \in Items /\ Of(c, k) /\ call[c].keyed /\ call[c].chore = None /\ post[c].pc = "idle"
  BY <1>1 DEF OutboxTypes, Of, Once, CallOK
<1>3. /\ \A d \in Calls : d # c => call'[d] = call[d]
      /\ call'[c].pc = IF key[k] = None THEN "enter" ELSE "look"
      /\ call'[c].item = k /\ call'[c].keyed = call[c].keyed /\ call'[c].chore = None
  BY <1>1, <1>2 DEF OutboxTypes, Request
<1>4. /\ key'[k] = IF key[k] = None THEN "in flight" ELSE key[k]
      /\ \A i \in Items : i # k => key'[i] = key[i]
      /\ key' \in [Items -> Keys]
  BY <1>1, <1>2 DEF Once, Counters, Keys
<1>5. Counters'
  BY <1>1, <1>4 DEF Once, Counters, device
<1>6. CallOK(c)'
  <2>1. call'[c].pc \in {"enter", "look"} /\ post'[c].pc = "idle" /\ call'[c].chore = None
    BY <1>1, <1>2, <1>3
  <2>2. call'[c].keyed
    BY <1>2, <1>3
  <2> QED
    BY <2>1, <2>2 DEF CallOK
<1>7. key'[k] # None
  BY <1>4, DistinctAssumption
<1>8. ASSUME Relayed(k), ItemOK(k)
      PROVE  ItemOK(k)'
  <2>1. place[k] # 0
    BY <1>2, <1>8 DEF ItemOK
  <2>2. Owns(c, k)' \/ Undone(c, k)' =>
          applied'[k] = 0 /\ \A d \in Calls : d # c => ~ Owns(d, k)
    <3> SUFFICES ASSUME call'[c].pc = "enter"
                 PROVE  applied'[k] = 0 /\ \A d \in Calls : d # c => ~ Owns(d, k)
      BY <1>3, DistinctAssumption DEF Owns, Undone
    <3>1. key[k] = None
      BY <1>3
    <3> QED
      BY <1>1, <1>8, <2>1, <3>1 DEF ItemOK
  <2>3. applied'[k] <= 1 /\ applied'[k] = applied[k]
    BY <1>1, <1>8 DEF ItemOK
  <2> QED
    BY <1>1, <1>2, <1>3, <1>7, <1>8, <2>2, <2>3, ItemSteps
<1>9. /\ device' = device /\ Loose' = Loose
      /\ \A d \in Calls : d # c => call'[d] = call[d] /\ post'[d].pc = post[d].pc
      /\ call'[c].item = call[c].item
      /\ \A i \in Items : i # call[c].item => applied'[i] = applied[i] /\ key'[i] = key[i]
  BY <1>1, <1>3, <1>4
<1> QED
  BY <1>5, <1>6, <1>8, <1>9, CallOnce

LEMMA LookOnce ==
  ASSUME OutboxTypes, Once, NEW c \in Calls, Look(c)
  PROVE  Once'
<1> DEFINE k == call[c].item
<1>1. call[c].pc = "look" /\ UNCHANGED <<device, applied, keyless, post, key>>
  BY DEF Look, ledgerVars
<1>2. k \in Items /\ Of(c, k) /\ call[c].keyed /\ call[c].chore = None /\ post[c].pc = "idle"
  BY <1>1 DEF OutboxTypes, Of, Once, CallOK
<1>3. Counters'
  BY <1>1 DEF Once, Counters, device
(* A key that is there stays: the GET finds it.                            *)
<1>4. CASE (Replies(c, 409, None) \/ Replies(c, 201, None)) /\ unclaimed' = unclaimed
            /\ key[k] # None
  <2>1. /\ \A d \in Calls : d # c => call'[d] = call[d]
        /\ call'[c].pc = "replied" /\ call'[c].item = k /\ call'[c].keyed = call[c].keyed
        /\ call'[c].chore = IF call[c].keyed THEN None ELSE None
    BY <1>4 DEF OutboxTypes, Replies
  <2>2. call'[c].chore = None
    BY <2>1
  <2>3. CallOK(c)'
    BY <1>1, <1>2, <2>1, <2>2 DEF CallOK
  <2>4. ASSUME Relayed(k), ItemOK(k)
        PROVE  ItemOK(k)'
    <3>1. ~ Owns(c, k)' /\ ~ Undone(c, k)'
      BY <2>1, <2>2, DistinctAssumption DEF Owns, Undone
    <3>2. applied'[k] <= 1 /\ applied'[k] = applied[k] /\ key'[k] # None
      BY <1>1, <1>4, <2>4 DEF ItemOK
    <3> QED
      BY <1>1, <1>2, <2>1, <2>4, <3>1, <3>2, ItemSteps
  <2>5. Loose' = Loose
    BY <1>1, <1>4 DEF Loose
  <2> QED
    BY <1>1, <1>2, <1>3, <2>1, <2>3, <2>4, <2>5, CallOnce
(* One that is gone leaves the item to itself.                             *)
<1>5. CASE call' = [call EXCEPT ![c].pc = "enter"] /\ unclaimed' = unclaimed \cup {k}
  <2>1. /\ \A d \in Calls : d # c => call'[d] = call[d]
        /\ call'[c].pc = "enter" /\ call'[c].item = k /\ call'[c].chore = None
    BY <1>2, <1>5 DEF OutboxTypes, Request
  <2>2. UNCHANGED <<wanted, made, box, place, page>> /\ k \in Loose' /\ Loose \subseteq Loose'
    BY <1>1, <1>5 DEF device, Loose
  <2>3. \A d \in Calls : CallOK(d)'
    BY <1>1, <1>2, <2>1, <2>2 DEF Once, CallOK, Relayed
  <2>4. ASSUME NEW i \in Items, Relayed(i)', i \notin Loose'
        PROVE  ItemOK(i)'
    <3>1. ItemOK(i) /\ i # k
      BY <2>2, <2>4 DEF Once, Relayed
    <3>2. \A d \in Calls : call'[d] = call[d] \/ ~ Of(d, i)'
      BY <2>1, <3>1 DEF Of
    <3>3. (InPage(i)' <=> InPage(i)) /\ Counters /\ made <= made'
      BY <2>2 DEF InPage, Once, Counters
    <3> QED
      BY <1>1, <1>3, <2>2, <3>1, <3>2, <3>3, ItemStays
  <2> QED
    BY <1>3, <2>3, <2>4 DEF Once
<1>6. key[k] \in Keys
  BY <1>2 DEF Once, Counters
<1> QED
  BY <1>4, <1>5, <1>6, DistinctAssumption DEF Look, Keys

LEMMA CreateOnce ==
  ASSUME OutboxTypes, Once, NEW c \in Calls, Create(c)
  PROVE  Once'
<1> DEFINE k == call[c].item
<1>1. /\ call[c].pc = "enter" /\ UNCHANGED <<device, Loose, post, key>>
      /\ applied' = [applied EXCEPT ![k] = @ + 1]
  BY DEF Create, Effect, Loose, history, ledgerVars
<1>2. k \in Items /\ Of(c, k) /\ Owns(c, k) /\ Undone(c, k) /\ post[c].pc = "idle"
  BY <1>1 DEF OutboxTypes, Of, Owns, Undone, Once, CallOK
<1>3. /\ \A d \in Calls : d # c => call'[d] = call[d]
      /\ call'[c].pc = "replied" /\ call'[c].item = k /\ call'[c].keyed = call[c].keyed
      /\ call'[c].chore \in {"record", None}
  BY <1>1, <1>2 DEF Create, OutboxTypes, Request, Replies
<1>4. /\ applied' \in [Items -> Nat] /\ applied'[k] = applied[k] + 1 /\ applied[k] \in Nat
      /\ \A i \in Items : i # k => applied'[i] = applied[i]
  BY <1>1, <1>2 DEF Once, Counters
<1>5. Counters'
  BY <1>1, <1>4 DEF Once, Counters, device
<1>6. CallOK(c)'
  BY <1>1, <1>2, <1>3 DEF CallOK
<1>7. ASSUME Relayed(k), ItemOK(k)
      PROVE  ItemOK(k)'
  <2>1. applied[k] = 0 /\ (place[k] # 0 => key'[k] # None)
    BY <1>1, <1>2, <1>7 DEF ItemOK
  <2>2. \A d \in Calls : d # c => ~ Owns(d, k)
    BY <1>2, <1>7 DEF ItemOK
  <2>3. applied'[k] <= 1
    BY <1>4, <2>1
  <2>4. ~ Undone(c, k)'
    BY <1>3, DistinctAssumption DEF Undone
  <2> QED
    BY <1>1, <1>2, <1>3, <1>7, <2>1, <2>2, <2>3, <2>4, ItemSteps
<1> QED
  BY <1>1, <1>2, <1>3, <1>4, <1>5, <1>6, <1>7, CallOnce

LEMMA RefuseOnce ==
  ASSUME OutboxTypes, Once, NEW c \in Calls, RefuseCreate(c)
  PROVE  Once'
<1> DEFINE k == call[c].item
<1>1. call[c].pc = "enter" /\ UNCHANGED <<device, Loose, post, key, applied>>
  BY DEF RefuseCreate, Loose, history, ledgerVars
<1>2. k \in Items /\ Of(c, k) /\ Owns(c, k) /\ Undone(c, k) /\ post[c].pc = "idle"
  BY <1>1 DEF OutboxTypes, Of, Owns, Undone, Once, CallOK
<1>3. /\ \A d \in Calls : d # c => call'[d] = call[d]
      /\ call'[c].pc = "replied" /\ call'[c].item = k /\ call'[c].keyed = call[c].keyed
  BY <1>1, <1>2 DEF RefuseCreate, OutboxTypes, Request, Replies
<1>4. Counters'
  BY <1>1 DEF Once, Counters, device
<1>5. CallOK(c)'
  BY <1>1, <1>2, <1>3 DEF CallOK
<1>6. ASSUME Relayed(k), ItemOK(k)
      PROVE  ItemOK(k)'
  <2>1. applied'[k] = 0 /\ applied'[k] = applied[k] /\ (place[k] # 0 => key'[k] # None)
    BY <1>1, <1>2, <1>6 DEF ItemOK
  <2>2. \A d \in Calls : d # c => ~ Owns(d, k)
    BY <1>2, <1>6 DEF ItemOK
  <2> QED
    BY <1>1, <1>2, <1>3, <1>6, <2>1, <2>2, ItemSteps
<1> QED
  BY <1>1, <1>2, <1>3, <1>4, <1>5, <1>6, CallOnce

LEMMA SettleOnce ==
  ASSUME OutboxTypes, Once, NEW c \in Calls, SettleKey(c)
  PROVE  Once'
<1> DEFINE k == call[c].item
<1>1. /\ call[c].chore # None /\ UNCHANGED <<device, Loose, post, applied>>
      /\ key' = [key EXCEPT ![k] = IF call[c].chore = "record" THEN "recorded" ELSE None]
      /\ call' = [call EXCEPT ![c].chore = None]
  BY DEF SettleKey, Loose, history, ledgerVars
<1>2. call[c].pc = "replied" /\ k \in Items /\ Of(c, k) /\ post[c].pc = "idle"
  BY <1>1 DEF OutboxTypes, Of, Once, CallOK
<1>3. /\ \A d \in Calls : d # c => call'[d] = call[d]
      /\ call'[c].pc = "replied" /\ call'[c].item = k /\ call'[c].keyed = call[c].keyed
      /\ call'[c].chore = None /\ call[c].chore \in {"record", "forget"}
  BY <1>1, <1>2 DEF OutboxTypes, Request
<1>4. /\ key'[k] = IF call[c].chore = "record" THEN "recorded" ELSE None
      /\ \A i \in Items : i # k => key'[i] = key[i]
      /\ key' \in [Items -> Keys]
  BY <1>1, <1>2 DEF Once, Counters, Keys
<1>5. Counters'
  BY <1>1, <1>4 DEF Once, Counters, device
<1>6. CallOK(c)'
  BY <1>1, <1>2, <1>3 DEF CallOK
<1>7. ASSUME Relayed(k), ItemOK(k)
      PROVE  ItemOK(k)'
  <2>1. Owns(c, k) /\ ~ Owns(c, k)' /\ ~ Undone(c, k)'
    BY <1>1, <1>2, <1>3, DistinctAssumption DEF Owns, Undone
  <2>2. applied'[k] <= 1 /\ applied'[k] = applied[k]
    BY <1>1, <1>7 DEF ItemOK
  <2>3. key'[k] = None => applied'[k] = 0 /\ \A d \in Calls : ~ Owns(d, k)'
    <3>1. key'[k] = None => call[c].chore = "forget"
      BY <1>3, <1>4, DistinctAssumption
    <3>2. call[c].chore = "forget" => applied[k] = 0
      BY <1>2, <1>7 DEF ItemOK, Undone
    <3>3. ASSUME NEW d \in Calls, d # c PROVE ~ Owns(d, k)'
      BY <1>3, <1>7, <2>1, <3>3 DEF ItemOK, Of, Owns
    <3> QED
      BY <1>1, <2>1, <3>1, <3>2, <3>3
  <2> QED
    BY <1>1, <1>2, <1>3, <1>7, <2>1, <2>2, <2>3, ItemSteps
<1> QED
  BY <1>1, <1>2, <1>3, <1>4, <1>5, <1>6, <1>7, CallOnce

(* The ledger's handlers serve other items than those whose key is relayed. *)
LEMMA LedgerOnce ==
  ASSUME OutboxTypes, LedgerTypeOK, Once, NEW c \in Calls,
         EnterLedger(c) \/ LedgerStep(c) \/ LedgerAnswers(c)
  PROVE  Once'
<1> DEFINE k == call[c].item
<1>1. UNCHANGED <<device, Loose, key>>
  BY DEF EnterLedger, LedgerStep, LedgerAnswers, Loose, history
<1>2. CASE EnterLedger(c)
  <2>1. call[c].pc = "enter" /\ ~ Relayed(k) /\ k \in Items /\ applied' = applied
    BY <1>2 DEF EnterLedger, Enter, Relayed, OutboxTypes
  <2>2. /\ \A d \in Calls : d # c => call'[d] = call[d] /\ post'[d].pc = post[d].pc
        /\ call'[c].pc = "run" /\ call'[c].item = k /\ call'[c].chore = call[c].chore
    BY <1>2, <2>1 DEF EnterLedger, Enter, OutboxTypes, Request, LedgerTypeOK
  <2>3. Counters'
    BY <1>1, <2>1 DEF Once, Counters, device
  <2>4. wanted' = wanted
    BY <1>1 DEF device
  <2>5. CallOK(c)'
    BY <2>1, <2>2, <2>4 DEF Once, CallOK, Relayed
  <2> QED
    BY <1>1, <2>1, <2>2, <2>3, <2>5, CallOnce
<1>3. CASE LedgerStep(c)
  <2>1. post[c].pc # "idle" /\ \A d \in Calls : d # c => post'[d].pc = post[d].pc
    BY <1>3 DEF LedgerStep, Handle, Enroll, CheckOrder, LockAccount, SumPoints, InsertRow,
                Answer, Goto, LedgerTypeOK
  <2>2. call[c].pc = "run" /\ call' = call /\ ~ Relayed(k) /\ k \in Items
    BY <1>3, <2>1 DEF LedgerStep, Once, CallOK, OutboxTypes
  <2>3. applied' = applied \/ applied' = [applied EXCEPT ![k] = @ + 1]
    BY <1>3 DEF LedgerStep, Effect
  <2>4. applied' \in [Items -> Nat] /\ \A i \in Items : i # k => applied'[i] = applied[i]
    BY <2>2, <2>3 DEF Once, Counters
  <2>5. Counters'
    BY <1>1, <2>4 DEF Once, Counters, device
  <2>6. wanted' = wanted
    BY <1>1 DEF device
  <2>7. CallOK(c)'
    BY <2>2, <2>6 DEF Once, CallOK, Relayed
  <2> QED
    BY <1>1, <2>1, <2>2, <2>4, <2>5, <2>7, CallOnce
<1>4. CASE LedgerAnswers(c)
  <2>1. /\ call[c].pc = "run" /\ Leave(c) /\ applied' = applied
        /\ \E status \in Int, chore \in {None, "record", "forget"} : Replies(c, status, chore)
    BY <1>4 DEF LedgerAnswers, LedgerTypeOK, Post
  <2>2. ~ Relayed(k) /\ k \in Items
    BY <2>1 DEF Once, CallOK, OutboxTypes
  <2>3. /\ \A d \in Calls : d # c => post'[d].pc = post[d].pc
        /\ post'[c].pc = "idle"
    BY <2>1 DEF Leave, IdlePost, LedgerTypeOK
  <2>4. /\ \A d \in Calls : d # c => call'[d] = call[d]
        /\ call'[c].pc = "replied" /\ call'[c].item = k
    BY <2>1 DEF Replies, OutboxTypes
  <2>5. Counters'
    BY <1>1, <2>1 DEF Once, Counters, device
  <2>6. CallOK(c)'
    BY <2>3, <2>4 DEF CallOK
  <2> QED
    BY <1>1, <2>1, <2>2, <2>3, <2>4, <2>5, <2>6, CallOnce
<1> QED
  BY <1>2, <1>3, <1>4

LEMMA EndOnce ==
  ASSUME OutboxTypes, Once, NEW c \in Calls, EndCall(c)
  PROVE  Once'
<1> DEFINE k == call[c].item
<1>1. /\ UNCHANGED <<device, Loose, post, applied, key>>
      /\ call' = [call EXCEPT ![c] = IdleCall] /\ call[c].pc # "run"
  BY DEF EndCall, Underway, Loose, history, ledgerVars
<1>2. /\ \A d \in Calls : d # c => call'[d] = call[d]
      /\ call'[c].pc = "idle" /\ call'[c].chore = None /\ post[c].pc = "idle"
  BY <1>1 DEF OutboxTypes, IdleCall, Once, CallOK
<1>3. Counters'
  BY <1>1 DEF Once, Counters, device
<1>4. CallOK(c)'
  BY <1>1, <1>2 DEF CallOK
<1>5. ASSUME NEW i \in Items, ItemOK(i)
      PROVE  ItemOK(i)'
  <2>1. \A d \in Calls : call'[d] = call[d] \/ ~ Of(d, i)'
    BY <1>2 DEF Of
  <2>2. /\ InPage(i)' <=> InPage(i)
        /\ UNCHANGED <<made, box, place>>
    BY <1>1 DEF InPage, device
  <2>3. Counters /\ made <= made'
    BY <2>2 DEF Once, Counters
  <2> QED
    BY <1>1, <1>3, <1>5, <2>1, <2>2, <2>3, ItemStays
<1> QED
  BY <1>1, <1>2, <1>3, <1>4, <1>5, CallOnce

LEMMA OnceStep ==
  ASSUME OutboxTypes, LedgerTypeOK, OnceInv, [Next]_vars
  PROVE  OnceInv'
<1>1. faults \in Nat
  BY DEF OnceInv
<1>2. CASE Fails
  <2>1. faults' \in Nat /\ faults' # 0
    BY <1>1, <1>2 DEF Fails
  <2> QED
    BY <2>1 DEF OnceInv
<1>3. ASSUME Once, faults' = faults, Next, ~ Fails
      PROVE  Once'
  <2>1. CASE Act
    BY <1>3, <2>1, ActOnce
  <2>2. CASE \/ ConnectionChanges
             \/ \E i \in Items : FirstFetchThrows(i) \/ FirstFetchAnswered(i) \/ Discard(i)
    BY <1>3, <2>2, UserOnce
  <2>3. ASSUME NEW p \in Pages, PageStep(p) \/ ReplayThrows(p)
        PROVE  Once'
    BY <1>3, <2>3, PageOnce
  <2>4. ASSUME NEW c \in Calls, CallStep(c)
        PROVE  Once'
    BY <1>3, <2>4, ClaimOnce, LookOnce, CreateOnce, RefuseOnce, LedgerOnce, SettleOnce DEF CallStep
  <2>5. ASSUME NEW c \in Calls, EndCall(c)
        PROVE  Once'
    BY <1>3, <2>5, EndOnce
  <2> QED
    BY <1>3, <2>1, <2>2, <2>3, <2>4, <2>5
       DEF Next, Expire, HandlerFails, ApiDies, KeyNotSettled
<1>4. ASSUME Next, ~ Fails
      PROVE  faults' = faults
  BY <1>4 DEF Next, Act, ConnectionChanges, FirstFetchThrows, FirstFetchAnswered, Discard, Expire,
       PageStep, BeginFlush, SkipParked, Replay, TakeAnswer, ReplayThrows, CallStep, Claim, Look,
       Create, RefuseCreate, Snag, EnterLedger, LedgerStep, LedgerAnswers, SettleKey, EndCall,
       HandlerFails, ApiDies, KeyNotSettled
<1>5. CASE UNCHANGED vars
  BY <1>5 DEF vars, device, Loose, history, ledgerVars, OnceInv, Once, Counters, CallOK, ItemOK, Of,
       Owns, Undone, Loose, InPage, Relayed
<1> QED
  BY <1>1, <1>2, <1>3, <1>4, <1>5 DEF OnceInv

(* A mutation whose route relays the key is applied at most once however   *)
(* often it is replayed and from however many pages, unless its first      *)
(* request went out without a key and failed, or a replay was run although *)
(* it found the key gone (outbox.ts:141-205,                               *)
(* idempotency.interceptor.ts:67-132).                                     *)
THEOREM WritesAppliedOnce == Spec => []AppliedOnce
<1>1. Init => OutboxTypes /\ LedgerInv /\ OnceInv
  BY InitInv, InitTypes, InitOnce DEF Init
<1>2. OutboxTypes /\ LedgerInv /\ OnceInv /\ [Next]_vars => (OutboxTypes /\ LedgerInv /\ OnceInv)'
  BY OutboxStep, OnceStep DEF LedgerInv
<1>3. OnceInv => AppliedOnce
  <2> SUFFICES ASSUME OnceInv, faults = 0, NEW i \in Items, applied[i] > 1
               PROVE  ~ Relayed(i) \/ i \in keyless \/ i \in unclaimed
    BY DEF AppliedOnce
  <2>1. ASSUME ItemOK(i)
        PROVE  FALSE
    <3>1. applied[i] \in Nat /\ applied[i] <= 1
      BY <2>1 DEF OnceInv, Once, Counters, ItemOK
    <3> QED
      BY <3>1
  <2> QED
    BY <2>1 DEF OnceInv, Once, Loose
<1> QED
  BY <1>1, <1>2, <1>3, PTL DEF Spec

-----------------------------------------------------------------------------
(* What is queued keeps its order, whatever fails.  A page sends an entry  *)
(* once each entry queued before it is done with or before it in the same  *)
(* flush, and takes an entry off only when that entry is done with.        *)

Placed == {j \in Items : place[j] > 0}
Done(i) == applied[i] > 0 \/ i \in parked
Before(i, j) == place[i] > 0 /\ place[i] < place[j]
Waited(j) == \A i \in Items : Before(i, j) => Done(i)

(* What is not queued is nowhere, and what is queued has a place of its    *)
(* own among the rest.                                                     *)
Fresh(i) ==
  /\ place[i] = 0 => box[i] = None /\ ~ InPage(i)
  /\ made < i => place[i] = 0 /\ applied[i] = 0 /\ waits[i] = None /\ \A c \in Calls : ~ Of(c, i)
  /\ waits[i] # None => place[i] = 0
  /\ place[i] <= Cardinality(Placed)

Kept(i) ==
  /\ place[i] > 0 => box[i] # None \/ Done(i)
  /\ box[i] # None => (box[i] >= MaxAttempts => i \in parked)
  /\ key[i] = "recorded" => applied[i] > 0
  /\ i \notin keyless /\ applied[i] > 0 => Waited(i)

(* A request that was answered well has taken effect.                      *)
Answered(c) ==
  /\ post[c].pc # "idle" => call[c].pc = "run"
  /\ call[c].pc = "replied" /\ call[c].status < 300 => applied[call[c].item] > 0
  /\ call[c].chore = "record" => applied[call[c].item] > 0
  /\ post[c].pc = "answered" => post[c].status # 0
  /\ post[c].pc = "idle" => post[c].status = 0
  /\ post[c].status = 201 => applied[call[c].item] > 0
  /\ call[c].pc = "idle" => call[c].chore = None

Asked(c) ==
  /\ Answered(c)
  /\ call[c].pc # "idle" /\ call[c].item \notin keyless => Waited(call[c].item)

InTurn(p, n) ==
  /\ page[p][n].attempts >= MaxAttempts => page[p][n].item \in parked
  /\ \A i \in Items : Before(i, page[p][n].item) =>
       Done(i) \/ \E m \in 1 .. n - 1 : page[p][m].item = i

Sending(p) ==
  /\ \A n \in DOMAIN page[p] : InTurn(p, n)
  /\ waits[p] # None =>
       page[p] # <<>> /\ call[waits[p]].pc # "idle" /\ call[waits[p]].item = Head(page[p]).item

OrderTypes == Counters /\ waits \in [Pages \cup Items -> Calls \cup {None}]

OrderInv ==
  /\ OrderTypes
  /\ \A i \in Items : Fresh(i) /\ Kept(i)
  /\ \A c \in Calls : Asked(c)
  /\ \A p \in Pages : Sending(p)

LEMMA InitOrder == Init => OrderInv
<1> SUFFICES ASSUME Init PROVE OrderInv
  OBVIOUS
<1>1. \A c \in Calls : call[c] = IdleCall /\ post[c] = IdlePost
  BY DEF Init, LedgerInit
<1>2. \A c \in Calls : /\ call[c].pc = "idle" /\ call[c].chore = None
                       /\ post[c].pc = "idle" /\ post[c].status = 0
  BY <1>1 DEF IdleCall, IdlePost
<1>3. OrderTypes
  BY DEF Init, OrderTypes, Counters, Keys
<1>4. Cardinality(Placed) \in Nat
  BY OutboxAssumption, FS_Subset, FS_CardinalityType DEF Placed
<1>5. ASSUME NEW i \in Items
      PROVE  Fresh(i) /\ Kept(i)
  <2>1. applied[i] = 0 /\ place[i] = 0 /\ box[i] = None /\ key[i] = None /\ waits[i] = None
    BY DEF Init
  <2>2. ~ InPage(i) /\ \A c \in Calls : ~ Of(c, i)
    BY <1>2 DEF Init, InPage, Of
  <2>3. key[i] # "recorded"
    BY <2>1, DistinctAssumption
  <2>4. place[i] <= Cardinality(Placed)
    BY <1>4, <2>1
  <2> QED
    BY <2>1, <2>2, <2>3, <2>4 DEF Fresh, Kept
<1>6. ASSUME NEW c \in Calls
      PROVE  Asked(c)
  <2>1. call[c].chore # "record"
    BY <1>2, DistinctAssumption
  <2> QED
    BY <1>2, <2>1 DEF Asked, Answered
<1>7. ASSUME NEW p \in Pages
      PROVE  Sending(p)
  BY DEF Init, Sending
<1> QED
  BY <1>3, <1>5, <1>6, <1>7 DEF OrderInv

-----------------------------------------------------------------------------
(* Nothing that is done with is undone, and nothing is queued before what  *)
(* is queued already.                                                      *)
Onward ==
  /\ parked \subseteq parked' /\ keyless \subseteq keyless'
  /\ \A i \in Items : applied[i] > 0 => applied'[i] > 0
  /\ \A i, j \in Items : place'[j] = place[j] /\ Before(i, j)' => Before(i, j)

LEMMA WaitedStays ==
  ASSUME Onward, NEW j \in Items, Waited(j), place'[j] = place[j]
  PROVE  Waited(j)'
<1>1. \A i \in Items : Done(i) => Done(i)'
  BY DEF Onward, Done
<1>2. \A i \in Items : Before(i, j)' => Before(i, j)
  BY DEF Onward, Before
<1> QED
  BY <1>1, <1>2 DEF Waited

(* What is in a page's hands is queued.                                    *)
LEMMA EntryInPage ==
  ASSUME OutboxTypes, NEW p \in Pages, NEW n \in DOMAIN page[p]
  PROVE  /\ page[p][n] \in Entry /\ page[p][n].item \in Items /\ InPage(page[p][n].item)
         /\ page[p] \in Seq(Entry) /\ n \in 1 .. Len(page[p]) /\ Len(page[p]) \in Nat
<1>1. page[p] \in Seq(Entry)
  BY DEF OutboxTypes
<1>2. Len(page[p]) \in Nat /\ DOMAIN page[p] = 1 .. Len(page[p])
  BY <1>1
<1>3. page[p][n] \in Entry
  BY <1>1, <1>2
<1> QED
  BY <1>1, <1>2, <1>3 DEF Entry, InPage

LEMMA FreshStays ==
  ASSUME OrderTypes, OrderTypes', NEW i \in Items, Fresh(i), place'[i] = place[i], made <= made',
         place[i] <= Cardinality(Placed)',
         box'[i] = box[i] \/ box'[i] = None \/ place[i] # 0,
         InPage(i)' => InPage(i) \/ place[i] # 0,
         made' < i => applied'[i] = applied[i] /\ \A c \in Calls : Of(c, i)' => Of(c, i),
         waits'[i] = waits[i] \/ waits'[i] = None \/ (place[i] = 0 /\ ~ (made' < i))
  PROVE  Fresh(i)'
<1>1. i \in Nat /\ made \in Nat /\ made' \in Nat
  BY OutboxAssumption DEF OrderTypes, Counters
<1>2. made' < i => made < i
  BY <1>1
<1> QED
  BY <1>2 DEF Fresh

LEMMA KeptStays ==
  ASSUME Onward, NEW i \in Items, Kept(i), place'[i] = place[i],
         \/ box'[i] = box[i] \/ (box'[i] = None /\ Done(i)')
         \/ box'[i] # None /\ (box'[i] >= MaxAttempts => i \in parked'),
         key'[i] = "recorded" => key[i] = "recorded" \/ applied'[i] > 0,
         applied'[i] > 0 => applied[i] > 0 \/ i \in keyless' \/ Waited(i)'
  PROVE  Kept(i)'
<1>1. place'[i] > 0 => box'[i] # None \/ Done(i)'
  BY DEF Kept, Done, Onward
<1>2. box'[i] # None => (box'[i] >= MaxAttempts => i \in parked')
  BY DEF Kept, Onward
<1>3. key'[i] = "recorded" => applied'[i] > 0
  BY DEF Kept, Onward
<1>4. i \notin keyless' /\ applied'[i] > 0 => Waited(i)'
  BY WaitedStays DEF Kept, Onward
<1> QED
  BY <1>1, <1>2, <1>3, <1>4 DEF Kept

LEMMA AskedStays ==
  ASSUME OutboxTypes, Onward, NEW c \in Calls, Asked(c), call'[c] = call[c], post'[c] = post[c],
         call[c].pc # "idle" => place'[call[c].item] = place[call[c].item]
                                \/ call[c].item \in keyless'
  PROVE  Asked(c)'
<1>1. Answered(c)'
  <2>1. call[c].pc # "idle" => call[c].item \in Items
    BY DEF OutboxTypes
  <2>2. call[c].pc = "idle" => call[c].chore = None /\ post[c].pc = "idle" /\ post[c].status = 0
    BY DEF Asked, Answered
  <2>3. CASE call[c].pc = "idle"
    <3>1. call[c].chore # "record"
      BY <2>2, <2>3, DistinctAssumption
    <3> QED
      BY <2>2, <2>3, <3>1 DEF Answered
  <2>4. CASE call[c].pc # "idle"
    <3>1. applied[call[c].item] > 0 => applied'[call[c].item] > 0
      BY <2>1, <2>4 DEF Onward
    <3> QED
      BY <2>4, <3>1 DEF Asked, Answered
  <2> QED
    BY <2>3, <2>4
<1>2. ASSUME call[c].pc # "idle", call[c].item \notin keyless'
      PROVE  Waited(call[c].item)'
  <2>1. call[c].item \in Items /\ Waited(call[c].item)
    BY <1>2 DEF OutboxTypes, Asked, Onward
  <2> QED
    BY <1>2, <2>1, WaitedStays
<1> QED
  BY <1>1, <1>2 DEF Asked

(* A page that goes on as it was.                                          *)
LEMMA SendingStays ==
  ASSUME OutboxTypes, Onward, NEW p \in Pages, Sending(p), page'[p] = page[p],
         \A n \in DOMAIN page[p] : place'[page[p][n].item] = place[page[p][n].item],
         waits'[p] # None =>
           page[p] # <<>> /\ call'[waits'[p]].pc # "idle"
             /\ call'[waits'[p]].item = Head(page[p]).item
  PROVE  Sending(p)'
<1>1. ASSUME NEW n \in DOMAIN page'[p]
      PROVE  InTurn(p, n)'
  <2> DEFINE j == page[p][n].item
  <2>1. page[p] \in Seq(Entry) /\ n \in DOMAIN page[p]
    BY <1>1 DEF OutboxTypes
  <2>2. j \in Items /\ page'[p][n] = page[p][n]
    BY <2>1, EntryInPage
  <2>3. InTurn(p, n)
    BY <2>1 DEF Sending
  <2>4. page[p][n].attempts >= MaxAttempts => j \in parked'
    BY <2>3 DEF InTurn, Onward
  <2>5. place'[j] = place[j]
    BY <2>1
  <2>6. \A i \in Items : (Before(i, j)' => Before(i, j)) /\ (Done(i) => Done(i)')
    BY <2>2, <2>5 DEF Onward, Before, Done
  <2>7. \A i \in Items : (place'[i] > 0 /\ place'[i] < place'[j]) <=> Before(i, j)'
    BY DEF Before
  <2> QED
    BY <2>2, <2>3, <2>4, <2>6, <2>7 DEF InTurn, Before
<1>2. waits'[p] # None =>
        page'[p] # <<>> /\ call'[waits'[p]].pc # "idle" /\ call'[waits'[p]].item = Head(page'[p]).item
  BY DEF Sending
<1> QED
  BY <1>1, <1>2 DEF Sending

(* What else may stay as it is.                                            *)
LEMMA OnwardHere ==
  ASSUME UNCHANGED <<place, applied>>, parked \subseteq parked', keyless \subseteq keyless'
  PROVE  Onward
  BY DEF Onward, Before

LEMMA PlacedStays ==
  ASSUME OrderInv, place' = place, NEW i \in Items
  PROVE  place[i] <= Cardinality(Placed)'
<1>1. Placed' = Placed
  BY DEF Placed
<1> QED
  BY <1>1 DEF OrderInv, Fresh

(* A step that leaves the requests alone.                                  *)
LEMMA QuietOrder ==
  ASSUME OutboxTypes, OrderInv, OrderTypes', UNCHANGED <<place, call, post, applied, made>>,
         parked \subseteq parked', keyless \subseteq keyless',
         \A i \in Items :
           /\ key'[i] = "recorded" => key[i] = "recorded"
           /\ InPage(i)' => InPage(i) \/ place[i] # 0
           /\ waits'[i] = waits[i] \/ waits'[i] = None
           /\ \/ box'[i] = box[i] \/ (box'[i] = None /\ Done(i)')
              \/ place[i] # 0 /\ box'[i] # None /\ (box'[i] >= MaxAttempts => i \in parked'),
         \A p \in Pages : Sending(p)'
  PROVE  OrderInv'
<1>1. Onward
  BY OnwardHere
<1>2. made <= made'
  <2>1. made \in Nat
    BY DEF OrderInv, OrderTypes, Counters
  <2> QED
    BY <2>1
<1>3. ASSUME NEW i \in Items
      PROVE  Fresh(i)'
  <2>1. \A c \in Calls : Of(c, i)' <=> Of(c, i)
    BY DEF Of
  <2>2. Fresh(i) /\ OrderTypes /\ place[i] <= Cardinality(Placed)'
    BY PlacedStays DEF OrderInv
  <2>3. box'[i] = box[i] \/ box'[i] = None \/ place[i] # 0
    OBVIOUS
  <2> QED
    BY <1>2, <2>1, <2>2, <2>3, FreshStays
<1>4. ASSUME NEW i \in Items
      PROVE  Kept(i)'
  <2>1. Kept(i)
    BY DEF OrderInv
  <2> QED
    BY <1>1, <2>1, KeptStays
<1>5. ASSUME NEW c \in Calls
      PROVE  Asked(c)'
  <2>1. Asked(c)
    BY DEF OrderInv
  <2> QED
    BY <1>1, <2>1, AskedStays
<1> QED
  BY <1>3, <1>4, <1>5 DEF OrderInv

(* A mutation is queued: behind all the others.                            *)
LEMMA QueueOrder ==
  ASSUME OutboxTypes, OrderInv, OrderTypes', NEW k \in Items, Queued(k), place[k] = 0,
         UNCHANGED <<page, call, post, applied, key, parked>>, made <= made', ~ (made' < k),
         keyless \subseteq keyless',
         k \in keyless' \/ (applied[k] = 0 /\ \A c \in Calls : ~ Of(c, k)),
         \A w \in Pages \cup Items : w # k => waits'[w] = waits[w],
         waits'[k] = None
  PROVE  OrderInv'
<1> DEFINE n == Cardinality(Placed)
<1>1. IsFiniteSet(Placed) /\ n \in Nat
  BY OutboxAssumption, FS_Subset, FS_CardinalityType DEF Placed
<1>2. /\ place \in [Items -> Nat]
      /\ place'[k] = 1 + n /\ box'[k] = 0
      /\ \A i \in Items : i # k => place'[i] = place[i] /\ box'[i] = box[i]
  BY DEF Queued, Placed, OrderInv, OrderTypes, Counters, OutboxTypes
<1>3. Cardinality(Placed') = n + 1
  <2>1. Placed' = Placed \cup {k} /\ k \notin Placed
    BY <1>1, <1>2 DEF Placed
  <2> QED
    BY <1>1, <2>1, FS_AddElement
<1>4. \A i \in Items : place[i] \in Nat /\ place[i] <= n
  BY <1>2 DEF OrderInv, Fresh
<1>5. Onward
  <2>1. \A i, j \in Items : place'[j] = place[j] /\ Before(i, j)' => Before(i, j)
    BY <1>1, <1>2, <1>4 DEF Before
  <2> QED
    BY <2>1 DEF Onward
<1>6. \A i \in Items : (InPage(i)' <=> InPage(i)) /\ \A c \in Calls : Of(c, i)' <=> Of(c, i)
  BY DEF InPage, Of
<1>7. ASSUME NEW i \in Items
      PROVE  Fresh(i)'
  <2>1. CASE i = k
    <3>1. place'[k] # 0 /\ place'[k] <= Cardinality(Placed')
      BY <1>1, <1>2, <1>3
    <3> QED
      BY <2>1, <3>1 DEF Fresh
  <2>2. CASE i # k
    <3>1. place[i] <= Cardinality(Placed)'
      BY <1>1, <1>3, <1>4
    <3>2. Fresh(i) /\ OrderTypes
      BY DEF OrderInv
    <3> QED
      BY <1>2, <1>6, <2>2, <3>1, <3>2, FreshStays
  <2> QED
    BY <2>1, <2>2
<1>8. ASSUME NEW i \in Items
      PROVE  Kept(i)'
  <2>1. Kept(i)
    BY DEF OrderInv
  <2>2. CASE i = k
    <3>1. box'[k] # None /\ ~ (box'[k] >= MaxAttempts)
      <4>1. MaxAttempts \in Nat \ {0}
        BY OutboxAssumption
      <4>2. box'[k] # None
        BY <1>2, DistinctAssumption
      <4>3. ~ (box'[k] >= MaxAttempts)
        BY <1>2, <4>1
      <4> QED
        BY <4>2, <4>3
    <3>2. k \notin keyless' /\ applied'[k] > 0 => FALSE
      OBVIOUS
    <3> QED
      BY <2>1, <2>2, <3>1, <3>2 DEF Kept
  <2>3. CASE i # k
    BY <1>2, <1>5, <2>1, <2>3, KeptStays
  <2> QED
    BY <2>2, <2>3
<1>9. ASSUME NEW c \in Calls
      PROVE  Asked(c)'
  <2>1. Asked(c)
    BY DEF OrderInv
  <2>2. call[c].pc # "idle" => call[c].item \in Items
    BY DEF OutboxTypes
  <2>3. call[c].pc # "idle" => place'[call[c].item] = place[call[c].item]
                               \/ call[c].item \in keyless'
    BY <1>2, <2>2 DEF Of
  <2> QED
    BY <1>5, <2>1, <2>3, AskedStays
<1>10. ASSUME NEW p \in Pages
       PROVE  Sending(p)'
  <2>1. Sending(p) /\ waits'[p] = waits[p]
    BY DistinctAssumption DEF OrderInv
  <2>2. ASSUME NEW m \in DOMAIN page[p]
        PROVE  place'[page[p][m].item] = place[page[p][m].item]
    <3>1. page[p][m].item \in Items /\ InPage(page[p][m].item)
      BY EntryInPage
    <3>2. place[page[p][m].item] # 0
      BY <3>1 DEF OrderInv, Fresh
    <3> QED
      BY <1>2, <3>1, <3>2
  <2>3. waits'[p] # None =>
          page[p] # <<>> /\ call'[waits'[p]].pc # "idle"
            /\ call'[waits'[p]].item = Head(page[p]).item
    BY <2>1 DEF Sending
  <2> QED
    BY <1>5, <2>1, <2>2, <2>3, SendingStays
<1> QED
  BY <1>7, <1>8, <1>9, <1>10 DEF OrderInv

(* A request is sent, once everything queued before it is done with.       *)
LEMMA SendOrder ==
  ASSUME OutboxTypes, OrderInv, OrderTypes', NEW c \in Calls, NEW k \in Items,
         NEW keyed \in BOOLEAN, Free(c), Send(c, k, keyed), Waited(k),
         UNCHANGED <<place, post, applied, key, box, page, parked, keyless>>,
         made <= made', ~ (made' < k),
         \A i \in Items : waits'[i] = waits[i] \/ (place[i] = 0 /\ ~ (made' < i)),
         \A p \in Pages : waits'[p] = waits[p]
                          \/ (waits'[p] = c /\ page[p] # <<>> /\ k = Head(page[p]).item)
  PROVE  OrderInv'
<1>1. Onward
  BY OnwardHere
<1>2. /\ \A d \in Calls : d # c => call'[d] = call[d]
      /\ call'[c] = [pc |-> IF keyed THEN "claim" ELSE "enter", item |-> k,
                     keyed |-> keyed, status |-> 0, chore |-> None]
  BY DEF OutboxTypes, Send
<1>a. call[c].pc = "idle" /\ call'[c].pc \in {"claim", "enter"} /\ call'[c].item = k
        /\ call'[c].chore = None
  BY <1>2 DEF Free
<1>3. ASSUME NEW i \in Items
      PROVE  Fresh(i)' /\ Kept(i)'
  <2>1. InPage(i)' <=> InPage(i)
    BY DEF InPage
  <2>2. \A d \in Calls : made' < i /\ Of(d, i)' => Of(d, i)
    BY <1>2, <1>a DEF Of
  <2>3. Fresh(i) /\ Kept(i) /\ OrderTypes /\ place[i] <= Cardinality(Placed)'
    BY PlacedStays DEF OrderInv
  <2>4. Fresh(i)'
    BY <2>1, <2>2, <2>3, FreshStays
  <2>5. Kept(i)'
    BY <1>1, <2>3, KeptStays
  <2> QED
    BY <2>4, <2>5
<1>4. ASSUME NEW d \in Calls
      PROVE  Asked(d)'
  <2>1. Asked(d)
    BY DEF OrderInv
  <2>2. CASE d # c
    BY <1>1, <1>2, <2>1, <2>2, AskedStays
  <2>3. CASE d = c
    <3>1. post[c].pc = "idle" /\ post[c].status = 0
      BY <1>a, <2>1, <2>3 DEF Asked, Answered
    <3>2. Answered(c)'
      <4>1. call'[c].chore # "record"
        BY <1>a, DistinctAssumption
      <4> QED
        BY <1>a, <3>1, <4>1 DEF Answered
    <3>3. Waited(k)'
      BY <1>1, WaitedStays
    <3> QED
      BY <1>a, <2>3, <3>2, <3>3 DEF Asked
  <2> QED
    BY <2>2, <2>3
<1>5. ASSUME NEW p \in Pages
      PROVE  Sending(p)'
  <2>1. Sending(p)
    BY DEF OrderInv
  <2>2. waits[p] # None => /\ page[p] # <<>> /\ waits[p] \in Calls /\ waits[p] # c
                           /\ call[waits[p]].pc # "idle"
                           /\ call[waits[p]].item = Head(page[p]).item
    BY <1>a, <2>1 DEF Sending, OrderInv, OrderTypes
  <2>3. waits'[p] # None =>
          page[p] # <<>> /\ call'[waits'[p]].pc # "idle"
            /\ call'[waits'[p]].item = Head(page[p]).item
    BY <1>2, <1>a, <2>2
  <2> QED
    BY <1>1, <2>1, <2>3, SendingStays
<1> QED
  BY <1>3, <1>4, <1>5 DEF OrderInv

LEMMA SendingQuiet ==
  ASSUME OutboxTypes, OrderInv, UNCHANGED <<place, call, applied>>,
         parked \subseteq parked', keyless \subseteq keyless',
         NEW p \in Pages, page'[p] = page[p], waits'[p] = waits[p]
  PROVE  Sending(p)'
<1>1. Onward
  BY OnwardHere
<1>2. Sending(p)
  BY DEF OrderInv
<1>3. waits'[p] # None =>
        page[p] # <<>> /\ call'[waits'[p]].pc # "idle" /\ call'[waits'[p]].item = Head(page[p]).item
  BY <1>2 DEF Sending
<1> QED
  BY <1>1, <1>2, <1>3, SendingStays

LEMMA ActOrder ==
  ASSUME OutboxTypes, OrderInv, Act
  PROVE  OrderInv'
<1> DEFINE k == made + 1
<1>1. /\ k \in Items /\ made' = k /\ made \in Nat /\ made < k /\ made <= made' /\ ~ (made' < k)
      /\ UNCHANGED <<page, key, applied, keyless, parked, post>>
  <2>1. made \in Nat
    BY DEF OrderInv, OrderTypes, Counters
  <2>2. k \in Items /\ made' = k
    BY DEF Act
  <2>3. UNCHANGED <<page, key, applied, keyless, parked, post>>
    BY DEF Act, history, ledgerVars
  <2> QED
    BY <2>1, <2>2, <2>3
<1>2. place[k] = 0 /\ applied[k] = 0 /\ waits[k] = None /\ \A c \in Calls : ~ Of(c, k)
  BY <1>1 DEF OrderInv, Fresh
<1>3. CASE online
  <2>1. PICK c \in Calls : Free(c) /\ Send(c, k, FALSE) /\ waits' = [waits EXCEPT ![k] = c]
    BY <1>3 DEF Act
  <2>2. UNCHANGED <<box, place>>
    BY <1>3 DEF Act
  <2>3. OrderTypes'
    BY <1>1, <2>1, <2>2 DEF OrderInv, OrderTypes, Counters
  <2>4. \A i \in Items : waits'[i] = waits[i] \/ (place[i] = 0 /\ ~ (made' < i))
    BY <1>1, <1>2, <2>1 DEF OrderInv, OrderTypes
  <2>5. \A p \in Pages : waits'[p] = waits[p]
    BY <1>1, <2>1, DistinctAssumption DEF OrderInv, OrderTypes
  <2>6. Waited(k)
    BY <1>2 DEF Waited, Before, OrderInv, OrderTypes, Counters
  <2> QED
    BY <1>1, <2>1, <2>2, <2>3, <2>4, <2>5, <2>6, SendOrder
<1>4. CASE ~ online
  <2>1. Queued(k) /\ UNCHANGED <<call, waits>>
    BY <1>4 DEF Act
  <2>2. Cardinality({j \in Items : place[j] > 0}) \in Nat
    BY OutboxAssumption, FS_Subset, FS_CardinalityType
  <2>3. OrderTypes'
    BY <1>1, <2>1, <2>2 DEF OrderInv, OrderTypes, Counters, Queued
  <2> QED
    BY <1>1, <1>2, <2>1, <2>3, QueueOrder
<1> QED
  BY <1>3, <1>4

LEMMA UserOrder ==
  ASSUME OutboxTypes, OrderInv,
         \/ ConnectionChanges
         \/ \E i \in Items : FirstFetchThrows(i) \/ FirstFetchAnswered(i) \/ Discard(i) \/ Expire(i)
  PROVE  OrderInv'
<1>1. ASSUME UNCHANGED <<place, call, post, applied, made, page, parked, keyless>>,
             key' \in [Items -> Keys], waits' \in [Pages \cup Items -> Calls \cup {None}],
             \A p \in Pages : waits'[p] = waits[p],
             \A i \in Items : /\ key'[i] = "recorded" => key[i] = "recorded"
                              /\ waits'[i] = waits[i] \/ waits'[i] = None
                              /\ box'[i] = box[i] \/ (box'[i] = None /\ Done(i)')
      PROVE  OrderInv'
  <2>1. OrderTypes'
    BY <1>1 DEF OrderInv, OrderTypes, Counters
  <2>2. \A i \in Items : InPage(i)' <=> InPage(i)
    BY <1>1 DEF InPage
  <2>3. \A p \in Pages : Sending(p)'
    BY <1>1, SendingQuiet
  <2> QED
    BY <1>1, <2>1, <2>2, <2>3, QuietOrder
<1>2. key \in [Items -> Keys] /\ waits \in [Pages \cup Items -> Calls \cup {None}]
  BY DEF OrderInv, OrderTypes, Counters
<1>3. CASE ConnectionChanges
  BY <1>1, <1>2, <1>3 DEF ConnectionChanges, history, ledgerVars
<1>4. ASSUME NEW i \in Items, waits' = [waits EXCEPT ![i] = None]
      PROVE  /\ waits' \in [Pages \cup Items -> Calls \cup {None}]
             /\ \A p \in Pages : waits'[p] = waits[p]
             /\ \A j \in Items : waits'[j] = waits[j] \/ waits'[j] = None
             /\ \A w \in Pages \cup Items : w # i => waits'[w] = waits[w]
             /\ waits'[i] = None
  BY <1>2, <1>4, DistinctAssumption
<1>5. ASSUME NEW i \in Items, FirstFetchAnswered(i)
      PROVE  OrderInv'
  BY <1>1, <1>2, <1>4, <1>5 DEF FirstFetchAnswered, history, ledgerVars
<1>6. ASSUME NEW i \in Items, Discard(i)
      PROVE  OrderInv'
  <2>1. i \in parked
    BY <1>6 DEF Discard, OrderInv, Kept
  <2>2. \A j \in Items : box'[j] = box[j] \/ (box'[j] = None /\ Done(j)')
    BY <1>6, <2>1 DEF Discard, Done, history, OutboxTypes
  <2> QED
    BY <1>1, <1>2, <1>6, <2>2 DEF Discard, history, ledgerVars
<1>7. ASSUME NEW i \in Items, Expire(i)
      PROVE  OrderInv'
  <2>1. /\ key' \in [Items -> Keys]
        /\ \A j \in Items : key'[j] = "recorded" => key[j] = "recorded"
    BY <1>2, <1>7, DistinctAssumption DEF Expire, Keys
  <2> QED
    BY <1>1, <1>2, <1>7, <2>1 DEF Expire, device, history, ledgerVars
<1>8. ASSUME NEW i \in Items, FirstFetchThrows(i)
      PROVE  OrderInv'
  <2>1. /\ UNCHANGED <<call, post, applied, key, made, page, parked>>
        /\ waits[i] # None /\ waits' = [waits EXCEPT ![i] = None]
    BY <1>8 DEF FirstFetchThrows, ledgerVars
  <2>2. CASE online
    BY <1>1, <1>2, <1>4, <1>8, <2>1, <2>2 DEF FirstFetchThrows
  <2>3. CASE ~ online
    <3>1. Queued(i) /\ keyless' = keyless \cup {i}
      BY <1>8, <2>3 DEF FirstFetchThrows
    <3>2. Cardinality({j \in Items : place[j] > 0}) \in Nat
      BY OutboxAssumption, FS_Subset, FS_CardinalityType
    <3>3. OrderTypes'
      BY <1>4, <2>1, <3>1, <3>2 DEF OrderInv, OrderTypes, Counters, Queued
    <3>4. place[i] = 0 /\ ~ (made < i) /\ made \in Nat
      BY <2>1 DEF OrderInv, Fresh, OrderTypes, Counters
    <3>5. made <= made'
      BY <2>1, <3>4
    <3> QED
      BY <1>4, <2>1, <3>1, <3>3, <3>4, <3>5, QueueOrder
  <2> QED
    BY <2>2, <2>3
<1> QED
  BY <1>3, <1>5, <1>6, <1>7, <1>8

(* What a page does when it takes the first entry off: it must be done.    *)
LEMMA TailSending ==
  ASSUME OutboxTypes, OrderInv, NEW p \in Pages, page[p] # <<>>, UNCHANGED <<place, applied>>,
         parked \subseteq parked', keyless \subseteq keyless',
         page'[p] = Tail(page[p]), waits'[p] = None,
         NEW k \in Items, k = Head(page[p]).item, Done(k)'
  PROVE  Sending(p)'
<1>1. page[p] \in Seq(Entry)
  BY DEF OutboxTypes
<1>2. ASSUME NEW n \in DOMAIN page'[p]
      PROVE  InTurn(p, n)'
  <2>1. n \in 1 .. Len(page[p]) - 1 /\ n + 1 \in DOMAIN page[p] /\ Len(page[p]) \in Nat
    BY <1>1, <1>2
  <2>2. \A m \in 1 .. n : page'[p][m] = page[p][m + 1] /\ m \in Nat
    BY <1>1, <2>1
  <2>3. Sending(p)
    BY DEF OrderInv
  <2>4. InTurn(p, n + 1)
    BY <2>1, <2>3 DEF Sending
  <2>5. page'[p][n] = page[p][n + 1] /\ (n + 1) - 1 = n
    BY <2>1, <2>2
  <2>6. ASSUME NEW i \in Items, place[i] > 0, place[i] < place[page[p][n + 1].item]
        PROVE  Done(i)' \/ \E m \in 1 .. n - 1 : page'[p][m].item = i
    <3>1. Done(i) => Done(i)'
      BY DEF Done
    <3>2. ASSUME NEW m \in 1 .. n, page[p][m].item = i
          PROVE  Done(i)' \/ \E l \in 1 .. n - 1 : page'[p][l].item = i
      <4>1. CASE m = 1
        <5>1. Head(page[p]) = page[p][1]
          BY <1>1
        <5> QED
          BY <3>2, <4>1, <5>1
      <4>2. CASE m # 1
        <5>1. m - 1 \in 1 .. n - 1 /\ (m - 1) + 1 = m /\ m - 1 \in 1 .. n
          BY <2>1, <4>2
        <5> QED
          BY <2>2, <3>2, <5>1
      <4> QED
        BY <4>1, <4>2
    <3> QED
      BY <2>4, <2>5, <2>6, <3>1, <3>2 DEF InTurn, Before
  <2> QED
    BY <2>4, <2>5, <2>6 DEF InTurn, Before
<1> QED
  BY <1>2 DEF Sending

(* A flush takes everything queued, in the order it was queued.            *)
LEMMA SnapshotOrder ==
  ASSUME OutboxTypes, OrderInv, NEW q \in Snapshot, NEW n \in DOMAIN q, NEW i \in InBox,
         place[i] < place[q[n]]
  PROVE  \E m \in 1 .. n - 1 : q[m] = i
<1> DEFINE N == Cardinality(InBox)
<1>1. IsFiniteSet(InBox) /\ N \in Nat /\ InBox \subseteq Items
  BY OutboxAssumption, FS_Subset, FS_CardinalityType DEF InBox
<1>2. /\ q \in [1 .. N -> InBox] /\ DOMAIN q = 1 .. N
      /\ \A l, m \in 1 .. N : l < m => place[q[l]] < place[q[m]]
  BY DEF Snapshot
<1>3. \A m \in 1 .. N : place[q[m]] \in Nat
  BY <1>1, <1>2 DEF OrderInv, OrderTypes, Counters
<1>4. \A l, m \in 1 .. N : q[l] = q[m] => l = m
  <2> SUFFICES ASSUME NEW l \in 1 .. N, NEW m \in 1 .. N, q[l] = q[m], l # m
               PROVE  FALSE
    OBVIOUS
  <2>1. l < m \/ m < l
    BY <1>1
  <2> QED
    BY <1>2, <1>3, <2>1
<1>5. q \in Injection(1 .. N, InBox)
  BY <1>2, <1>4 DEF Injection, IsInjective
<1>6. IsFiniteSet(1 .. N) /\ Cardinality(1 .. N) = N
  <2>1. N \in Int /\ 1 \in Int /\ (1 > N => N = 0)
    BY <1>1
  <2> HIDE DEF N
  <2>2. IsFiniteSet(1 .. N) /\ Cardinality(1 .. N) = IF 1 > N THEN 0 ELSE N - 1 + 1
    BY <2>1, FS_Interval
  <2> QED
    BY <2>1, <2>2
<1>7. q \in Surjection(1 .. N, InBox)
  BY <1>1, <1>5, <1>6, FS_Injection
<1>8. PICK m \in 1 .. N : q[m] = i
  BY <1>7 DEF Surjection
<1>9. m < n
  <2>1. n \in 1 .. N
    BY <1>2
  <2>2. ~ (place[q[n]] < place[q[m]]) /\ q[m] # q[n]
    BY <1>3, <1>8, <2>1
  <2>3. m # n /\ ~ (n < m)
    BY <1>2, <2>1, <2>2
  <2> QED
    BY <1>1, <2>1, <2>3
<1> QED
  BY <1>1, <1>2, <1>8, <1>9

LEMMA PageOrder ==
  ASSUME OutboxTypes, OrderInv, NEW p \in Pages, PageStep(p) \/ ReplayThrows(p)
  PROVE  OrderInv'
<1>0. /\ Sending(p) /\ \A i \in Items : Fresh(i) /\ Kept(i)
      /\ page \in [Pages -> Seq(Entry)] /\ box \in [Items -> Nat \cup {None}]
      /\ waits \in [Pages \cup Items -> Calls \cup {None}] /\ p \notin Items
  BY DistinctAssumption DEF OrderInv, OrderTypes, OutboxTypes
(* A step that sends nothing.                                              *)
<1>1. ASSUME UNCHANGED <<place, call, post, applied, made, key, keyless>>,
             parked \subseteq parked', Sending(p)',
             waits' = waits \/ waits' = [waits EXCEPT ![p] = None],
             \A r \in Pages : r # p => page'[r] = page[r],
             \A i \in Items :
               /\ InPage(i)' => InPage(i) \/ place[i] # 0
               /\ \/ box'[i] = box[i] \/ (box'[i] = None /\ Done(i)')
                  \/ place[i] # 0 /\ box'[i] # None /\ (box'[i] >= MaxAttempts => i \in parked')
      PROVE  OrderInv'
  <2>1. /\ waits' \in [Pages \cup Items -> Calls \cup {None}]
        /\ \A w \in Pages \cup Items : w # p => waits'[w] = waits[w]
    BY <1>0, <1>1
  <2>2. OrderTypes'
    BY <1>1, <2>1 DEF OrderInv, OrderTypes, Counters
  <2>3. \A r \in Pages : Sending(r)'
    BY <1>1, <2>1, SendingQuiet
  <2>4. \A i \in Items : waits'[i] = waits[i] /\ (key'[i] = "recorded" => key[i] = "recorded")
    BY <1>0, <1>1, <2>1
  <2> QED
    BY <1>1, <2>2, <2>3, <2>4, QuietOrder
<1>2. CASE BeginFlush(p)
  <2>1. PICK q \in Snapshot :
          page' = [page EXCEPT ![p] = [n \in DOMAIN q |-> [item |-> q[n], attempts |-> box[q[n]]]]]
    BY <1>2 DEF BeginFlush
  <2>2. UNCHANGED <<place, call, post, applied, made, key, keyless, parked, waits, box>>
          /\ page[p] = <<>>
    BY <1>2 DEF BeginFlush, history, ledgerVars
  <2>3. /\ page'[p] = [n \in DOMAIN q |-> [item |-> q[n], attempts |-> box[q[n]]]]
        /\ \A r \in Pages : r # p => page'[r] = page[r]
    BY <1>0, <2>1
  <2>4. \A n \in DOMAIN q : q[n] \in Items /\ box[q[n]] # None /\ box[q[n]] \in Nat
    BY <1>0 DEF Snapshot, InBox
  <2>5. ASSUME NEW n \in DOMAIN page'[p]
        PROVE  InTurn(p, n)'
    <3>1. n \in DOMAIN q /\ page'[p][n].item = q[n] /\ page'[p][n].attempts = box[q[n]]
      BY <2>3, <2>5
    <3>2. box[q[n]] >= MaxAttempts => q[n] \in parked'
      BY <1>0, <2>2, <2>4, <3>1 DEF Kept
    <3>3. ASSUME NEW i \in Items, Before(i, q[n])
          PROVE  Done(i) \/ \E m \in 1 .. n - 1 : page'[p][m].item = i
      <4>1. CASE i \in InBox
        <5>1. PICK m \in 1 .. n - 1 : q[m] = i
          BY <3>1, <3>3, <4>1, SnapshotOrder DEF Before
        <5>2. m \in DOMAIN q
          <6>1. DOMAIN q = 1 .. Cardinality(InBox) /\ Cardinality(InBox) \in Nat
            BY OutboxAssumption, FS_Subset, FS_CardinalityType DEF Snapshot, InBox
          <6> QED
            BY <3>1, <6>1
        <5> QED
          BY <2>3, <5>1, <5>2
      <4>2. CASE i \notin InBox
        BY <1>0, <3>3, <4>2 DEF InBox, Before, Kept
      <4> QED
        BY <4>1, <4>2
    <3>4. \A i \in Items : place'[i] > 0 /\ place'[i] < place'[q[n]] =>
            Done(i)' \/ \E m \in 1 .. n - 1 : page'[p][m].item = i
      BY <2>2, <3>3 DEF Before, Done
    <3> QED
      BY <3>1, <3>2, <3>4 DEF InTurn, Before
  <2>6. waits[p] = None
    BY <1>0, <2>2 DEF Sending
  <2>7. Sending(p)'
    BY <2>2, <2>5, <2>6 DEF Sending
  <2>8. ASSUME NEW i \in Items, InPage(i)'
        PROVE  InPage(i) \/ place[i] # 0
    <3>1. PICK r \in Pages : \E n \in DOMAIN page'[r] : page'[r][n].item = i
      BY <2>8 DEF InPage
    <3>2. CASE r = p
      <4>1. PICK n \in DOMAIN q : q[n] = i
        BY <2>3, <3>1, <3>2
      <4> QED
        BY <1>0, <2>4, <4>1 DEF Fresh
    <3>3. CASE r # p
      BY <2>3, <3>1, <3>3 DEF InPage
    <3> QED
      BY <3>2, <3>3
  <2> QED
    BY <1>1, <2>2, <2>3, <2>7, <2>8
<1>3. CASE SkipParked(p)
  <2>1. /\ page[p] # <<>> /\ waits[p] = None /\ Head(page[p]).attempts >= MaxAttempts
        /\ page' = [page EXCEPT ![p] = Tail(@)]
        /\ UNCHANGED <<place, call, post, applied, made, key, keyless, parked, waits, box>>
    BY <1>3 DEF SkipParked, history, ledgerVars
  <2>2. PICK k \in Items : k = Head(page[p]).item
    BY <2>1, HeadInPage
  <2>3. k \in parked
    BY <1>0, <2>1, <2>2, HeadInPage DEF Sending, InTurn
  <2>4. Done(k)'
    BY <2>1, <2>3 DEF Done
  <2>5. page'[p] = Tail(page[p]) /\ \A r \in Pages : r # p => page'[r] = page[r]
    BY <1>0, <2>1
  <2>6. Sending(p)'
    BY <2>1, <2>2, <2>4, <2>5, TailSending
  <2> QED
    BY <1>1, <2>1, <2>5, <2>6, TailInPage
<1>4. CASE ReplayThrows(p)
  <2>1. /\ waits' = [waits EXCEPT ![p] = None] /\ page' = [page EXCEPT ![p] = <<>>]
        /\ UNCHANGED <<place, call, post, applied, made, key, keyless, parked, box>>
    BY <1>4 DEF ReplayThrows, history, ledgerVars
  <2>2. page'[p] = <<>> /\ waits'[p] = None /\ \A r \in Pages : r # p => page'[r] = page[r]
    BY <1>0, <2>1
  <2>3. Sending(p)' /\ \A i \in Items : InPage(i)' => InPage(i)
    BY <1>0, <2>2 DEF Sending, InPage
  <2> QED
    BY <1>1, <2>1, <2>2, <2>3
<1>5. CASE Replay(p)
  <2> DEFINE k == Head(page[p]).item
  <2>1. /\ page[p] # <<>> /\ waits[p] = None
        /\ UNCHANGED <<place, post, applied, key, box, page, parked, keyless, made>>
    BY <1>5 DEF Replay, history, ledgerVars
  <2>2. PICK c \in Calls : Free(c) /\ Send(c, k, Relayed(k)) /\ waits' = [waits EXCEPT ![p] = c]
    BY <1>5 DEF Replay
  <2>3. Relayed(k) \in BOOLEAN
    BY DEF Relayed
  <2>4. k \in Items /\ InPage(k) /\ 1 \in DOMAIN page[p] /\ k = page[p][1].item
    BY <2>1, HeadInPage
  <2>5. Waited(k)
    <3>1. InTurn(p, 1)
      BY <1>0, <2>4 DEF Sending
    <3>2. 1 .. 1 - 1 = {}
      OBVIOUS
    <3> QED
      BY <2>4, <3>1, <3>2 DEF InTurn, Waited
  <2>6. OrderTypes'
    BY <1>0, <2>1, <2>2 DEF OrderInv, OrderTypes, Counters
  <2>7. /\ \A i \in Items : waits'[i] = waits[i]
        /\ \A r \in Pages : waits'[r] = waits[r]
                            \/ (waits'[r] = c /\ page[r] # <<>> /\ k = Head(page[r]).item)
    BY <1>0, <2>1, <2>2
  <2>8. ~ (made' < k) /\ made <= made'
    <3>1. made \in Nat /\ ~ (made < k)
      BY <1>0, <2>4 DEF Fresh, OrderInv, OrderTypes, Counters
    <3> QED
      BY <2>1, <3>1
  <2> HIDE DEF k
  <2> QED
    BY <2>1, <2>2, <2>3, <2>4, <2>5, <2>6, <2>7, <2>8, SendOrder
<1>6. CASE TakeAnswer(p)
  <2> DEFINE s == call[waits[p]].status
  <2>1. /\ page[p] # <<>> /\ waits[p] # None /\ call[waits[p]].pc = "replied"
        /\ waits' = [waits EXCEPT ![p] = None]
        /\ page' = [page EXCEPT ![p] = IF s = 409 \/ s >= 500 THEN <<>> ELSE Tail(@)]
        /\ UNCHANGED <<place, call, post, applied, made, key, keyless>>
    BY <1>6 DEF TakeAnswer, ledgerVars
  <2>2. PICK k \in Items : k = Head(page[p]).item /\ InPage(k) /\ Head(page[p]) \in Entry
    BY <2>1, HeadInPage
  <2>3. waits[p] \in Calls /\ call[waits[p]].item = k /\ s \in Int /\ MaxAttempts \in Nat
    BY <1>0, <2>1, <2>2, OutboxAssumption DEF Sending, OutboxTypes, Request
  <2>4. s < 300 => applied[k] > 0
    BY <2>1, <2>3 DEF OrderInv, Asked, Answered
  <2>5. /\ \A i \in Items : i # k => box'[i] = box[i]
        /\ parked \subseteq parked'
        /\ s < 300 => box'[k] = None
        /\ s = 409 => box' = box
        /\ s # 409 /\ s >= 300 /\ s < 500 => box'[k] = MaxAttempts /\ k \in parked'
        /\ s >= 500 => box'[k] = Head(page[p]).attempts + 1
                       /\ (box'[k] >= MaxAttempts => k \in parked')
    BY <1>0, <1>6, <2>2, <2>3 DEF TakeAnswer, Put
  <2>6. /\ page'[p] = IF s = 409 \/ s >= 500 THEN <<>> ELSE Tail(page[p])
        /\ \A r \in Pages : r # p => page'[r] = page[r]
        /\ waits'[p] = None
    BY <1>0, <2>1
  <2>7. place[k] # 0
    BY <1>0, <2>2 DEF Fresh
  <2>8. \A i \in Items : \/ box'[i] = box[i] \/ (box'[i] = None /\ Done(i)')
                         \/ /\ place[i] # 0 /\ box'[i] # None
                            /\ (box'[i] >= MaxAttempts => i \in parked')
    <3>1. CASE s < 300
      BY <2>1, <2>4, <2>5, <3>1 DEF Done
    <3>2. CASE s = 409
      BY <2>5, <3>2
    <3>3. \A n \in Nat : n # None
      BY DistinctAssumption
    <3>4. CASE s # 409 /\ s >= 300 /\ s < 500
      <4>1. box'[k] # None /\ k \in parked'
        BY <2>3, <2>5, <3>3, <3>4
      <4> QED
        BY <2>5, <2>7, <4>1
    <3>5. CASE s >= 500
      <4>1. Head(page[p]).attempts + 1 \in Nat
        BY <2>2 DEF Entry
      <4>2. box'[k] # None /\ (box'[k] >= MaxAttempts => k \in parked')
        BY <2>5, <3>3, <3>5, <4>1
      <4> QED
        BY <2>5, <2>7, <4>2
    <3> QED
      BY <2>3, <3>1, <3>2, <3>4, <3>5
  <2>9. Sending(p)'
    <3>1. CASE s = 409 \/ s >= 500
      BY <2>6, <3>1 DEF Sending
    <3>2. CASE ~ (s = 409 \/ s >= 500)
      <4>1. Done(k)'
        BY <2>1, <2>3, <2>4, <2>5, <3>2 DEF Done
      <4>2. page'[p] = Tail(page[p])
        BY <2>6, <3>2
      <4> QED
        BY <2>1, <2>2, <2>5, <2>6, <4>1, <4>2, TailSending
    <3> QED
      BY <3>1, <3>2
  <2>10. \A i \in Items : InPage(i)' => InPage(i)
    BY <2>1, TailInPage
  <2> QED
    BY <1>1, <2>1, <2>5, <2>6, <2>8, <2>9, <2>10
<1> QED
  BY <1>2, <1>3, <1>4, <1>5, <1>6 DEF PageStep

(* A step of one request.                                                  *)
LEMMA RequestOrder ==
  ASSUME OutboxTypes, OrderInv, NEW c \in Calls,
         device' = device, keyless' = keyless, parked' = parked,
         key' \in [Items -> Keys], applied' \in [Items -> Nat], call[c].pc # "idle",
         \A d \in Calls : d # c => call'[d] = call[d] /\ post'[d] = post[d],
         \/ call'[c].pc = "idle" /\ ~ Awaited(c)
         \/ call'[c].pc # "idle" /\ call'[c].item = call[c].item,
         \A i \in Items :
           /\ i # call[c].item => applied'[i] = applied[i]
           /\ applied[i] > 0 => applied'[i] > 0
           /\ key'[i] = "recorded" => key[i] = "recorded" \/ applied'[i] > 0,
         Answered(c)'
  PROVE  OrderInv'
<1>1. UNCHANGED <<made, box, place, page, waits, keyless, parked>>
  BY DEF device
<1>2. OrderTypes'
  BY <1>1 DEF OrderInv, OrderTypes, Counters
<1>3. Onward
  BY <1>1 DEF Onward, Before
<1>4. call[c].item \in Items /\ (call[c].item \notin keyless => Waited(call[c].item))
  BY DEF OrderInv, Asked, OutboxTypes
<1>5. ASSUME NEW i \in Items
      PROVE  Fresh(i)' /\ Kept(i)'
  <2>1. Fresh(i) /\ Kept(i) /\ OrderTypes /\ place[i] <= Cardinality(Placed)'
    BY <1>1, PlacedStays DEF OrderInv
  <2>2. InPage(i)' <=> InPage(i)
    BY <1>1 DEF InPage
  <2>3. \A d \in Calls : Of(d, i)' => Of(d, i)
    BY DEF Of
  <2>4. made < i => i # call[c].item
    BY <2>1 DEF Fresh, Of
  <2>5. made <= made'
    BY <1>1, <2>1 DEF OrderTypes, Counters
  <2>6. Fresh(i)'
    BY <1>1, <1>2, <2>1, <2>2, <2>3, <2>4, <2>5, FreshStays
  <2>7. applied'[i] > 0 => applied[i] > 0 \/ i \in keyless' \/ Waited(i)'
    BY <1>1, <1>3, <1>4, WaitedStays
  <2>8. Kept(i)'
    BY <1>1, <1>3, <2>1, <2>7, KeptStays
  <2> QED
    BY <2>6, <2>8
<1>6. ASSUME NEW d \in Calls
      PROVE  Asked(d)'
  <2>1. Asked(d)
    BY DEF OrderInv
  <2>2. CASE d # c
    BY <1>1, <1>3, <2>1, <2>2, AskedStays
  <2>3. CASE d = c
    <3>1. ASSUME call'[c].pc # "idle", call'[c].item \notin keyless'
          PROVE  Waited(call[c].item)'
      <4>1. Waited(call[c].item)
        BY <1>1, <1>4, <3>1
      <4>2. PICK k \in Items : k = call[c].item /\ k = call'[c].item
        BY <1>4, <3>1
      <4>3. Waited(k)'
        BY <1>1, <1>3, <4>1, <4>2, WaitedStays
      <4> QED
        BY <4>2, <4>3
    <3> QED
      BY <2>3, <3>1 DEF Asked
  <2> QED
    BY <2>2, <2>3
<1>7. ASSUME NEW p \in Pages
      PROVE  Sending(p)'
  <2>1. Sending(p) /\ waits'[p] = waits[p] /\ (waits[p] # None => waits[p] \in Calls)
    BY <1>1 DEF OrderInv, OrderTypes
  <2>2. waits[p] = c => call'[c].pc # "idle" /\ call'[c].item = call[c].item
    BY DEF Awaited
  <2>3. waits'[p] # None =>
          page[p] # <<>> /\ call'[waits'[p]].pc # "idle"
            /\ call'[waits'[p]].item = Head(page[p]).item
    BY <2>1, <2>2 DEF Sending
  <2> QED
    BY <1>1, <1>3, <2>1, <2>3, SendingStays
<1> QED
  BY <1>2, <1>5, <1>6, <1>7 DEF OrderInv

LEMMA ReplyShape ==
  ASSUME OutboxTypes, NEW c \in Calls, NEW status, NEW chore, Replies(c, status, chore)
  PROVE  /\ \A d \in Calls : d # c => call'[d] = call[d]
         /\ call'[c].pc = "replied" /\ call'[c].item = call[c].item
         /\ call'[c].status = status /\ call'[c].chore \in {chore, None}
  BY DEF OutboxTypes, Replies

EffectShape(c) ==
  /\ applied' \in [Items -> Nat] /\ applied'[call[c].item] > 0
  /\ \A i \in Items : /\ i # call[c].item => applied'[i] = applied[i]
                      /\ applied[i] > 0 => applied'[i] > 0

LEMMA EffectCounts ==
  ASSUME applied \in [Items -> Nat], NEW c \in Calls, call[c].item \in Items, Effect(c)
  PROVE  EffectShape(c)
  BY DEF Effect, EffectShape

LEMMA HandleShape ==
  ASSUME LedgerTypeOK, NEW c \in Calls, Handle(c)
  PROVE  /\ post[c].pc \notin {"idle", "answered"}
         /\ \A d \in Calls : d # c => post'[d] = post[d]
         /\ post'[c].pc # "idle"
         /\ post'[c].pc = "answered" => post'[c].status # 0
<1>1. post \in [Calls -> Post]
  BY DEF LedgerTypeOK
<1>2. ASSUME NEW s \in {201, 400, 403, 404, 409}, Answer(c, s)
      PROVE  /\ \A d \in Calls : d # c => post'[d] = post[d]
             /\ post'[c].pc = "answered" /\ post'[c].status # 0
  BY <1>1, <1>2 DEF Answer
<1>3. ASSUME NEW pc \in {"lock", "locked"}, Goto(c, pc)
      PROVE  (\A d \in Calls : d # c => post'[d] = post[d]) /\ post'[c].pc = pc
  BY <1>1, <1>3 DEF Goto, Post
<1>4. CASE Enroll(c)
  BY <1>2, <1>4 DEF Enroll
<1>5. CASE CheckOrder(c)
  BY <1>2, <1>3, <1>5 DEF CheckOrder
<1>6. CASE LockAccount(c)
  BY <1>2, <1>3, <1>6 DEF LockAccount
<1>7. CASE SumPoints(c)
  BY <1>1, <1>2, <1>7 DEF SumPoints
<1>8. CASE InsertRow(c)
  BY <1>2, <1>8 DEF InsertRow
<1> QED
  BY <1>4, <1>5, <1>6, <1>7, <1>8 DEF Handle

LEMMA CallOrder ==
  ASSUME OutboxTypes, LedgerTypeOK, OrderInv, NEW c \in Calls,
         CallStep(c) \/ EndCall(c) \/ HandlerFails(c) \/ ApiDies(c) \/ KeyNotSettled(c)
  PROVE  OrderInv'
<1> DEFINE k == call[c].item
<1>0. /\ Answered(c) /\ (call[c].pc # "idle" => k \in Items)
      /\ key \in [Items -> Keys] /\ applied \in [Items -> Nat]
      /\ call \in [Calls -> Request] /\ post \in [Calls -> Post]
      /\ None \notin {"record", "forget"}
  BY DistinctAssumption
     DEF OrderInv, OrderTypes, Counters, Asked, OutboxTypes, LedgerTypeOK
<1>1. CASE Claim(c)
  <2>1. /\ call[c].pc = "claim" /\ UNCHANGED <<device, keyless, parked, post, applied>>
        /\ key' = [key EXCEPT ![k] = IF @ = None THEN "in flight" ELSE @]
        /\ call' = [call EXCEPT ![c].pc = IF key[k] = None THEN "enter" ELSE "look"]
    BY <1>1 DEF Claim, ledgerVars, history
  <2>2. /\ \A d \in Calls : d # c => call'[d] = call[d]
        /\ call'[c].pc \in {"enter", "look"} /\ call'[c].item = k /\ call'[c].chore = call[c].chore
    BY <1>0, <2>1 DEF Request
  <2>3. key' \in [Items -> Keys] /\ \A i \in Items : key'[i] = "recorded" => key[i] = "recorded"
    BY <1>0, <2>1 DEF Keys
  <2>4. Answered(c)'
    BY <1>0, <2>1, <2>2 DEF Answered
  <2> QED
    BY <1>0, <2>1, <2>2, <2>3, <2>4, RequestOrder
<1>2. CASE Look(c)
  <2>1. call[c].pc = "look" /\ UNCHANGED <<device, keyless, parked, post, key, applied>>
    BY <1>2 DEF Look, ledgerVars, history
  <2>2. CASE Replies(c, 409, None)
    <3>1. Answered(c)'
      BY <1>0, <2>1, <2>2, ReplyShape DEF Answered
    <3> QED
      BY <1>0, <2>1, <2>2, <3>1, ReplyShape, RequestOrder
  <2>3. CASE key[k] = "recorded" /\ Replies(c, 201, None)
    <3>1. applied[k] > 0
      BY <1>0, <2>1, <2>3 DEF OrderInv, Kept
    <3>2. Answered(c)'
      BY <1>0, <2>1, <2>3, <3>1, ReplyShape DEF Answered
    <3> QED
      BY <1>0, <2>1, <2>3, <3>2, ReplyShape, RequestOrder
  <2>4. CASE call' = [call EXCEPT ![c].pc = "enter"]
    <3>1. /\ \A d \in Calls : d # c => call'[d] = call[d]
          /\ call'[c].pc = "enter" /\ call'[c].item = k /\ call'[c].chore = call[c].chore
      BY <1>0, <2>4 DEF Request
    <3>2. Answered(c)'
      BY <1>0, <2>1, <3>1 DEF Answered
    <3> QED
      BY <1>0, <2>1, <3>1, <3>2, RequestOrder
  <2> QED
    BY <1>2, <2>2, <2>3, <2>4 DEF Look
<1>3. CASE Create(c)
  <2>1. /\ call[c].pc = "enter" /\ UNCHANGED <<device, keyless, parked, post, key>>
        /\ applied' = [applied EXCEPT ![k] = @ + 1] /\ Replies(c, 201, "record")
    BY <1>3 DEF Create, Effect, ledgerVars, history
  <2>2. Effect(c)
    BY <1>3 DEF Create
  <2>3. EffectShape(c)
    BY <1>0, <2>1, <2>2, EffectCounts
  <2>4. Answered(c)'
    BY <1>0, <2>1, <2>3, ReplyShape DEF Answered, EffectShape
  <2> QED
    BY <1>0, <2>1, <2>3, <2>4, ReplyShape, RequestOrder DEF EffectShape
<1>4. CASE EnterLedger(c)
  <2>1. call[c].pc = "enter" /\ UNCHANGED <<device, keyless, parked, applied, key>>
    BY <1>4 DEF EnterLedger, history
  <2>2. /\ \A d \in Calls : d # c => call'[d] = call[d] /\ post'[d] = post[d]
        /\ call'[c].pc = "run" /\ call'[c].item = k /\ call'[c].chore = call[c].chore
        /\ post'[c].pc \in {"enroll", "open"} /\ post'[c].status = 0
    BY <1>0, <1>4 DEF EnterLedger, Enter, Request
  <2>3. Answered(c)'
    BY <1>0, <2>1, <2>2 DEF Answered
  <2> QED
    BY <1>0, <2>1, <2>2, <2>3, RequestOrder
<1>5. CASE LedgerStep(c)
  <2>1. UNCHANGED <<device, keyless, parked, call, key>>
    BY <1>5 DEF LedgerStep, history
  <2>2. /\ post[c].pc \notin {"idle", "answered"} /\ \A d \in Calls : d # c => post'[d] = post[d]
        /\ post'[c].pc # "idle"
        /\ post'[c].pc = "answered" => post'[c].status # 0
    BY <1>5, HandleShape DEF LedgerStep
  <2>3. call[c].pc = "run" /\ k \in Items
    BY <1>0, <2>2 DEF Answered
  <2>4. EffectShape(c) \/ applied' = applied
    BY <1>0, <1>5, <2>3, EffectCounts DEF LedgerStep
  <2>5. post'[c].status = 201 => applied'[k] > 0
    <3>1. post'[c].status = 201 => Effect(c)
      BY <1>5 DEF LedgerStep
    <3> QED
      BY <1>0, <2>3, <3>1, EffectCounts DEF EffectShape
  <2>6. /\ applied' \in [Items -> Nat]
        /\ \A i \in Items : /\ i # k => applied'[i] = applied[i]
                            /\ applied[i] > 0 => applied'[i] > 0
    BY <1>0, <2>4 DEF EffectShape
  <2>7. Answered(c)'
    BY <1>0, <2>1, <2>2, <2>3, <2>5, <2>6 DEF Answered
  <2> QED
    BY <1>0, <2>1, <2>2, <2>3, <2>6, <2>7, RequestOrder
<1>6. CASE LedgerAnswers(c)
  <2> DEFINE s == post[c].status
  <2>1. /\ call[c].pc = "run" /\ post[c].pc = "answered" /\ Leave(c)
        /\ Replies(c, s, IF s < 300 THEN "record" ELSE "forget")
        /\ UNCHANGED <<device, keyless, parked, key, applied>>
    BY <1>6 DEF LedgerAnswers, history
  <2>2. /\ \A d \in Calls : d # c => post'[d] = post[d]
        /\ post'[c].pc = "idle" /\ post'[c].status = 0
    BY <1>0, <2>1 DEF Leave, IdlePost
  <2>3. s < 300 => applied[k] > 0
    <3>1. s \in {0, 201, 400, 403, 404, 409, 500}
      BY <1>0 DEF Post
    <3>2. s < 300 => s = 201
      BY <1>0, <2>1, <3>1 DEF Answered
    <3> QED
      BY <1>0, <3>2 DEF Answered
  <2>4. /\ call'[c].pc = "replied" /\ call'[c].item = k /\ call'[c].status = s
        /\ call'[c].chore = "record" => s < 300
        /\ \A d \in Calls : d # c => call'[d] = call[d]
    BY <1>0, <2>1, ReplyShape
  <2>5. Answered(c)'
    BY <2>1, <2>2, <2>3, <2>4 DEF Answered
  <2> QED
    BY <1>0, <2>1, <2>2, <2>4, <2>5, RequestOrder
<1>7. CASE SettleKey(c) \/ KeyNotSettled(c)
  <2>1. /\ call[c].chore # None /\ UNCHANGED <<device, keyless, parked, post, applied>>
        /\ call' = [call EXCEPT ![c].chore = None]
        /\ \/ key' = key
           \/ key' = [key EXCEPT ![k] = IF call[c].chore = "record" THEN "recorded" ELSE None]
    BY <1>7 DEF SettleKey, KeyNotSettled, ledgerVars, history
  <2>2. call[c].pc # "idle"
    BY <1>0, <2>1 DEF Answered
  <2>3. /\ \A d \in Calls : d # c => call'[d] = call[d]
        /\ call'[c].pc = call[c].pc /\ call'[c].item = k /\ call'[c].chore = None
        /\ call'[c].status = call[c].status
    BY <1>0, <2>1 DEF Request
  <2>4. key' \in [Items -> Keys]
    BY <1>0, <2>1, <2>2 DEF Keys
  <2>5. \A i \in Items : key'[i] = "recorded" => key[i] = "recorded" \/ applied'[i] > 0
    BY <1>0, <2>1, <2>2, DistinctAssumption DEF Answered
  <2>6. Answered(c)'
    BY <1>0, <2>1, <2>2, <2>3 DEF Answered
  <2> QED
    BY <1>0, <2>1, <2>2, <2>3, <2>4, <2>5, <2>6, RequestOrder
<1>8. CASE EndCall(c)
  <2>1. /\ ~ Awaited(c) /\ call[c].pc \in {"replied", "claim", "enter"}
        /\ call' = [call EXCEPT ![c] = IdleCall]
        /\ UNCHANGED <<device, keyless, parked, post, key, applied>>
    BY <1>8 DEF EndCall, Underway, ledgerVars, history
  <2>2. /\ \A d \in Calls : d # c => call'[d] = call[d]
        /\ call'[c].pc = "idle" /\ call'[c].chore = None
    BY <1>0, <2>1 DEF IdleCall
  <2>3. post[c].pc = "idle" /\ post[c].status = 0
    BY <1>0, <2>1 DEF Answered
  <2>4. Answered(c)'
    BY <1>0, <2>1, <2>2, <2>3 DEF Answered
  <2> QED
    BY <1>0, <2>1, <2>2, <2>4, RequestOrder
<1>9. CASE HandlerFails(c)
  <2>1. UNCHANGED <<device, keyless, parked, key>>
    BY <1>9 DEF HandlerFails, history
  <2>2. CASE Abort(c) /\ UNCHANGED <<call, applied>>
    <3>1. /\ post[c].pc # "idle" /\ \A d \in Calls : d # c => post'[d] = post[d]
          /\ post'[c].pc = "answered" /\ post'[c].status = 500
      BY <1>0, <2>2 DEF Abort, Answer
    <3>2. call[c].pc = "run"
      BY <1>0, <3>1 DEF Answered
    <3>3. Answered(c)'
      BY <1>0, <2>2, <3>1, <3>2 DEF Answered
    <3> QED
      BY <1>0, <2>1, <2>2, <3>1, <3>2, <3>3, RequestOrder
  <2>3. CASE /\ call[c].pc = "enter" /\ Replies(c, 500, "forget") /\ UNCHANGED ledgerVars
             /\ Effect(c) \/ UNCHANGED applied
    <3>1. post' = post
      BY <2>3 DEF ledgerVars
    <3>2. EffectShape(c) \/ applied' = applied
      BY <1>0, <2>3, EffectCounts
    <3>3. /\ applied' \in [Items -> Nat]
          /\ \A i \in Items : /\ i # k => applied'[i] = applied[i]
                              /\ applied[i] > 0 => applied'[i] > 0
      BY <1>0, <3>2 DEF EffectShape
    <3>4. /\ call'[c].pc = "replied" /\ call'[c].item = k /\ call'[c].status = 500
          /\ call'[c].chore # "record"
          /\ \A d \in Calls : d # c => call'[d] = call[d]
      BY <1>0, <2>3, ReplyShape
    <3>5. Answered(c)'
      BY <1>0, <2>3, <3>1, <3>4 DEF Answered
    <3> QED
      BY <1>0, <2>1, <2>3, <3>1, <3>3, <3>4, <3>5, RequestOrder
  <2> QED
    BY <1>9, <2>2, <2>3 DEF HandlerFails
<1>10. CASE ApiDies(c)
  <2>1. /\ call[c].pc # "idle" /\ UNCHANGED <<device, keyless, parked, key, applied>>
        /\ Replies(c, 502, None) \/ Replies(c, 401, None)
    BY <1>10 DEF ApiDies, history
  <2>2. /\ \A d \in Calls : d # c => post'[d] = post[d]
        /\ post'[c].pc = "idle" /\ post'[c].status = 0
    <3>1. CASE post[c].pc = "idle"
      BY <1>0, <1>10, <3>1 DEF ApiDies, ledgerVars, Answered
    <3>2. CASE post[c].pc # "idle"
      BY <1>0, <1>10, <3>2 DEF ApiDies, Leave, IdlePost
    <3> QED
      BY <3>1, <3>2
  <2>3. /\ call'[c].pc = "replied" /\ call'[c].item = k /\ call'[c].status \in {401, 502}
        /\ call'[c].chore # "record"
        /\ \A d \in Calls : d # c => call'[d] = call[d]
    BY <1>0, <2>1, ReplyShape
  <2>4. Answered(c)'
    BY <2>2, <2>3 DEF Answered
  <2> QED
    BY <1>0, <2>1, <2>2, <2>3, <2>4, RequestOrder
<1>11. CASE RefuseCreate(c)
  <2>1. /\ call[c].pc = "enter" /\ UNCHANGED <<device, keyless, parked, post, key, applied>>
        /\ Replies(c, 400, "forget")
    BY <1>11 DEF RefuseCreate, ledgerVars, history
  <2>2. Answered(c)'
    BY <1>0, <2>1, ReplyShape DEF Answered
  <2> QED
    BY <1>0, <2>1, <2>2, ReplyShape, RequestOrder
<1> QED
  BY <1>1, <1>2, <1>3, <1>4, <1>5, <1>6, <1>7, <1>8, <1>9, <1>10, <1>11 DEF CallStep

LEMMA OrderStep ==
  ASSUME OutboxTypes, LedgerTypeOK, OrderInv, [Next]_vars
  PROVE  OrderInv'
<1>1. CASE Next
  <2>1. CASE Act
    BY <2>1, ActOrder
  <2>2. CASE \/ ConnectionChanges
             \/ \E i \in Items : FirstFetchThrows(i) \/ FirstFetchAnswered(i) \/ Discard(i) \/ Expire(i)
    BY <2>2, UserOrder
  <2>3. CASE \E p \in Pages : PageStep(p) \/ ReplayThrows(p)
    BY <2>3, PageOrder
  <2>4. CASE \E c \in Calls : \/ CallStep(c) \/ EndCall(c) \/ HandlerFails(c) \/ ApiDies(c)
                             \/ KeyNotSettled(c)
    BY <2>4, CallOrder
  <2> QED
    BY <1>1, <2>1, <2>2, <2>3, <2>4 DEF Next
<1>2. CASE UNCHANGED vars
  <2>1. UNCHANGED <<place, call, post, applied, made, key, keyless, parked, waits, box, page>>
    BY <1>2 DEF vars, device, history, ledgerVars
  <2>2. OrderTypes'
    BY <2>1 DEF OrderInv, OrderTypes, Counters
  <2>3. \A i \in Items : InPage(i)' <=> InPage(i)
    BY <2>1 DEF InPage
  <2>4. \A p \in Pages : Sending(p)'
    BY <2>1, SendingQuiet
  <2> QED
    BY <2>1, <2>2, <2>3, <2>4, QuietOrder
<1> QED
  BY <1>1, <1>2

(* What was queued stays queued until it was applied or given up, and      *)
(* nothing queued behind it is applied before that, whatever fails         *)
(* (outbox.ts:117-160).                                                    *)
THEOREM WritesKeptInOrder == Spec => []KeptInOrder
<1>1. Init => OutboxTypes /\ LedgerInv /\ OrderInv
  BY InitInv, InitTypes, InitOrder DEF Init
<1>2. OutboxTypes /\ LedgerInv /\ OrderInv /\ [Next]_vars => (OutboxTypes /\ LedgerInv /\ OrderInv)'
  BY OutboxStep, OrderStep DEF LedgerInv
<1>3. OrderInv => KeptInOrder
  <2> SUFFICES ASSUME OrderInv, NEW i \in Items, place[i] > 0, applied[i] = 0, i \notin parked
               PROVE  /\ box[i] # None
                      /\ \A j \in Items : place[i] < place[j] /\ j \notin keyless => applied[j] = 0
    BY DEF KeptInOrder
  <2>1. ~ Done(i)
    BY DEF Done
  <2>2. box[i] # None
    BY <2>1 DEF OrderInv, Kept
  <2>3. ASSUME NEW j \in Items, place[i] < place[j], j \notin keyless
        PROVE  applied[j] = 0
    <3>1. ~ Waited(j)
      BY <2>1, <2>3 DEF Waited, Before
    <3>2. ~ (applied[j] > 0)
      BY <2>3, <3>1 DEF OrderInv, Kept
    <3>3. applied[j] \in Nat
      BY DEF OrderInv, OrderTypes, Counters
    <3> QED
      BY <3>2, <3>3
  <2> QED
    BY <2>2, <2>3
<1> QED
  BY <1>1, <1>2, <1>3, PTL DEF Spec
=============================================================================
