--------------------------- MODULE LoyaltyLedger ----------------------------
(***************************************************************************)
(* The loyalty programme (loyalty-accounts.controller.ts): enrolment, and  *)
(* the one way a row enters loyalty_transactions, postLoyaltyTransaction   *)
(* (loyalty-ledger.util.ts), whose transaction locks the account, sums its *)
(* rows and inserts the new one.                                           *)
(*                                                                         *)
(* The balance is nowhere stored: points is what SUM(points) yields over   *)
(* the committed rows.                                                     *)
(***************************************************************************)
EXTENDS Integers, FiniteSets

CONSTANTS
  Calls,      \* requests the API handles at a time
  Accounts,   \* customers' accounts
  Orders,     \* what may be asked for: [op, account, amount, wide]
  Openings,   \* balances to begin with
  Threshold,  \* LARGE_REDEMPTION_POINTS_THRESHOLD
  None        \* a null column

Order == [op : {"enroll", "earn", "redeem", "adjust", "create"}, account : Accounts,
          amount : Int, wide : BOOLEAN]

ASSUME LedgerAssumption ==
  /\ Orders \subseteq Order
  /\ Openings \subseteq Nat
  /\ Threshold \in Nat
  /\ None \notin Order

VARIABLES
  enrolled,   \* loyalty_accounts
  points,     \* SUM(points) of each account's committed rows
  post        \* what the handler of each request is doing

ledgerVars == <<enrolled, points, post>>

IdlePost == [pc |-> "idle", order |-> None, balance |-> 0, status |-> 0]

LedgerInit ==
  /\ enrolled \in SUBSET Accounts
  /\ points \in [Accounts -> Openings \cup {0}]
  /\ \A a \in Accounts : a \notin enrolled => points[a] = 0
  /\ post = [c \in Calls |-> IdlePost]

-----------------------------------------------------------------------------
Abs(n) == IF n < 0 THEN -n ELSE n

(* The controller makes an earning positive and a redemption negative.     *)
Signed(o) == IF o.op = "earn" THEN Abs(o.amount)
             ELSE IF o.op = "redeem" THEN -Abs(o.amount) ELSE o.amount

NeedsAllScope(o) == o.op = "adjust" \/ Signed(o) < -Threshold

Goto(c, pc) == post' = [post EXCEPT ![c].pc = pc]
Answer(c, status) ==
  post' = [post EXCEPT ![c] = [pc |-> "answered", order |-> @.order, balance |-> 0,
                               status |-> status]]

(* A handler is called.                                                    *)
Enter(c, o) ==
  /\ post[c].pc = "idle" /\ o.op # "create"
  /\ post' = [post EXCEPT ![c] = [pc |-> IF o.op = "enroll" THEN "enroll" ELSE "open",
                                  order |-> o, balance |-> 0, status |-> 0]]
  /\ UNCHANGED <<enrolled, points>>

(* One loyalty account for each customer, by a unique index.               *)
Enroll(c) ==
  LET a == post[c].order.account IN
  /\ post[c].pc = "enroll"
  /\ enrolled' = enrolled \cup {a}
  /\ Answer(c, IF a \in enrolled THEN 409 ELSE 201)
  /\ UNCHANGED points

CheckOrder(c) ==
  LET o == post[c].order IN
  /\ post[c].pc = "open"
  /\ IF Signed(o) = 0 THEN Answer(c, 400)
     ELSE IF NeedsAllScope(o) /\ ~ o.wide THEN Answer(c, 403)
     ELSE Goto(c, "lock")
  /\ UNCHANGED <<enrolled, points>>

Holds(c, a) == post[c].pc \in {"locked", "summed"} /\ post[c].order.account = a

(* Fault: the account is looked up without FOR UPDATE.                     *)
FindAccount(c) ==
  LET a == post[c].order.account IN
  /\ post[c].pc = "lock"
  /\ IF a \in enrolled THEN Goto(c, "locked") ELSE Answer(c, 404)
  /\ UNCHANGED <<enrolled, points>>

(* SELECT ... FOR UPDATE of the account.                                   *)
LockAccount(c) ==
  LET a == post[c].order.account IN
  /\ post[c].pc = "lock" /\ \A d \in Calls : ~ Holds(d, a)
  /\ IF a \in enrolled THEN Goto(c, "locked") ELSE Answer(c, 404)
  /\ UNCHANGED <<enrolled, points>>

(* The sum is read after the lock was granted, and refused if too low.     *)
SumPoints(c) ==
  LET o == post[c].order IN
  /\ post[c].pc = "locked"
  /\ IF points[o.account] + Signed(o) < 0 THEN Answer(c, 400)
     ELSE post' = [post EXCEPT ![c] = [pc |-> "summed", order |-> o,
                                       balance |-> points[o.account], status |-> 0]]
  /\ UNCHANGED <<enrolled, points>>

(* The row is inserted and the transaction committed.                      *)
InsertRow(c) ==
  LET o == post[c].order IN
  /\ post[c].pc = "summed"
  /\ points' = [points EXCEPT ![o.account] = @ + Signed(o)]
  /\ Answer(c, 201)
  /\ UNCHANGED enrolled

(* An error before anything was committed: a lost connection, or the five  *)
(* seconds an interactive transaction has.                                 *)
Abort(c) ==
  /\ post[c].pc \in {"enroll", "open", "lock", "locked", "summed"}
  /\ Answer(c, 500)
  /\ UNCHANGED <<enrolled, points>>

(* The handler is over, or its process is.                                 *)
Leave(c) ==
  /\ post[c].pc # "idle"
  /\ post' = [post EXCEPT ![c] = IdlePost]
  /\ UNCHANGED <<enrolled, points>>

Handle(c) == Enroll(c) \/ CheckOrder(c) \/ LockAccount(c) \/ SumPoints(c) \/ InsertRow(c)

LedgerNext ==
  \E c \in Calls :
    Handle(c) \/ Abort(c) \/ Leave(c) \/ \E o \in Orders : Enter(c, o)

LedgerSpec == LedgerInit /\ [][LedgerNext]_ledgerVars

-----------------------------------------------------------------------------
Post == [pc : {"idle", "enroll", "open", "lock", "locked", "summed", "answered"},
         order : Orders \cup {None}, balance : Int,
         status : {0, 201, 400, 403, 404, 409, 500}]

(* Type correctness of the accounts, the sums and the handlers.            *)
LedgerTypeOK ==
  /\ enrolled \subseteq Accounts
  /\ points \in [Accounts -> Int]
  /\ post \in [Calls -> Post]
  /\ \A c \in Calls : post[c].pc # "idle" => post[c].order \in Orders

(* No account is ever in the negative, however many redemptions and        *)
(* corrections of it are posted at once (loyalty-ledger.util.ts:80-96).    *)
NoOverdraft == \A a \in Accounts : points[a] >= 0
=============================================================================
