---------------------------- MODULE OfflineOutbox ---------------------------
(***************************************************************************)
(* A mutation on its way from a phone that loses its connection: the fetch *)
(* that queues it (apiFetch of the CRM pages), the outbox in IndexedDB     *)
(* that every open page replays (outbox.ts), the route handlers in between *)
(* (app/api), and the interceptor that is to make a replay safe            *)
(* (idempotency.interceptor.ts).                                           *)
(*                                                                         *)
(* Behind it stand the loyalty endpoints of LoyaltyLedger, whose route     *)
(* handlers do not relay the Idempotency-Key, and "create", which stands   *)
(* for a POST or PATCH under /api/crm whose handler does.                  *)
(***************************************************************************)
EXTENDS LoyaltyLedger, Sequences

CONSTANTS
  Items,       \* what the user does, numbered in that order
  Plans,       \* what those things may be: the order of each item
  Pages,       \* open pages of the application
  MaxAttempts, \* MAX_ATTEMPTS
  MaxSnags,    \* bound: connections lost and writes refused
  MaxFaults    \* bound: failures of the server

ASSUME OutboxAssumption ==
  /\ Items \subseteq Nat /\ IsFiniteSet(Items) /\ Plans \subseteq [Items -> Orders]
  /\ MaxAttempts \in Nat \ {0} /\ MaxSnags \in Nat /\ MaxFaults \in Nat

ASSUME DistinctAssumption ==
  /\ None \notin {"in flight", "recorded", "record", "forget"}
  /\ None \notin Calls /\ None \notin Nat /\ Pages \cap Items = {}

VARIABLES
  wanted,    \* the order each item is, fixed
  online,    \* navigator.onLine
  made,      \* items the user has got to
  box,       \* the outbox: attempts of each item, or None
  place,     \* createdAt of each item's entry; 0 if it was never queued
  page,      \* what each page's flush still has to send: [item, attempts]
  waits,     \* the call each page, or the first fetch of each item, awaits
  call,      \* requests on their way through the interceptor
  key,       \* Redis: None, "in flight" or "recorded"
  snags, faults,
  applied,   \* history: how often each item took effect
  keyless,   \* history: items queued after a first request without a key
  parked,    \* history: items given up
  unclaimed  \* history: items run for a request that does not hold their key

device  == <<wanted, online, made, box, place, page, waits>>
history == <<keyless, parked, unclaimed>>
vars == <<ledgerVars, device, call, key, snags, faults, applied, history>>

IdleCall == [pc |-> "idle", item |-> None, keyed |-> FALSE, status |-> 0, chore |-> None]

Init ==
  /\ LedgerInit
  /\ wanted \in Plans
  /\ online \in BOOLEAN /\ made = 0
  /\ box = [i \in Items |-> None]
  /\ place = [i \in Items |-> 0]
  /\ page = [p \in Pages |-> <<>>]
  /\ waits = [w \in Pages \cup Items |-> None]
  /\ call = [c \in Calls |-> IdleCall]
  /\ key = [i \in Items |-> None]
  /\ snags = 0 /\ faults = 0
  /\ applied = [i \in Items |-> 0]
  /\ keyless = {} /\ parked = {} /\ unclaimed = {}

-----------------------------------------------------------------------------
(* Only app/api/crm/_shared.ts passes the key on.                          *)
Relayed(i) == wanted[i].op = "create"

Awaited(c) == \E w \in Pages \cup Items : waits[w] = c
Free(c) == call[c].pc = "idle"
Send(c, i, keyed) ==
  call' = [call EXCEPT ![c] = [pc |-> IF keyed THEN "claim" ELSE "enter", item |-> i,
                               keyed |-> keyed, status |-> 0, chore |-> None]]

Snag == snags < MaxSnags /\ snags' = snags + 1

Queued(i) ==
  /\ box' = [box EXCEPT ![i] = 0]
  /\ place' = [place EXCEPT ![i] = 1 + Cardinality({j \in Items : place[j] > 0})]

(* apiFetch: the first request carries no key; without a network it fails  *)
(* at once.                                                                *)
Act ==
  LET i == made + 1 IN
  /\ i \in Items /\ made' = i
  /\ IF online
     THEN /\ \E c \in Calls : Free(c) /\ Send(c, i, FALSE) /\ waits' = [waits EXCEPT ![i] = c]
          /\ UNCHANGED <<box, place>>
     ELSE Queued(i) /\ UNCHANGED <<call, waits>>
  /\ UNCHANGED <<ledgerVars, wanted, online, page, key, snags, faults, applied, history>>

(* The first fetch throws: queued if the device is offline, and an error   *)
(* shown to the user otherwise.                                            *)
FirstFetchThrows(i) ==
  /\ waits[i] # None
  /\ waits' = [waits EXCEPT ![i] = None]
  /\ IF online THEN Snag /\ UNCHANGED <<box, place, keyless>>
     ELSE Queued(i) /\ keyless' = keyless \cup {i} /\ UNCHANGED snags
  /\ UNCHANGED <<ledgerVars, wanted, online, made, page, call, key, faults, applied, parked, unclaimed>>

FirstFetchAnswered(i) ==
  /\ waits[i] # None /\ online /\ call[waits[i]].pc = "replied"
  /\ waits' = [waits EXCEPT ![i] = None]
  /\ UNCHANGED <<ledgerVars, wanted, online, made, box, place, page, call, key, snags, faults, applied,
                 history>>

ConnectionChanges ==
  /\ online' = ~ online
  /\ IF online THEN Snag ELSE UNCHANGED snags
  /\ UNCHANGED <<ledgerVars, wanted, made, box, place, page, waits, call, key, faults, applied, history>>

-----------------------------------------------------------------------------
(* flushOutbox, once per page; nothing keeps two pages from flushing.      *)

InBox == {i \in Items : box[i] # None}
(* listQueued: the entries, oldest first.                                  *)
Snapshot == {q \in [1 .. Cardinality(InBox) -> InBox] :
               \A m, n \in DOMAIN q : m < n => place[q[m]] < place[q[n]]}

BeginFlush(p) ==
  /\ page[p] = <<>> /\ online /\ InBox # {}
  /\ \E q \in Snapshot :
       page' = [page EXCEPT ![p] = [n \in DOMAIN q |-> [item |-> q[n], attempts |-> box[q[n]]]]]
  /\ UNCHANGED <<ledgerVars, wanted, online, made, box, place, waits, call, key, snags, faults, applied,
                 history>>

SkipParked(p) ==
  /\ page[p] # <<>> /\ waits[p] = None /\ Head(page[p]).attempts >= MaxAttempts
  /\ page' = [page EXCEPT ![p] = Tail(@)]
  /\ UNCHANGED <<ledgerVars, wanted, online, made, box, place, waits, call, key, snags, faults, applied,
                 history>>

Replay(p) ==
  /\ page[p] # <<>> /\ waits[p] = None /\ Head(page[p]).attempts < MaxAttempts
  /\ \E c \in Calls :
       /\ Free(c)
       /\ Send(c, Head(page[p]).item, Relayed(Head(page[p]).item))
       /\ waits' = [waits EXCEPT ![p] = c]
  /\ UNCHANGED <<ledgerVars, wanted, online, made, box, place, page, key, snags, faults, applied, history>>

(* The fetch throws; so it does when the page is closed.                   *)
ReplayThrows(p) ==
  /\ waits[p] # None
  /\ IF online THEN Snag ELSE UNCHANGED snags
  /\ waits' = [waits EXCEPT ![p] = None]
  /\ page' = [page EXCEPT ![p] = <<>>]
  /\ UNCHANGED <<ledgerVars, wanted, online, made, box, place, call, key, faults, applied, history>>

(* put writes the whole entry, and brings back one that is gone.           *)
Put(i, attempts) ==
  /\ box' = [box EXCEPT ![i] = attempts]
  /\ parked' = IF attempts >= MaxAttempts THEN parked \cup {i} ELSE parked

(* Fault: a 409 is skipped like a refusal on the merits.                   *)
TakeAnswerOn(p) ==
  LET i == Head(page[p]).item  s == call[waits[p]].status IN
  /\ page[p] # <<>> /\ waits[p] # None /\ online /\ call[waits[p]].pc = "replied"
  /\ waits' = [waits EXCEPT ![p] = None]
  /\ IF s < 300 THEN box' = [box EXCEPT ![i] = None] /\ UNCHANGED parked
     ELSE IF s = 409 THEN UNCHANGED <<box, parked>>
     ELSE Put(i, IF s < 500 THEN MaxAttempts ELSE Head(page[p]).attempts + 1)
  /\ page' = [page EXCEPT ![p] = IF s >= 500 THEN <<>> ELSE Tail(@)]
  /\ UNCHANGED <<ledgerVars, wanted, online, made, place, call, key, snags, faults, applied, keyless,
                 unclaimed>>

TakeAnswer(p) ==
  LET i == Head(page[p]).item  s == call[waits[p]].status IN
  /\ page[p] # <<>> /\ waits[p] # None /\ online /\ call[waits[p]].pc = "replied"
  /\ waits' = [waits EXCEPT ![p] = None]
  /\ IF s < 300 THEN box' = [box EXCEPT ![i] = None] /\ UNCHANGED parked
     ELSE IF s = 409 THEN UNCHANGED <<box, parked>>
     ELSE Put(i, IF s < 500 THEN MaxAttempts ELSE Head(page[p]).attempts + 1)
  /\ page' = [page EXCEPT ![p] = IF s = 409 \/ s >= 500 THEN <<>> ELSE Tail(@)]
  /\ UNCHANGED <<ledgerVars, wanted, online, made, place, call, key, snags, faults, applied, keyless,
                 unclaimed>>

Discard(i) ==
  /\ box[i] # None /\ box[i] >= MaxAttempts
  /\ box' = [box EXCEPT ![i] = None]
  /\ UNCHANGED <<ledgerVars, wanted, online, made, place, page, waits, call, key, snags, faults, applied,
                 history>>

-----------------------------------------------------------------------------
(* The interceptor.  What it does to the key afterwards it does not wait   *)
(* for.                                                                    *)

Replies(c, status, chore) ==
  call' = [call EXCEPT ![c] = [pc |-> "replied", item |-> @.item, keyed |-> @.keyed,
                               status |-> status, chore |-> IF @.keyed THEN chore ELSE None]]

(* Fault: GET, and SET after it whatever it found.                         *)
GetFirst(c) ==
  LET i == call[c].item IN
  /\ call[c].pc = "claim"
  /\ call' = [call EXCEPT ![c].pc = IF key[i] = None THEN "enter" ELSE "look"]
  /\ UNCHANGED <<ledgerVars, device, key, snags, faults, applied, history>>

(* SET NX.                                                                 *)
Claim(c) ==
  LET i == call[c].item IN
  /\ call[c].pc = "claim"
  /\ key' = [key EXCEPT ![i] = IF @ = None THEN "in flight" ELSE @]
  /\ call' = [call EXCEPT ![c].pc = IF key[i] = None THEN "enter" ELSE "look"]
  /\ UNCHANGED <<ledgerVars, device, snags, faults, applied, history>>

(* GET: the key may have gone in the meantime, because a day was over or   *)
(* its request was refused.  The handler is run, the key not claimed.      *)
Look(c) ==
  LET i == call[c].item IN
  /\ call[c].pc = "look"
  /\ CASE key[i] = "in flight" -> Replies(c, 409, None) /\ UNCHANGED unclaimed
       [] key[i] = "recorded"  -> Replies(c, 201, None) /\ UNCHANGED unclaimed
       [] OTHER                -> /\ call' = [call EXCEPT ![c].pc = "enter"]
                                  /\ unclaimed' = unclaimed \cup {i}
  /\ UNCHANGED <<ledgerVars, device, key, snags, faults, applied, keyless, parked>>

Effect(c) == applied' = [applied EXCEPT ![call[c].item] = @ + 1]

Create(c) ==
  /\ call[c].pc = "enter" /\ Relayed(call[c].item)
  /\ Effect(c) /\ Replies(c, 201, "record")
  /\ UNCHANGED <<ledgerVars, device, key, snags, faults, history>>

(* Refused on its merits, as things stand.                                 *)
RefuseCreate(c) ==
  /\ call[c].pc = "enter" /\ Relayed(call[c].item)
  /\ Snag
  /\ Replies(c, 400, "forget")
  /\ UNCHANGED <<ledgerVars, device, key, faults, applied, history>>

EnterLedger(c) ==
  /\ call[c].pc = "enter" /\ Enter(c, wanted[call[c].item])
  /\ call' = [call EXCEPT ![c].pc = "run"]
  /\ UNCHANGED <<device, key, snags, faults, applied, history>>

LedgerStep(c) ==
  /\ Handle(c)
  /\ IF post'[c].status = 201 THEN Effect(c) ELSE UNCHANGED applied
  /\ UNCHANGED <<device, call, key, snags, faults, history>>

LedgerAnswers(c) ==
  /\ call[c].pc = "run" /\ post[c].pc = "answered" /\ Leave(c)
  /\ Replies(c, post[c].status, IF post[c].status < 300 THEN "record" ELSE "forget")
  /\ UNCHANGED <<device, key, snags, faults, applied, history>>

(* record, which overwrites, and del, whoever holds the key by now.        *)
SettleKey(c) ==
  /\ call[c].chore # None
  /\ key' = [key EXCEPT ![call[c].item] = IF call[c].chore = "record" THEN "recorded" ELSE None]
  /\ call' = [call EXCEPT ![c].chore = None]
  /\ UNCHANGED <<ledgerVars, device, snags, faults, applied, history>>

(* Not yet received by the API.                                            *)
Underway(c) == call[c].pc = IF call[c].keyed THEN "claim" ELSE "enter"

(* The request is over; one nobody awaits any more may never have arrived. *)
EndCall(c) ==
  /\ ~ Awaited(c) /\ call[c].chore = None
  /\ call[c].pc = "replied" \/ Underway(c)
  /\ call' = [call EXCEPT ![c] = IdleCall]
  /\ UNCHANGED <<ledgerVars, device, key, snags, faults, applied, history>>

-----------------------------------------------------------------------------
(* What may go wrong on the server.                                        *)

Fails == faults < MaxFaults /\ faults' = faults + 1

(* A day goes by.                                                          *)
Expire(i) ==
  /\ Fails /\ key[i] # None
  /\ key' = [key EXCEPT ![i] = None]
  /\ UNCHANGED <<ledgerVars, device, call, snags, applied, history>>

(* An error before the handler commits, or after it did.                   *)
HandlerFails(c) ==
  /\ Fails
  /\ \/ Abort(c) /\ UNCHANGED <<call, applied>>
     \/ /\ call[c].pc = "enter" /\ Relayed(call[c].item)
        /\ Replies(c, 500, "forget") /\ (Effect(c) \/ UNCHANGED applied)
        /\ UNCHANGED ledgerVars
  /\ UNCHANGED <<device, key, snags, history>>

(* The API dies: the route handler answers 502.  A session that has ended  *)
(* it answers with 401 without asking the API.                             *)
ApiDies(c) ==
  /\ Fails /\ call[c].pc \in {"claim", "look", "enter", "run"}
  /\ IF post[c].pc = "idle" THEN UNCHANGED ledgerVars ELSE Leave(c)
  /\ \/ Replies(c, 502, None)
     \/ Underway(c) /\ Replies(c, 401, None)
  /\ UNCHANGED <<device, key, snags, applied, history>>

(* Redis refuses the record; the error is logged.                          *)
KeyNotSettled(c) ==
  /\ Fails /\ call[c].chore # None
  /\ call' = [call EXCEPT ![c].chore = None]
  /\ UNCHANGED <<ledgerVars, device, key, snags, applied, history>>

-----------------------------------------------------------------------------
PageStep(p) == BeginFlush(p) \/ SkipParked(p) \/ Replay(p) \/ TakeAnswer(p)
CallStep(c) ==
  \/ Claim(c) \/ Look(c) \/ Create(c) \/ RefuseCreate(c)
  \/ EnterLedger(c) \/ LedgerStep(c) \/ LedgerAnswers(c) \/ SettleKey(c)

Next ==
  \/ Act \/ ConnectionChanges
  \/ \E i \in Items : FirstFetchThrows(i) \/ FirstFetchAnswered(i) \/ Discard(i) \/ Expire(i)
  \/ \E p \in Pages : PageStep(p) \/ ReplayThrows(p)
  \/ \E c \in Calls : CallStep(c) \/ EndCall(c) \/ HandlerFails(c) \/ ApiDies(c) \/ KeyNotSettled(c)

Spec == Init /\ [][Next]_vars

-----------------------------------------------------------------------------
(* A mutation is applied once, however often it is replayed and from how   *)
(* many pages, unless the first request of all went out without a key and  *)
(* its answer was lost, its route does not relay the key, the server       *)
(* failed, or a replay found the key gone as another had been refused: it  *)
(* then runs without a claim, contrary to idempotency.interceptor.ts:20-23 *)
(* ("returns that recorded response WITHOUT re-running the handler").      *)
AppliedOnce ==
  faults = 0 => \A i \in Items :
    applied[i] > 1 => ~ Relayed(i) \/ i \in keyless \/ i \in unclaimed

(* What was queued stays queued until it was applied or given up, and      *)
(* nothing behind it is applied before that, whatever pages flush at once. *)
KeptInOrder ==
  \A i \in Items : place[i] > 0 /\ applied[i] = 0 /\ i \notin parked =>
    /\ box[i] # None
    /\ \A j \in Items : place[i] < place[j] /\ j \notin keyless => applied[j] = 0

(* A replay does not duplicate what it repeats: "without the key,          *)
(* replaying that duplicates the record" (outbox.ts:30).                   *)
ReplaySafe == \A i \in Items : applied[i] <= 1
=============================================================================
