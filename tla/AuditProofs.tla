----------------------------- MODULE AuditProofs ----------------------------
(***************************************************************************)
(* What the chain of audit rows keeps although ids overtake one another,   *)
(* for any number of transactions, lanes, rows and checkpoints; and what   *)
(* the webhooks that poll the log make of it.                              *)
(*                                                                         *)
(* The argument for the chain: while a transaction holds a lane's lock,    *)
(* the row it hashed onto is still the lane's head, because no other can   *)
(* commit there (OnHead, LockHeld); and a lane's head is always in order   *)
(* (HeadInOrder), because a row that was overtaken lies below what it      *)
(* hashed onto.                                                            *)
(*                                                                         *)
(* That for the webhooks: the rows up to the poll's position each have     *)
(* their delivery or were overtaken, since a row that becomes visible      *)
(* below the position comes after the row at it (Covered, PlacesOK); and a *)
(* job in the queue has one post to spend (Calm).                          *)
(***************************************************************************)
EXTENDS WebhookDelivery, FiniteSetTheorems, WellFoundedInduction, TLAPS

Open(t) == tx[t].pc # "idle"

(* Ids are drawn once, and no row has the id of an open transaction.       *)
Numbered ==
  /\ \A i \in Rows : i <= lastId
  /\ \A t \in Txs : Open(t) => /\ tx[t].id \in Ids /\ tx[t].id <= lastId
                               /\ tx[t].id \notin Rows /\ tx[t].lane \in Lanes
  /\ \A t, u \in Txs : Open(t) /\ Open(u) /\ tx[t].id = tx[u].id => t = u

Chained(t) == tx[t].pc = "chained"
LockHeld == \A t, u \in Txs : Chained(t) /\ Chained(u) /\ tx[t].lane = tx[u].lane => t = u
OnHead == \A t \in Txs : Chained(t) => IsHead(tx[t].prev, tx[t].lane)
HeadInOrder == \A i \in Rows : IsHead(i, log[i].lane) => InOrder(i)

(* Checkpoints are numbered, and what is written down of them is past.     *)
Clock ==
  /\ Now \in Nat /\ Checkpoints = 1 .. Now
  /\ checker \in {0, Now}
  /\ \A t \in Txs : Open(t) => tx[t].began <= Now
  /\ \A i \in Rows : log[i].created <= log[i].committed /\ log[i].committed <= Now

Writers == Numbered /\ LockHeld /\ OnHead
Chains == HeadInOrder /\ ForksExplained /\ PredecessorInOrder /\ SpineIsWhole
AuditInv == AuditTypeOK /\ Clock /\ Writers /\ Chains /\ UnverifiedExplained

-----------------------------------------------------------------------------
LEMMA RowsFinite == Rows \subseteq Ids /\ Cardinality(Rows) \in Nat
<1>1. IsFiniteSet(Ids)
  BY AuditAssumption, FS_Interval DEF Ids
<1> QED
  BY <1>1, FS_Subset, FS_CardinalityType DEF Rows

LEMMA AuditInitInv == AuditInit => AuditInv
<1> SUFFICES ASSUME AuditInit PROVE AuditInv
  OBVIOUS
<1>1. Checkpoints = {} /\ Now = 0
  BY FS_EmptySet DEF AuditInit, Checkpoints, Now
<1>2. Rows = {} /\ \A t \in Txs : tx[t].pc = "idle"
  BY DEF AuditInit, Rows, IdleTx
<1>3. AuditTypeOK
  BY <1>1, AuditAssumption DEF AuditInit, AuditTypeOK, IdleTx, Tx, Checkpoints
<1>4. Clock
  BY <1>1, <1>2 DEF AuditInit, Clock, Open
<1>5. Writers
  BY <1>2 DEF Writers, Numbered, LockHeld, OnHead, Open, Chained
<1>6. Chains
  BY <1>1, <1>2 DEF Chains, HeadInOrder, ForksExplained, PredecessorInOrder, SpineIsWhole
<1>7. UnverifiedExplained
  BY <1>2 DEF UnverifiedExplained
<1> QED
  BY <1>3, <1>4, <1>5, <1>6, <1>7 DEF AuditInv

(* A row that is inserted is the only change to the log: what was there    *)
(* stays, and the lane has its head among the old one and the new row.     *)
LEMMA CommitAddsRow ==
  ASSUME AuditInv, NEW t \in Txs, Commit(t), NEW r, r = tx[t].id
  PROVE  /\ r \in Ids /\ r \in Nat /\ r \notin Rows /\ Rows \subseteq Nat
         /\ Rows' = Rows \cup {r} /\ log' \in [Ids -> Row \cup {None}]
         /\ log'[r].lane = tx[t].lane /\ log'[r].prev = tx[t].prev
         /\ log'[r].created = tx[t].began /\ log'[r].committed = Now
         /\ \A i \in Rows : log'[i] = log[i]
<1> DEFINE row == [lane |-> tx[t].lane, prev |-> tx[t].prev, created |-> tx[t].began,
                   committed |-> Now, place |-> Cardinality(Rows)]
<1>1. r \in Ids /\ r \notin Rows /\ tx[t].lane \in Lanes /\ tx[t] \in Tx
  BY DEF AuditInv, Writers, Numbered, Open, Commit, AuditTypeOK
<1>2. row \in Row
  BY <1>1, RowsFinite DEF Row, Tx, AuditInv, Clock
<1>3. log' = [log EXCEPT ![r] = row]
  BY DEF Commit
<1>4. log \in [Ids -> Row \cup {None}]
  BY DEF AuditInv, AuditTypeOK
<1>a. row.lane = tx[t].lane /\ row.prev = tx[t].prev /\ row.created = tx[t].began
        /\ row.committed = Now
  OBVIOUS
<1> HIDE DEF row
<1>5. log'[r] = row /\ log' \in [Ids -> Row \cup {None}] /\ \A i \in Ids : i # r => log'[i] = log[i]
  BY <1>1, <1>2, <1>3, <1>4
<1>6. row # None
  BY <1>2, AuditAssumption
<1>7. Rows' = Rows \cup {r} /\ \A i \in Rows : log'[i] = log[i]
  BY <1>1, <1>5, <1>6 DEF Rows
<1>8. Ids \subseteq Nat
  BY AuditAssumption DEF Ids
<1> QED
  BY <1>1, <1>5, <1>7, <1>8, <1>a, RowsFinite

(* The new row hangs on the head of its lane.                              *)
LEMMA CommitKeepsChains ==
  ASSUME AuditInv, NEW t \in Txs, Commit(t),
         NEW r, r = tx[t].id, NEW p, p = tx[t].prev, NEW l, l = tx[t].lane
  PROVE  Chains'
<1>1. /\ r \in Nat /\ r \notin Rows /\ Rows' = Rows \cup {r} /\ Rows \subseteq Nat
      /\ log'[r].lane = l /\ log'[r].prev = p
      /\ \A i \in Rows : log'[i] = log[i]
  BY CommitAddsRow
<1>2. IsHead(p, l) /\ None \notin Nat
  BY AuditAssumption DEF AuditInv, Writers, OnHead, Chained, Commit
<1>3. \/ p = None /\ \A i \in Rows : log[i].lane # l
      \/ p \in Rows /\ log[p].lane = l /\ \A i \in Rows : log[i].lane = l => i <= p
  BY <1>2 DEF IsHead, InLane
<1>4. p \in Rows => InOrder(p)
  BY <1>1, <1>2, <1>3 DEF AuditInv, Chains, HeadInOrder
<1>5. \A i \in Rows : InOrder(i)' <=> InOrder(i)
  BY <1>1 DEF InOrder
<1>7. HeadInOrder'
  <2> SUFFICES ASSUME NEW i \in Rows', IsHead(i, log[i].lane)'
               PROVE  InOrder(i)'
    BY DEF HeadInOrder
  <2>1. \A j \in Rows' : log'[j].lane = log'[i].lane => j <= i
    BY <1>1, AuditAssumption DEF IsHead, InLane
  <2>2. CASE i = r
    <3>1. p \in Rows => p \in Nat /\ p # r /\ p \in Rows' /\ log'[p].lane = log[p].lane
      BY <1>1
    <3>2. p \in Rows /\ log[p].lane = l => p <= r
      BY <1>1, <2>1, <2>2, <3>1
    <3>3. p = None \/ p < r
      BY <1>1, <1>3, <3>1, <3>2
    <3> QED
      BY <1>1, <2>2, <3>3 DEF InOrder
  <2>3. CASE i \in Rows
    <3>1. IsHead(i, log[i].lane)
      BY <1>1, <2>1, <2>3 DEF IsHead, InLane
    <3> QED
      BY <1>5, <2>3, <3>1 DEF AuditInv, Chains, HeadInOrder
  <2> QED
    BY <1>1, <2>2, <2>3
<1>8. PredecessorInOrder'
  <2> SUFFICES ASSUME NEW i \in Rows', log'[i].prev # None
               PROVE  log'[i].prev \in Rows' /\ log'[log'[i].prev].lane = log'[i].lane
                      /\ InOrder(log[i].prev)'
    BY DEF PredecessorInOrder, InLane
  <2>1. CASE i = r
    BY <1>1, <1>3, <1>4, <1>5, <2>1
  <2>2. CASE i \in Rows
    <3>1. log[i].prev \in Rows /\ log[log[i].prev].lane = log[i].lane /\ InOrder(log[i].prev)
      BY <1>1, <2>2 DEF AuditInv, Chains, PredecessorInOrder, InLane
    <3> QED
      BY <1>1, <1>5, <2>2, <3>1
  <2> QED
    BY <1>1, <2>1, <2>2
(* Of two rows on p one is r, and the other lies below p.                  *)
<1>9. ForksExplained'
  <2>1. \A i \in Rows : log[i].lane = l /\ log[i].prev = p => p # None /\ i < p
    <3> SUFFICES ASSUME NEW i \in Rows, log[i].lane = l, log[i].prev = p
                 PROVE  p # None /\ i < p
      OBVIOUS
    <3>1. p \in Rows /\ i <= p
      BY <1>3
    <3>2. i # p
      BY <1>1, <1>2, <1>4, <3>1 DEF InOrder
    <3> QED
      BY <1>1, <1>2, <3>1, <3>2
  <2>2. ASSUME NEW i \in Rows, NEW j \in Rows, i # j, log[i].lane = log[j].lane,
               log[i].prev = log[j].prev
        PROVE  log[i].prev # None /\ (i < log[i].prev \/ j < log[i].prev)
    BY <2>2 DEF AuditInv, Chains, ForksExplained
  <2> QED
    BY <1>1, <2>1, <2>2 DEF ForksExplained
<1>10. SpineIsWhole'
  <2>1. ASSUME NEW i \in Rows', NEW j \in Rows', log'[i].lane = log'[j].lane, i < j,
               InOrder(i)', InOrder(j)'
        PROVE  log'[j].prev # None /\ i <= log'[j].prev
    <3>1. CASE j = r
      <4>0. i \in Nat /\ i < r
        BY <1>1, <2>1, <3>1
      <4>1. i \in Rows /\ log[i].lane = l
        BY <1>1, <2>1, <3>1, <4>0
      <4>2. p \in Rows /\ i <= p
        BY <1>3, <4>1
      <4>3. p # None
        BY <1>1, <1>2, <4>2
      <4> QED
        BY <1>1, <3>1, <4>2, <4>3
    <3>2. CASE i = r
      <4>0. j \in Rows
        BY <1>1, <2>1, <3>2
      <4>1. log[j].lane = l /\ j \in Nat
        BY <1>1, <2>1, <3>2, <4>0
      <4>2. p \in Rows /\ j <= p /\ p \in Nat
        BY <1>1, <1>3, <4>0, <4>1
      <4>3. p < r
        BY <1>1, <1>2, <2>1, <3>2, <4>2 DEF InOrder
      <4> QED
        BY <1>1, <2>1, <3>2, <4>0, <4>1, <4>2, <4>3
    <3>3. CASE i \in Rows /\ j \in Rows
      BY <1>1, <1>5, <2>1, <3>3 DEF AuditInv, Chains, SpineIsWhole
    <3> QED
      BY <1>1, <3>1, <3>2, <3>3
  <2>2. \A n \in Checkpoints' : \A i \in heads'[n] : i \in Rows' /\ InOrder(i)'
    BY <1>1, <1>5 DEF AuditInv, Chains, SpineIsWhole, Commit, Checkpoints
  <2> QED
    BY <2>1, <2>2 DEF SpineIsWhole
<1> QED
  BY <1>7, <1>8, <1>9, <1>10 DEF Chains

(* Nobody else holds the lane's lock, and no other lane gains a row.       *)
LEMMA CommitKeepsWriters ==
  ASSUME AuditInv, NEW t \in Txs, Commit(t)
  PROVE  Writers'
<1>1. \A u \in Txs : u # t => tx'[u] = tx[u]
  BY DEF Commit, AuditInv, AuditTypeOK
<1>2. ~ Open(t)' /\ ~ Chained(t)'
  BY DEF Commit, AuditInv, AuditTypeOK, Open, Chained, IdleTx
<1>3. /\ Rows' = Rows \cup {tx[t].id} /\ log'[tx[t].id].lane = tx[t].lane
      /\ \A i \in Rows : log'[i] = log[i]
  BY CommitAddsRow
<1>4. Open(t) /\ Chained(t) /\ lastId' = lastId
  BY DEF Commit, Open, Chained
<1>5. Numbered'
  BY <1>1, <1>2, <1>3, <1>4 DEF AuditInv, Writers, Numbered, Open
<1>6. LockHeld'
  BY <1>1, <1>2 DEF AuditInv, Writers, LockHeld, Chained
<1>7. OnHead'
  <2> SUFFICES ASSUME NEW u \in Txs, Chained(u)'
               PROVE  IsHead(tx[u].prev, tx[u].lane)'
    BY DEF OnHead
  <2>1. u # t /\ tx'[u] = tx[u] /\ Chained(u)
    BY <1>1, <1>2 DEF Chained
  <2>2. tx[u].lane # tx[t].lane
    BY <1>4, <2>1 DEF AuditInv, Writers, LockHeld
  <2>3. InLane(tx[u].lane)' = InLane(tx[u].lane)
    BY <1>3, <2>1, <2>2 DEF InLane
  <2>4. IsHead(tx[u].prev, tx[u].lane)
    BY <2>1 DEF AuditInv, Writers, OnHead
  <2> QED
    BY <2>1, <2>3, <2>4 DEF IsHead
<1> QED
  BY <1>5, <1>6, <1>7 DEF Writers

(* A row that is committed when a checkpoint is there was open before it.  *)
LEMMA CommitKeepsClock ==
  ASSUME AuditInv, NEW t \in Txs, Commit(t), NEW r, r = tx[t].id
  PROVE  Clock' /\ UnverifiedExplained'
<1>1. /\ Rows' = Rows \cup {r} /\ log'[r].created = tx[t].began /\ log'[r].committed = Now
      /\ \A i \in Rows : log'[i] = log[i]
  BY CommitAddsRow
<1>2. /\ UNCHANGED <<heads, checker, verified, faults>> /\ Open(t)
      /\ \A u \in Txs : u # t => tx'[u] = tx[u]
  BY DEF Commit, Open, AuditInv, AuditTypeOK
<1>3. Now' = Now /\ Checkpoints' = Checkpoints
  BY <1>2 DEF Now, Checkpoints
<1>4. tx[t].began <= Now /\ Now \in Nat /\ tx[t].began \in Nat
  BY <1>2 DEF AuditInv, Clock, AuditTypeOK, Tx
<1>5. ~ Open(t)'
  BY DEF Commit, Open, IdleTx, AuditInv, AuditTypeOK
<1>6. Clock'
  BY <1>1, <1>2, <1>3, <1>4, <1>5 DEF AuditInv, Clock, Open
<1>7. UnverifiedExplained'
  BY <1>1, <1>2, <1>3, <1>4 DEF AuditInv, UnverifiedExplained
<1> QED
  BY <1>6, <1>7

LEMMA CommitKeepsTypes ==
  ASSUME AuditInv, NEW t \in Txs, Commit(t)
  PROVE  AuditTypeOK'
<1>1. log' \in [Ids -> Row \cup {None}]
  BY CommitAddsRow
<1>2. tx' \in [Txs -> Tx]
  BY DEF Commit, AuditInv, AuditTypeOK, IdleTx, Tx
<1> QED
  BY <1>1, <1>2 DEF Commit, AuditInv, AuditTypeOK, Checkpoints

-----------------------------------------------------------------------------
(* The other steps leave the log as it is.                                 *)
LEMMA LogStays ==
  ASSUME AuditInv, log' = log,
         \/ heads' = heads
         \/ Checkpoints \subseteq Checkpoints' /\ \A n \in Checkpoints' :
              heads'[n] = IF n \in Checkpoints THEN heads[n]
                          ELSE {i \in Rows : IsHead(i, log[i].lane)}
  PROVE  Chains' /\ Rows' = Rows
<1>1. Rows' = Rows /\ \A l : InLane(l)' = InLane(l)
  BY DEF Rows, InLane
<1>2. \A h, l : IsHead(h, l)' <=> IsHead(h, l)
  BY <1>1 DEF IsHead
<1>3. \A i : InOrder(i)' <=> InOrder(i)
  BY DEF InOrder
<1>4. HeadInOrder'
  BY <1>1, <1>2, <1>3 DEF AuditInv, Chains, HeadInOrder
<1>5. ForksExplained' /\ PredecessorInOrder'
  BY <1>1, <1>3 DEF AuditInv, Chains, ForksExplained, PredecessorInOrder
<1>6. \A n \in Checkpoints' : \A i \in heads'[n] : i \in Rows /\ InOrder(i)
  BY DEF AuditInv, Chains, SpineIsWhole, HeadInOrder, Checkpoints
<1>7. SpineIsWhole'
  BY <1>1, <1>3, <1>6 DEF AuditInv, Chains, SpineIsWhole
<1> QED
  BY <1>1, <1>4, <1>5, <1>7 DEF Chains

(* So do the transactions' claims, if no transaction gets further.         *)
LEMMA WritersStay ==
  ASSUME AuditInv, UNCHANGED <<log, lastId>>, Rows' = Rows,
         \A t \in Txs : tx'[t] = tx[t] \/ ~ Open(t)'
  PROVE  Writers'
<1>1. \A h, l : IsHead(h, l)' <=> IsHead(h, l)
  BY DEF IsHead, InLane
<1>2. \A t \in Txs : Open(t)' => tx'[t] = tx[t] /\ Open(t)
  BY DEF Open
<1>3. Numbered'
  BY <1>2 DEF AuditInv, Writers, Numbered
<1>4. \A t \in Txs : Chained(t)' => tx'[t] = tx[t] /\ Chained(t)
  BY <1>2 DEF Chained, Open
<1>5. LockHeld'
  BY <1>4 DEF AuditInv, Writers, LockHeld
<1>6. OnHead'
  BY <1>1, <1>4 DEF AuditInv, Writers, OnHead
<1> QED
  BY <1>3, <1>5, <1>6 DEF Writers

LEMMA AuditStepInv ==
  ASSUME AuditInv, [AuditNext]_auditVars
  PROVE  AuditInv'
<1>1. CASE UNCHANGED auditVars
  <2> USE <1>1 DEF auditVars
  <2>1. UNCHANGED <<lastId, tx, log, heads, checker, verified, faults>>
    OBVIOUS
  <2>2. Chains' /\ Rows' = Rows
    BY <2>1, LogStays
  <2>3. Writers'
    BY <2>1, <2>2, WritersStay
  <2>4. AuditTypeOK' /\ Clock' /\ UnverifiedExplained'
    BY <2>1, <2>2 DEF AuditInv, AuditTypeOK, Clock, UnverifiedExplained, Now, Checkpoints, Open
  <2> QED
    BY <2>2, <2>3, <2>4 DEF AuditInv
<1>2. ASSUME NEW t \in Txs, Commit(t)
      PROVE  AuditInv'
  <2>1. PICK r, p, l : r = tx[t].id /\ p = tx[t].prev /\ l = tx[t].lane
    OBVIOUS
  <2> QED
    BY <1>2, <2>1, CommitKeepsTypes, CommitKeepsClock, CommitKeepsWriters, CommitKeepsChains
       DEF AuditInv
<1>3. ASSUME NEW t \in Txs, NEW l \in Lanes, DrawId(t, l)
      PROVE  AuditInv'
  <2>1. UNCHANGED <<log, heads, checker, verified, faults>> /\ lastId' = lastId + 1
          /\ lastId \in Nat /\ lastId < MaxId /\ MaxId \in Nat
    BY <1>3, AuditAssumption DEF DrawId, AuditInv, AuditTypeOK
  <2>2. Chains' /\ Rows' = Rows
    BY <2>1, LogStays
  <2>3. /\ tx'[t] = [pc |-> "numbered", id |-> lastId + 1, lane |-> l, began |-> Now, prev |-> None]
        /\ \A u \in Txs : u # t => tx'[u] = tx[u]
    BY <1>3 DEF DrawId, AuditInv, AuditTypeOK
  <2>4. lastId + 1 \in Ids /\ \A i \in Rows : i # lastId + 1
    BY <2>1, RowsFinite DEF AuditInv, Writers, Numbered, Ids
  <2>5. Numbered'
    BY <2>1, <2>2, <2>3, <2>4, RowsFinite DEF AuditInv, Writers, Numbered, Open, Ids
  <2>6. LockHeld'
    BY <2>3 DEF AuditInv, Writers, LockHeld, Chained
  <2>7. OnHead'
    BY <2>1, <2>2, <2>3 DEF AuditInv, Writers, OnHead, Chained, IsHead, InLane
  <2>8. tx' \in [Txs -> Tx]
    BY <1>3, <2>4 DEF DrawId, AuditInv, AuditTypeOK, Clock, Tx
  <2>9. AuditTypeOK'
    BY <2>1, <2>8 DEF AuditInv, AuditTypeOK, Checkpoints
  <2>10. Clock' /\ UnverifiedExplained'
    BY <2>1, <2>2, <2>3 DEF AuditInv, Clock, UnverifiedExplained, Now, Checkpoints, Open
  <2> QED
    BY <2>2, <2>5, <2>6, <2>7, <2>9, <2>10 DEF AuditInv, Writers
<1>4. ASSUME NEW t \in Txs, Chain(t)
      PROVE  AuditInv'
  <2>1. UNCHANGED <<lastId, log, heads, checker, verified, faults>> /\ tx[t].pc = "numbered"
    BY <1>4 DEF Chain
  <2>2. Chains' /\ Rows' = Rows
    BY <2>1, LogStays
  <2>3. PICK h \in Ids \cup {None} : IsHead(h, tx[t].lane) /\ HashOnto(t, h)
    BY <1>4 DEF Chain
  <2>4. /\ tx'[t].pc = "chained" /\ tx'[t].id = tx[t].id /\ tx'[t].lane = tx[t].lane
        /\ tx'[t].began = tx[t].began /\ tx'[t].prev = h
        /\ \A u \in Txs : u # t => tx'[u] = tx[u]
    BY <2>3 DEF HashOnto, AuditInv, AuditTypeOK
  <2>5. Numbered'
    BY <2>1, <2>2, <2>4 DEF AuditInv, Writers, Numbered, Open
  <2>6. LockHeld'
    <3>1. \A u \in Txs : ~ (Chained(u) /\ tx[u].lane = tx[t].lane)
      BY <1>4 DEF Chain, Locked, Chained
    <3> QED
      BY <2>4, <3>1 DEF AuditInv, Writers, LockHeld, Chained
  <2>7. OnHead'
    BY <2>1, <2>2, <2>3, <2>4 DEF AuditInv, Writers, OnHead, Chained, IsHead, InLane
  <2>8. tx' \in [Txs -> Tx]
    BY <2>3 DEF HashOnto, AuditInv, AuditTypeOK, Tx
  <2>9. AuditTypeOK'
    BY <2>1, <2>8 DEF AuditInv, AuditTypeOK, Checkpoints
  <2>10. Clock' /\ UnverifiedExplained'
    BY <2>1, <2>2, <2>4 DEF AuditInv, Clock, UnverifiedExplained, Now, Checkpoints, Open
  <2> QED
    BY <2>2, <2>5, <2>6, <2>7, <2>9, <2>10 DEF AuditInv, Writers
<1>5. ASSUME NEW t \in Txs, Rollback(t)
      PROVE  AuditInv'
  <2>1. UNCHANGED <<lastId, log, heads, checker, verified>> /\ faults' = faults + 1 /\ faults \in Nat
    BY <1>5 DEF Rollback, AuditInv, AuditTypeOK
  <2>2. Chains' /\ Rows' = Rows
    BY <2>1, LogStays
  <2>3. tx'[t] = IdleTx /\ \A u \in Txs : u # t => tx'[u] = tx[u]
    BY <1>5 DEF Rollback, AuditInv, AuditTypeOK
  <2>4. Writers'
    BY <2>1, <2>2, <2>3, WritersStay DEF Open, IdleTx
  <2>5. AuditTypeOK'
    BY <1>5, <2>1 DEF Rollback, AuditInv, AuditTypeOK, IdleTx, Tx, Checkpoints
  <2>6. Clock' /\ UnverifiedExplained'
    BY <2>1, <2>2, <2>3 DEF AuditInv, Clock, UnverifiedExplained, Now, Checkpoints, Open, IdleTx
  <2> QED
    BY <2>2, <2>4, <2>5, <2>6 DEF AuditInv
<1>6. CASE CreateCheckpoint
  <2>1. UNCHANGED <<lastId, tx, log, verified, faults>> /\ checker = 0 /\ checker' = Now + 1
          /\ Now \in Nat /\ Checkpoints = 1 .. Now
    BY <1>6 DEF CreateCheckpoint, AuditInv, Clock
  <2>2. /\ Checkpoints' = 1 .. Now + 1
        /\ \A n \in Checkpoints' :
             heads'[n] = IF n \in Checkpoints THEN heads[n]
                         ELSE {i \in Rows : IsHead(i, log[i].lane)}
    BY <1>6, <2>1 DEF CreateCheckpoint, Checkpoints
  <2>3. Now' = Now + 1
    <3>1. Cardinality(1 .. Now + 1) = Now + 1
      BY <2>1, FS_Interval
    <3>2. Now' = Cardinality(Checkpoints')
      BY DEF Now
    <3> QED
      BY <2>2, <3>1, <3>2
  <2>a. Checkpoints \subseteq Checkpoints'
    BY <2>1, <2>2
  <2>4. Chains' /\ Rows' = Rows
    BY <2>1, <2>2, <2>a, LogStays
  <2>5. Writers'
    BY <2>1, <2>4, WritersStay
  <2>6. AuditTypeOK'
    <3>a. Checkpoints' \subseteq Nat
      BY <2>1, <2>2
    <3>b. {i \in Rows : IsHead(i, log[i].lane)} \subseteq Ids
      BY RowsFinite
    <3>c. \A n \in Checkpoints : heads[n] \subseteq Ids
      BY DEF AuditInv, AuditTypeOK
    <3>1. Checkpoints' \subseteq Nat /\ \A n \in Checkpoints' : heads'[n] \subseteq Ids
      BY <2>2, <3>a, <3>b, <3>c
    <3> QED
      BY <2>1, <3>1 DEF AuditInv, AuditTypeOK, Checkpoints
  <2>7. Clock'
    BY <2>1, <2>2, <2>3, <2>4, RowsFinite DEF AuditInv, Clock, Open, AuditTypeOK, Tx, Row, Rows
  <2>8. UnverifiedExplained'
    BY <2>1, <2>3, <2>4 DEF AuditInv, UnverifiedExplained, AuditTypeOK, Row, Rows
  <2> QED
    BY <2>4, <2>5, <2>6, <2>7, <2>8 DEF AuditInv
<1>7. CASE Verify
  <2>1. UNCHANGED <<lastId, tx, log, heads, faults>> /\ checker # 0 /\ checker' = 0
          /\ verified' = verified \cup {i \in Rows : log[i].created = checker - 1}
    BY <1>7 DEF Verify
  <2>2. Chains' /\ Rows' = Rows
    BY <2>1, LogStays
  <2>3. Writers'
    BY <2>1, <2>2, WritersStay
  <2>4. Now' = Now /\ Checkpoints' = Checkpoints
    BY <2>1 DEF Now, Checkpoints
  <2>5. AuditTypeOK'
    BY <2>1, <2>4, RowsFinite DEF AuditInv, AuditTypeOK
  <2>6. Clock'
    BY <2>1, <2>2, <2>4 DEF AuditInv, Clock, Open
  <2>7. UnverifiedExplained'
    BY <2>1, <2>2, <2>4 DEF AuditInv, UnverifiedExplained, AuditTypeOK, Row, Rows
  <2> QED
    BY <2>2, <2>3, <2>5, <2>6, <2>7 DEF AuditInv
<1>8. CASE CheckerDies
  <2>1. UNCHANGED <<lastId, tx, log, heads, verified>> /\ checker' = 0 /\ faults' = faults + 1
          /\ faults \in Nat
    BY <1>8 DEF CheckerDies, AuditInv, AuditTypeOK
  <2>2. Chains' /\ Rows' = Rows
    BY <2>1, LogStays
  <2>3. Writers'
    BY <2>1, <2>2, WritersStay
  <2>4. Now' = Now /\ Checkpoints' = Checkpoints
    BY <2>1 DEF Now, Checkpoints
  <2>5. AuditTypeOK' /\ Clock' /\ UnverifiedExplained'
    BY <2>1, <2>2, <2>4 DEF AuditInv, AuditTypeOK, Clock, Open, UnverifiedExplained
  <2> QED
    BY <2>2, <2>3, <2>5 DEF AuditInv
<1> QED
  BY <1>1, <1>2, <1>3, <1>4, <1>5, <1>6, <1>7, <1>8 DEF AuditNext

LEMMA AuditInvariant == AuditSpec => []AuditInv
  BY AuditInitInv, AuditStepInv, PTL DEF AuditSpec

-----------------------------------------------------------------------------
(* Two rows of a lane hash onto the same row only where one was overtaken  *)
(* between drawing its id and getting the lock.                            *)
THEOREM ForksAreExplained == AuditSpec => []ForksExplained
<1>1. AuditInv => ForksExplained
  BY DEF AuditInv, Chains
<1> QED
  BY <1>1, AuditInvariant, PTL

(* What a row was hashed onto is in the log and stays; no row hangs on one *)
(* that was overtaken.                                                     *)
THEOREM PredecessorsInOrder == AuditSpec => []PredecessorInOrder
<1>1. AuditInv => PredecessorInOrder
  BY DEF AuditInv, Chains
<1> QED
  BY <1>1, AuditInvariant, PTL

(* The rows in order are one unbroken chain, and the heads that checkpoints *)
(* anchor are of it.                                                       *)
THEOREM SpineStaysWhole == AuditSpec => []SpineIsWhole
<1>1. AuditInv => SpineIsWhole
  BY DEF AuditInv, Chains
<1> QED
  BY <1>1, AuditInvariant, PTL

(* As long as nothing fails, only rows that were open while a checkpoint   *)
(* was made escape its verification.                                       *)
THEOREM UnverifiedAreExplained == AuditSpec => []UnverifiedExplained
<1>1. AuditInv => UnverifiedExplained
  BY DEF AuditInv
<1> QED
  BY <1>1, AuditInvariant, PTL
-----------------------------------------------------------------------------
(* The webhooks that read the log.  What the poll has dealt with lies at   *)
(* or below its position; what it has not created of the batch in hand was *)
(* visible before whatever came between.                                   *)
Busy(c) == consumer[c].pc # "idle"

(* A consumer at work holds the active job of a delivery, alone.           *)
Holding ==
  /\ \A c \in Consumers : Busy(c) =>
       /\ consumer[c].at \in DeliveryIds
       /\ job[consumer[c].at] # None /\ job[consumer[c].at].state = "active"
  /\ \A c, e \in Consumers : Busy(c) /\ Busy(e) /\ consumer[c].at = consumer[e].at => c = e
  /\ \A d \in DeliveryIds : job[d] # None \/ d \in poll.due => delivery[d] # None

Scanning == poll.pc \in {"batch", "create", "save"}
Position == IF Scanning THEN poll.at ELSE cursor
PollShape ==
  /\ poll.todo \subseteq Rows /\ \A i \in poll.todo : poll.at < i
  /\ poll.pc # "create" => poll.todo = {}
  /\ poll.pc # "queue" => poll.due = {}
  /\ cursor # 0 => cursor \in Rows
  /\ Scanning => cursor <= poll.at /\ (poll.at # 0 => poll.at \in Rows)

PlacesOK == \A i \in Rows : log[i].place < Cardinality(Rows)
Overtaken(i) == \E j \in Rows : j > i /\ log[j].place < log[i].place
Covered == faults = 0 => \A i \in Rows : i <= Position /\ Of(i) = {} => Overtaken(i)
BatchCovered ==
  \A k \in Rows, i \in poll.todo :
    poll.at < k /\ k < i /\ k \notin poll.todo => log[i].place < log[k].place
Counted ==
  \A i \in Ids : Cardinality(Of(i)) <= IF i <= Position THEN 1 + faults ELSE faults
Events == PlacesOK /\ Covered /\ BatchCovered /\ Counted

(* As long as nothing fails and nobody intervenes, a job that has not      *)
(* posted yet has a post to spend.                                         *)
CalmTurn(c) ==
  /\ consumer[c].pc # "refuse"
  /\ consumer[c].pc \in {"post", "record"} => schema = "public"
  /\ consumer[c].pc = "record" => consumer[c].ok = up
  /\ consumer[c].pc = "settle" /\ up => consumer[c].ok
  /\ consumer[c].pc = "settle" /\ schema = "public" => delivery[consumer[c].at].status # "PENDING"
Posted(d) == \E c \in Consumers : consumer[c].at = d /\ consumer[c].pc \in {"record", "settle"}
Spare(d) == IF d \in stale THEN 1 ELSE 0
CalmDelivery(d) ==
  /\ schema # "public" \/ ~ up \/ delivery[d] = None => accepted[d] = 0
  /\ delivery[d] = None => d \notin stale
  /\ delivery[d] # None /\ delivery[d].status = "PENDING" =>
       d \notin stale /\ (job[d] = None => accepted[d] = 0)
  /\ accepted[d] <= 1 + Spare(d)
  /\ job[d] # None /\ ~ Posted(d) => accepted[d] <= Spare(d)
  /\ d \in stale => d \notin poll.due
Calm ==
  faults = 0 /\ toggles = 0 =>
    /\ active
    /\ \A c \in Consumers : CalmTurn(c)
    /\ \A d \in DeliveryIds : CalmDelivery(d)

HookInv == AuditInv /\ TypeOK /\ Holding /\ PollShape /\ Events /\ Calm

-----------------------------------------------------------------------------
LEMMA FirstExists ==
  ASSUME NEW S, S \subseteq Nat, S # {}
  PROVE  Min(S) \in S /\ \A x \in S : Min(S) <= x
<1> DEFINE R == OpToRel(<, Nat)
<1>1. IsWellFoundedOn(R, Nat)
  BY NatLessThanWellFounded
<1>2. R = {p \in Nat \X Nat : p[1] < p[2]}
  BY DEF OpToRel
<1> HIDE DEF R
<1>3. PICK m \in S : \A x \in S : ~ (<<x, m>> \in R)
  BY <1>1, WFMin
<1>4. ASSUME NEW x \in S PROVE m <= x
  <2>1. x \in Nat /\ m \in Nat /\ <<x, m>> \in Nat \X Nat /\ <<x, m>>[1] = x /\ <<x, m>>[2] = m
    OBVIOUS
  <2> QED
    BY <1>2, <1>3, <2>1
<1> QED
  BY <1>3, <1>4 DEF Min

LEMMA HookInitInv == Init => HookInv
<1> SUFFICES ASSUME Init PROVE HookInv
  OBVIOUS
<1>1. AuditInv
  BY AuditInitInv DEF Init
<1>2. Rows = {} /\ faults = 0 /\ \A i \in Ids : Of(i) = {}
  BY DEF Init, AuditInit, Rows, Of
<1>3. TypeOK
  BY <1>1, <1>2, WebhookAssumption, AuditAssumption
     DEF Init, TypeOK, AuditInv, IdlePoll, IdleConsumer
<1>4. Holding
  BY DEF Init, Holding, Busy, IdleConsumer, IdlePoll
<1>5. PollShape
  BY DEF Init, PollShape, Scanning, IdlePoll
<1>6. Events
  BY <1>2, FS_EmptySet DEF Init, Events, PlacesOK, Covered, BatchCovered, Counted, IdlePoll
<1>7. Calm
  BY DEF Init, Calm, CalmTurn, CalmDelivery, IdlePoll, IdleConsumer, Spare, Posted
<1> QED
  BY <1>1, <1>3, <1>4, <1>5, <1>6, <1>7 DEF HookInv

-----------------------------------------------------------------------------
(* The log grows by one row at a time, which is the last in its place.     *)
LEMMA LogGrows ==
  ASSUME HookInv, AuditNext, UNCHANGED hookVars
  PROVE  /\ faults' = faults \/ faults' = faults + 1
         /\ \/ log' = log
            \/ \E r \in Ids \ Rows :
                 /\ Rows' = Rows \cup {r}
                 /\ log'[r].place = Cardinality(Rows)
                 /\ \A i \in Rows : log'[i] = log[i]
<1>1. ASSUME NEW t \in Txs, Commit(t)
      PROVE  faults' = faults /\ \E r \in Ids \ Rows :
                 /\ Rows' = Rows \cup {r}
                 /\ log'[r].place = Cardinality(Rows)
                 /\ \A i \in Rows : log'[i] = log[i]
  <2>1. PICK r : r = tx[t].id
    OBVIOUS
  <2>2. /\ r \in Ids /\ r \notin Rows /\ Rows' = Rows \cup {r}
        /\ \A i \in Rows : log'[i] = log[i]
    BY <1>1, <2>1, CommitAddsRow DEF HookInv
  <2>3. log'[r].place = Cardinality(Rows)
    BY <1>1, <2>1, <2>2 DEF Commit, HookInv, AuditInv, AuditTypeOK
  <2> QED
    BY <1>1, <2>2, <2>3 DEF Commit
<1>2. ASSUME NEW t \in Txs, Chain(t) \/ Rollback(t) \/ \E l \in Lanes : DrawId(t, l)
      PROVE  log' = log /\ (faults' = faults \/ faults' = faults + 1)
  BY <1>2 DEF Chain, Rollback, DrawId
<1>3. ASSUME CreateCheckpoint \/ Verify \/ CheckerDies
      PROVE  log' = log /\ (faults' = faults \/ faults' = faults + 1)
  BY <1>3 DEF CreateCheckpoint, Verify, CheckerDies
<1> QED
  BY <1>1, <1>2, <1>3 DEF AuditNext

(* What the deliveries cover stays covered while the poll stands still.    *)
LEMMA EventsStay ==
  ASSUME HookInv, log' = log, faults' = faults \/ faults' = faults + 1,
         Position' = Position, poll'.todo = poll.todo, poll'.at = poll.at \/ poll'.todo = {},
         \A d \in DeliveryIds :
           /\ delivery'[d] = None <=> delivery[d] = None
           /\ delivery[d] # None => delivery'[d].row = delivery[d].row
  PROVE  Events'
<1>1. Rows' = Rows /\ \A i : Of(i)' = Of(i)
  BY DEF Rows, Of
<1>2. faults \in Nat
  BY DEF HookInv, AuditInv, AuditTypeOK
<1>3. PlacesOK' /\ BatchCovered'
  BY <1>1 DEF HookInv, Events, PlacesOK, BatchCovered
<1>4. Covered'
  BY <1>1, <1>2 DEF HookInv, Events, Covered, Overtaken
<1>5. Counted'
  <2> SUFFICES ASSUME NEW i \in Ids
               PROVE  Cardinality(Of(i)) <= IF i <= Position THEN 1 + faults' ELSE faults'
    BY <1>1 DEF Counted
  <2>1. Cardinality(Of(i)) \in Nat
    BY WebhookAssumption, FS_Subset, FS_CardinalityType DEF Of
  <2> QED
    BY <1>2, <2>1 DEF HookInv, Events, Counted
<1> QED
  BY <1>3, <1>4, <1>5 DEF Events

LEMMA AuditStep ==
  ASSUME HookInv, AuditNext, UNCHANGED hookVars
  PROVE  HookInv'
<1>1. AuditInv'
  BY AuditStepInv DEF HookInv
<1>a. UNCHANGED <<schema, active, up, cursor, poll, delivery, job, consumer, toggles, accepted, stale>>
  BY DEF hookVars
<1>2. TypeOK'
  BY <1>1, <1>a DEF HookInv, TypeOK, AuditInv
<1>3. Holding'
  BY <1>a DEF HookInv, Holding, Busy
<1>4. Position' = Position /\ (Scanning' <=> Scanning)
  BY <1>a DEF Position, Scanning
<1>5. faults \in Nat /\ (faults' = faults \/ faults' = faults + 1)
  BY LogGrows DEF HookInv, AuditInv, AuditTypeOK
<1>6. Calm'
  BY <1>a, <1>5 DEF HookInv, Calm, CalmTurn, CalmDelivery, Spare, Posted
<1>7. CASE log' = log
  <2>1. Rows' = Rows
    BY <1>7 DEF Rows
  <2>2. PollShape'
    BY <1>a, <1>4, <2>1 DEF HookInv, PollShape
  <2>3. Events'
    BY <1>a, <1>4, <1>5, <1>7, EventsStay
  <2> QED
    BY <1>1, <1>2, <1>3, <1>6, <2>2, <2>3 DEF HookInv
<1>8. CASE log' # log
  <2>1. PICK r \in Ids \ Rows :
                 /\ Rows' = Rows \cup {r}
                 /\ log'[r].place = Cardinality(Rows)
                 /\ \A i \in Rows : log'[i] = log[i]
    BY <1>8, LogGrows
  <2>2. PollShape'
    BY <1>a, <1>4, <2>1 DEF HookInv, PollShape
  <2>3. /\ Cardinality(Rows) \in Nat /\ IsFiniteSet(Rows)
        /\ \A i \in Rows : log[i].place \in Nat
        /\ Rows \subseteq Nat /\ Ids \subseteq Nat
    <3>1. IsFiniteSet(Ids)
      BY AuditAssumption, FS_Interval DEF Ids
    <3>2. IsFiniteSet(Rows) /\ Rows \subseteq Ids /\ Ids \subseteq Nat
      BY <3>1, FS_Subset, AuditAssumption DEF Rows, Ids
    <3>3. \A i \in Rows : log[i] \in Row
      BY DEF Rows, HookInv, AuditInv, AuditTypeOK
    <3> QED
      BY <3>2, <3>3, RowsFinite DEF Row
  <2>4. Cardinality(Rows') = Cardinality(Rows) + 1
    BY <2>1, <2>3, FS_AddElement
  <2>5. PlacesOK'
    <3>1. \A i \in Rows : log[i].place < Cardinality(Rows)
      BY DEF HookInv, Events, PlacesOK
    <3>2. \A i \in Rows' : log'[i].place < Cardinality(Rows) + 1
      BY <2>1, <2>3, <3>1
    <3>3. PlacesOK' <=> \A i \in Rows' : log'[i].place < Cardinality(Rows')
      BY DEF PlacesOK
    <3> QED
      BY <2>4, <3>2, <3>3
  <2>6. \A i : Of(i)' = Of(i)
    BY <1>a DEF Of
  <2>7. Counted'
    <3> SUFFICES ASSUME NEW i \in Ids
                 PROVE  Cardinality(Of(i)) <= IF i <= Position THEN 1 + faults' ELSE faults'
      BY <1>4, <2>6 DEF Counted
    <3>1. Cardinality(Of(i)) \in Nat
      BY WebhookAssumption, FS_Subset, FS_CardinalityType DEF Of
    <3> QED
      BY <1>5, <3>1 DEF HookInv, Events, Counted
  <2>8. BatchCovered'
    <3> SUFFICES ASSUME NEW k \in Rows', NEW i \in poll.todo,
                        poll.at < k, k < i, k \notin poll.todo
                 PROVE  log'[i].place < log'[k].place
      BY <1>a DEF BatchCovered
    <3>1. i \in Rows /\ log[i].place < Cardinality(Rows)
      BY DEF HookInv, PollShape, Events, PlacesOK
    <3>2. CASE k = r
      BY <2>1, <3>1, <3>2
    <3>3. CASE k \in Rows
      BY <2>1, <3>1, <3>3 DEF HookInv, Events, BatchCovered
    <3> QED
      BY <2>1, <3>2, <3>3
  <2>9. Covered'
    <3> SUFFICES ASSUME faults = 0, NEW i \in Rows', i <= Position, Of(i) = {}
                 PROVE  \E j \in Rows' : j > i /\ log'[j].place < log'[i].place
      BY <1>4, <1>5, <2>6 DEF Covered, Overtaken
    <3>1. CASE i \in Rows
      BY <2>1, <3>1 DEF HookInv, Events, Covered, Overtaken
    <3>2. CASE i = r
      <4>1. i \in Nat /\ i > 0
        BY <3>2, <2>1, AuditAssumption DEF Ids
      <4>2. Position # 0 => Position \in Rows
        BY DEF HookInv, PollShape, Position
      <4>3. Position \in Nat
        BY AuditAssumption DEF HookInv, TypeOK, Position
      <4>4. Position \in Rows /\ Position > i
        BY <2>1, <3>2, <4>1, <4>2, <4>3
      <4>5. log[Position].place < Cardinality(Rows)
        BY <4>4 DEF HookInv, Events, PlacesOK
      <4> QED
        BY <2>1, <3>2, <4>4, <4>5
    <3> QED
      BY <2>1, <3>1, <3>2
  <2> QED
    BY <1>1, <1>2, <1>3, <1>6, <2>2, <2>5, <2>7, <2>8, <2>9 DEF HookInv, Events
<1> QED
  BY <1>7, <1>8

-----------------------------------------------------------------------------
(* A fault of the hooks' leaves the chain alone.                           *)
LEMMA AuditKept ==
  ASSUME HookInv, UNCHANGED <<lastId, tx, log, heads, checker, verified>>,
         faults' = faults \/ faults' = faults + 1
  PROVE  AuditInv' /\ AuditTypeOK' /\ Rows' = Rows /\ faults \in Nat /\ faults' \in Nat
<1>0. AuditInv /\ faults \in Nat
  BY DEF HookInv, AuditInv, AuditTypeOK
<1>1. Chains' /\ Rows' = Rows
  BY <1>0, LogStays
<1>2. Writers'
  BY <1>0, <1>1, WritersStay
<1>3. AuditTypeOK' /\ Clock' /\ UnverifiedExplained'
  BY <1>0, <1>1 DEF AuditInv, AuditTypeOK, Clock, UnverifiedExplained, Now, Checkpoints, Open
<1> QED
  BY <1>0, <1>1, <1>2, <1>3 DEF AuditInv

Polls == [pc : {"idle", "batch", "create", "save", "sweep", "queue"}, at : 0 .. MaxId,
          todo : SUBSET Ids, full : BOOLEAN, due : SUBSET DeliveryIds]

(* A step of the poll that writes no delivery and no job.                  *)
LEMMA PollTurns ==
  ASSUME HookInv, UNCHANGED <<auditVars, world, delivery, job, consumer, accepted, stale>>,
         poll' \in Polls, cursor' \in 0 .. MaxId,
         \A d \in poll'.due :
           d \in poll.due \/ (delivery[d] # None /\ delivery[d].status = "PENDING")
  PROVE  AuditInv' /\ TypeOK' /\ Holding' /\ Calm' /\ Rows' = Rows
<1>1. UNCHANGED <<lastId, tx, log, heads, checker, verified, faults, schema, active, up, toggles>>
  BY DEF auditVars, world
<1>2. AuditInv' /\ AuditTypeOK' /\ Rows' = Rows
  BY <1>1, AuditKept
<1>3. TypeOK'
  BY <1>1, <1>2 DEF HookInv, TypeOK, Polls
<1>4. poll'.due \subseteq DeliveryIds
  BY DEF Polls
<1>5. Holding'
  BY <1>4 DEF HookInv, Holding, Busy
<1>6. Calm'
  <2> SUFFICES ASSUME faults = 0, toggles = 0 PROVE Calm'
    BY <1>1 DEF Calm
  <2>1. \A c \in Consumers : CalmTurn(c)'
    BY <1>1 DEF HookInv, Calm, CalmTurn
  <2>2. ASSUME NEW d \in DeliveryIds PROVE CalmDelivery(d)'
    <3>1. CalmDelivery(d)
      BY DEF HookInv, Calm
    <3>2. Posted(d)' = Posted(d) /\ Spare(d)' = Spare(d)
      BY DEF Posted, Spare
    <3> QED
      BY <1>1, <3>1, <3>2 DEF CalmDelivery
  <2> QED
    BY <1>1, <2>1, <2>2 DEF HookInv, Calm
<1> QED
  BY <1>2, <1>3, <1>5, <1>6

(* From one pass over the log to the next the poll holds no row in hand.   *)
Settled ==
  /\ poll.todo = {} /\ poll'.todo = {} /\ poll' \in Polls /\ cursor' \in 0 .. MaxId
  /\ poll'.pc \in {"idle", "batch", "save", "sweep", "queue"}
  /\ poll'.pc \in {"batch", "save"} =>
       /\ cursor' = cursor /\ poll'.due = {}
       /\ poll'.at = IF Scanning THEN poll.at ELSE cursor
  /\ poll'.pc \in {"idle", "sweep", "queue"} => cursor' = IF Scanning THEN poll.at ELSE cursor
  /\ poll'.pc # "queue" => poll'.due = {}
  /\ \A d \in poll'.due :
       d \in poll.due \/ (delivery[d] # None /\ delivery[d].status = "PENDING")

LEMMA PollSettles ==
  ASSUME HookInv, BeginPoll \/ EndBatch \/ SaveCursor \/ Sweep \/ EndPoll
  PROVE  Settled
<1>0. /\ poll \in Polls /\ cursor \in 0 .. MaxId /\ 0 \in 0 .. MaxId
      /\ poll.pc # "create" => poll.todo = {}
      /\ poll.pc # "queue" => poll.due = {}
  BY AuditAssumption DEF HookInv, TypeOK, Polls, PollShape
<1>1. CASE BeginPoll
  <2>1. poll.pc = "idle" /\ cursor' = cursor
    BY <1>1 DEF BeginPoll
  <2>2. CASE active
    <3>1. poll' = [pc |-> "batch", at |-> cursor, todo |-> {}, full |-> FALSE, due |-> {}]
      BY <1>1, <2>2 DEF BeginPoll, IdlePoll
    <3> QED
      BY <1>0, <2>1, <3>1 DEF Settled, Scanning, Polls
  <2>3. CASE ~ active
    <3>1. poll' = [pc |-> "sweep", at |-> 0, todo |-> {}, full |-> FALSE, due |-> {}]
      BY <1>1, <2>3 DEF BeginPoll, IdlePoll
    <3> QED
      BY <1>0, <2>1, <3>1 DEF Settled, Scanning, Polls
  <2> QED
    BY <2>2, <2>3
<1>2. CASE EndBatch
  <2>1. poll.pc = "create" /\ poll.todo = {} /\ cursor' = cursor
    BY <1>2 DEF EndBatch
  <2>2. PICK pc \in {"batch", "save"} : poll' = [poll EXCEPT !.pc = pc]
    BY <1>2 DEF EndBatch
  <2> QED
    BY <1>0, <2>1, <2>2 DEF Settled, Scanning, Polls
<1>3. CASE SaveCursor
  <2>1. poll.pc = "save" /\ cursor' = poll.at
    BY <1>3 DEF SaveCursor
  <2>2. poll' = [pc |-> "sweep", at |-> 0, todo |-> {}, full |-> FALSE, due |-> {}]
    BY <1>3 DEF SaveCursor, IdlePoll
  <2> QED
    BY <1>0, <2>1, <2>2 DEF Settled, Scanning, Polls
<1>4. CASE Sweep
  <2>1. PICK due \in SUBSET DueDeliveries : poll' = [poll EXCEPT !.pc = "queue", !.due = due]
    BY <1>4 DEF Sweep, kSubset
  <2>2. poll.pc = "sweep" /\ cursor' = cursor
    BY <1>4 DEF Sweep
  <2>3. due \subseteq DeliveryIds /\ \A d \in due : delivery[d] # None /\ delivery[d].status = "PENDING"
    BY DEF DueDeliveries
  <2> QED
    BY <1>0, <2>1, <2>2, <2>3 DEF Settled, Scanning, Polls
<1>5. CASE EndPoll
  <2>1. poll.pc = "queue" /\ cursor' = cursor
    BY <1>5 DEF EndPoll
  <2>2. poll' = [pc |-> "idle", at |-> 0, todo |-> {}, full |-> FALSE, due |-> {}]
    BY <1>5 DEF EndPoll, IdlePoll
  <2> QED
    BY <1>0, <2>1, <2>2 DEF Settled, Scanning, Polls
<1> QED
  BY <1>1, <1>2, <1>3, <1>4, <1>5

LEMMA PollStandsStill ==
  ASSUME HookInv, BeginPoll \/ EndBatch \/ SaveCursor \/ Sweep \/ EndPoll
  PROVE  HookInv'
<1>1. /\ UNCHANGED <<auditVars, world, delivery, job, consumer, accepted, stale>>
      /\ log' = log /\ faults' = faults
  BY DEF auditVars, BeginPoll, EndBatch, SaveCursor, Sweep, EndPoll
<1>2. Settled
  BY PollSettles
<1>3. AuditInv' /\ TypeOK' /\ Holding' /\ Calm' /\ Rows' = Rows
  BY <1>1, <1>2, PollTurns DEF Settled
<1>4. Position' = Position
  BY <1>2 DEF Settled, Position, Scanning
<1>5. Events'
  BY <1>1, <1>2, <1>4, EventsStay DEF Settled
<1>6. poll.at \in Nat /\ cursor \in Nat
  BY AuditAssumption DEF HookInv, TypeOK
<1>7. PollShape'
  BY <1>2, <1>3, <1>6 DEF Settled, Scanning, HookInv, PollShape
<1> QED
  BY <1>3, <1>5, <1>7 DEF HookInv

(* The batch leaves no visible row out that lies below one it takes.       *)
LEMMA BatchIsLowest ==
  ASSUME HookInv
  PROVE  /\ Batch \subseteq Rows /\ \A i \in Batch : i > poll.at
         /\ \A k \in Rows, i \in Batch : poll.at < k /\ k < i => k \in Batch
<1>1. IsFiniteSet(Ids) /\ Ids \subseteq Nat /\ Rows \subseteq Ids /\ poll.at \in Nat
  <2>1. IsFiniteSet(Ids)
    BY AuditAssumption, FS_Interval DEF Ids
  <2>2. Ids \subseteq Nat /\ Rows \subseteq Ids
    BY AuditAssumption DEF Ids, Rows
  <2>3. poll.at \in Nat
    BY AuditAssumption DEF HookInv, TypeOK
  <2> QED
    BY <2>1, <2>2, <2>3
<1>2. Above(poll.at) \subseteq Rows /\ \A i \in Above(poll.at) : i > poll.at
  BY DEF Above
<1>3. ASSUME NEW k \in Rows, NEW i \in Batch, poll.at < k, k < i
      PROVE  k \in Batch
  <2> DEFINE Upto(x) == {o \in Above(poll.at) : o <= x}
  <2>1. k \in Above(poll.at) /\ i \in Above(poll.at) /\ k \in Nat /\ i \in Nat
    BY <1>1, <1>2, <1>3 DEF Batch, Above
  <2>2. Upto(k) \subseteq Upto(i) /\ IsFiniteSet(Upto(i))
    <3>a. \A o \in Above(poll.at) : o \in Ids /\ o \in Nat
      BY <1>1, <1>2
    <3>b. \A o \in Above(poll.at) : o <= k => o <= i
      BY <1>3, <2>1, <3>a
    <3>1. Upto(k) \subseteq Upto(i) /\ Upto(i) \subseteq Ids
      BY <3>a, <3>b
    <3> HIDE DEF Upto
    <3> QED
      BY <1>1, <3>1, FS_Subset
  <2>3. /\ Cardinality(Upto(k)) <= Cardinality(Upto(i))
        /\ Cardinality(Upto(k)) \in Nat /\ Cardinality(Upto(i)) \in Nat
    BY <2>2, FS_Subset, FS_CardinalityType
  <2>4. Cardinality(Upto(i)) <= BatchSize
    BY DEF Batch
  <2>5. Cardinality(Upto(k)) <= BatchSize
    BY <2>3, <2>4, WebhookAssumption
  <2> QED
    BY <2>1, <2>5 DEF Batch
<1> QED
  BY <1>2, <1>3 DEF Batch

LEMMA ReadBatchStep ==
  ASSUME HookInv, ReadBatch
  PROVE  HookInv'
<1>0. poll \in Polls /\ cursor \in 0 .. MaxId /\ poll.pc = "batch" /\ poll.todo = {} /\ poll.due = {}
  BY DEF HookInv, TypeOK, Polls, PollShape, ReadBatch
<1>1. /\ UNCHANGED <<auditVars, world, cursor, delivery, job, consumer, accepted, stale>>
      /\ log' = log /\ faults' = faults
  BY DEF ReadBatch, auditVars
<1>2. /\ poll'.at = poll.at /\ poll'.due = {} /\ poll'.pc \in {"save", "create"}
      /\ poll' \in Polls
      /\ poll'.todo = IF poll'.pc = "create" THEN Batch ELSE {}
  <2>1. CASE Batch = {}
    BY <1>0, <2>1 DEF ReadBatch, Polls
  <2>2. CASE Batch # {}
    <3>1. Batch \subseteq Ids
      BY DEF Batch, Above, Rows
    <3>2. poll' = [poll EXCEPT !.pc = "create", !.todo = Batch,
                                 !.full = (Cardinality(Batch) = BatchSize)]
      BY <2>2 DEF ReadBatch
    <3> QED
      BY <1>0, <3>1, <3>2 DEF Polls
  <2> QED
    BY <2>1, <2>2
<1>3. AuditInv' /\ TypeOK' /\ Holding' /\ Calm' /\ Rows' = Rows
  BY <1>0, <1>1, <1>2, PollTurns
<1>4. Position' = Position /\ Scanning /\ Scanning'
  BY <1>0, <1>1, <1>2 DEF Position, Scanning
<1>5. PollShape'
  BY <1>0, <1>1, <1>2, <1>3, <1>4, BatchIsLowest DEF HookInv, PollShape
<1>6. \A i : Of(i)' = Of(i)
  BY <1>1 DEF Of
<1>7. PlacesOK' /\ Covered' /\ Counted'
  BY <1>1, <1>3, <1>4, <1>6 DEF HookInv, Events, PlacesOK, Covered, Counted, Overtaken
<1>8. BatchCovered'
  BY <1>2, <1>3, BatchIsLowest DEF BatchCovered
<1> QED
  BY <1>3, <1>5, <1>7, <1>8 DEF HookInv, Events

LEMMA PollGoesOn ==
  ASSUME poll \in Polls, NEW i \in Ids, poll' = [poll EXCEPT !.todo = @ \ {i}, !.at = i]
  PROVE  /\ poll'.pc = poll.pc /\ poll'.todo = poll.todo \ {i} /\ poll'.at = i
         /\ poll'.due = poll.due /\ poll' \in Polls
<1>1. i \in 0 .. MaxId /\ poll.todo \ {i} \in SUBSET Ids
  BY AuditAssumption DEF Polls, Ids
<1>2. poll' = [pc |-> poll.pc, at |-> i, todo |-> poll.todo \ {i}, full |-> poll.full,
               due |-> poll.due]
  BY DEF Polls
<1> QED
  BY <1>1, <1>2 DEF Polls

LEMMA CreateDeliveryStep ==
  ASSUME HookInv, CreateDelivery
  PROVE  HookInv'
<1>1. PICK i, d : i = Min(poll.todo) /\ d = Min(Free)
  OBVIOUS
<1>2. /\ poll.pc = "create" /\ poll.todo \subseteq Rows /\ poll.todo # {} /\ poll.due = {}
      /\ \A k \in poll.todo : poll.at < k
      /\ poll \in Polls /\ Ids \subseteq Nat /\ Rows \subseteq Ids
      /\ poll.at \in Nat /\ cursor \in Nat /\ cursor <= poll.at /\ faults \in Nat
  <2>1. poll.pc = "create" /\ poll.todo # {}
    BY DEF CreateDelivery
  <2>2. poll \in Polls /\ cursor \in 0 .. MaxId /\ faults \in Nat
    BY DEF HookInv, TypeOK, AuditTypeOK, Polls
  <2>3. Ids \subseteq Nat /\ Rows \subseteq Ids /\ 0 .. MaxId \subseteq Nat
    BY AuditAssumption DEF Ids, Rows
  <2>4. PollShape
    BY DEF HookInv
  <2> QED
    BY <2>1, <2>2, <2>3, <2>4 DEF PollShape, Polls, Scanning
<1>3. i \in poll.todo /\ i \in Rows /\ i \in Ids /\ i \in Nat /\ \A k \in poll.todo : i <= k
  BY <1>1, <1>2, FirstExists
<1>4. d \in DeliveryIds /\ delivery[d] = None
  BY <1>1, FirstExists, WebhookAssumption DEF CreateDelivery, Free
<1>5. PICK new : new = [row |-> i, status |-> "PENDING", attempts |-> 0]
  OBVIOUS
<1>6. new \in Delivery /\ new # None /\ new.row = i /\ new.status = "PENDING"
  BY <1>3, <1>5, WebhookAssumption DEF Delivery
<1>7. /\ delivery' = [delivery EXCEPT ![d] = new]
      /\ poll' = [poll EXCEPT !.todo = @ \ {i}, !.at = i]
      /\ UNCHANGED <<auditVars, world, cursor, job, consumer, accepted, stale>>
  BY <1>1, <1>5 DEF CreateDelivery
<1>8. UNCHANGED <<lastId, tx, log, heads, checker, verified, faults, schema, active, up, toggles>>
  BY <1>7 DEF auditVars, world
<1>9. AuditInv' /\ AuditTypeOK' /\ Rows' = Rows
  BY <1>8, AuditKept
<1>10. /\ delivery'[d] = new /\ delivery' \in [DeliveryIds -> Delivery \cup {None}]
       /\ \A e \in DeliveryIds : e # d => delivery'[e] = delivery[e]
  BY <1>4, <1>6, <1>7 DEF HookInv, TypeOK
<1>11. /\ poll'.pc = "create" /\ poll'.todo = poll.todo \ {i} /\ poll'.at = i /\ poll'.due = {}
       /\ poll' \in Polls
  BY <1>2, <1>3, <1>7, PollGoesOn
<1>12. TypeOK'
  BY <1>7, <1>8, <1>9, <1>10, <1>11 DEF HookInv, TypeOK, Polls
<1>13. Holding'
  BY <1>4, <1>6, <1>7, <1>10, <1>11 DEF HookInv, Holding, Busy
<1>14. PollShape'
  BY <1>2, <1>3, <1>7, <1>9, <1>11 DEF HookInv, PollShape, Scanning
<1>15. Position = poll.at /\ Position' = i
  BY <1>2, <1>11 DEF Position, Scanning
<1>16. /\ Of(i)' = Of(i) \cup {d} /\ d \notin Of(i)
       /\ \A k : k # i => Of(k)' = Of(k)
  BY <1>4, <1>6, <1>10 DEF Of
<1>17. Counted'
  <2> SUFFICES ASSUME NEW k \in Ids
               PROVE  Cardinality(Of(k)') <= IF k <= i THEN 1 + faults ELSE faults
    BY <1>8, <1>15 DEF Counted
  <2>1. IsFiniteSet(Of(k)) /\ Cardinality(Of(k)) \in Nat
    BY WebhookAssumption, FS_Subset, FS_CardinalityType DEF Of
  <2>2. Cardinality(Of(k)) <= IF k <= poll.at THEN 1 + faults ELSE faults
    BY <1>15 DEF HookInv, Events, Counted
  <2>3. CASE k = i
    <3>1. Cardinality(Of(k)') = Cardinality(Of(k)) + 1
      BY <1>16, <2>1, <2>3, FS_AddElement
    <3>2. ~ (k <= poll.at)
      BY <1>2, <1>3, <2>3
    <3> QED
      BY <1>2, <1>3, <2>1, <2>2, <2>3, <3>1, <3>2
  <2>4. CASE k # i
    <3>1. k <= poll.at => k <= i
      BY <1>2, <1>3
    <3> QED
      BY <1>2, <1>16, <2>1, <2>2, <2>4, <3>1
  <2> QED
    BY <2>3, <2>4
<1>18. BatchCovered'
  <2> SUFFICES ASSUME NEW k \in Rows, NEW j \in poll.todo \ {i},
                      i < k, k < j, k \notin poll.todo \ {i}
               PROVE  log[j].place < log[k].place
    BY <1>8, <1>9, <1>11 DEF BatchCovered
  <2>1. k # i /\ k \notin poll.todo /\ poll.at < k
    BY <1>2, <1>3
  <2> QED
    BY <2>1 DEF HookInv, Events, BatchCovered
<1>19. Covered'
  <2> SUFFICES ASSUME faults = 0, NEW k \in Rows, k <= i, Of(k)' = {}
               PROVE  \E j \in Rows : j > k /\ log[j].place < log[k].place
    BY <1>8, <1>9, <1>15 DEF Covered, Overtaken
  <2>1. k # i /\ Of(k) = {} /\ k \in Nat
    BY <1>2, <1>16
  <2>2. CASE k <= poll.at
    BY <1>15, <2>1, <2>2 DEF HookInv, Events, Covered, Overtaken
  <2>3. CASE ~ (k <= poll.at)
    <3>1. poll.at < k /\ k < i /\ k \notin poll.todo
      BY <1>2, <1>3, <2>1, <2>3
    <3> QED
      BY <1>3, <3>1 DEF HookInv, Events, BatchCovered
  <2> QED
    BY <2>2, <2>3
<1>20. PlacesOK'
  BY <1>8, <1>9 DEF HookInv, Events, PlacesOK
<1>21. Calm'
  <2> SUFFICES ASSUME faults = 0, toggles = 0 PROVE Calm'
    BY <1>8 DEF Calm
  <2>1. ASSUME NEW c \in Consumers PROVE CalmTurn(c)'
    <3>1. CalmTurn(c)
      BY DEF HookInv, Calm
    <3>2. Busy(c) => consumer[c].at # d /\ consumer[c].at \in DeliveryIds
      BY <1>4 DEF HookInv, Holding
    <3> QED
      BY <1>7, <1>8, <1>10, <3>1, <3>2 DEF CalmTurn, Busy
  <2>2. ASSUME NEW e \in DeliveryIds PROVE CalmDelivery(e)'
    <3>1. CalmDelivery(e)
      BY DEF HookInv, Calm
    <3>2. Posted(e)' = Posted(e) /\ Spare(e)' = Spare(e)
      BY <1>7 DEF Posted, Spare
    <3>3. CASE e = d
      BY <1>4, <1>6, <1>7, <1>8, <1>10, <1>11, <3>1, <3>2, <3>3 DEF CalmDelivery
    <3>4. CASE e # d
      BY <1>7, <1>8, <1>10, <1>11, <3>1, <3>2, <3>4 DEF CalmDelivery
    <3> QED
      BY <3>3, <3>4
  <2> QED
    BY <1>8, <2>1, <2>2 DEF HookInv, Calm
<1> QED
  BY <1>9, <1>12, <1>13, <1>14, <1>17, <1>18, <1>19, <1>20, <1>21 DEF HookInv, Events

(* A fault may only have made what the log does not explain.               *)
LEMMA FaultStep ==
  ASSUME HookInv, SwallowFailure \/ PollDies
  PROVE  HookInv'
<1>1. /\ UNCHANGED <<lastId, tx, log, heads, checker, verified, world, cursor, delivery, job,
                     consumer, accepted, stale>>
      /\ faults' = faults + 1 /\ faults \in Nat
  BY DEF SwallowFailure, PollDies, HookInv, TypeOK, AuditTypeOK
<1>2. AuditInv' /\ AuditTypeOK' /\ Rows' = Rows
  BY <1>1, AuditKept
<1>3. /\ poll \in Polls /\ cursor \in 0 .. MaxId /\ cursor \in Nat /\ poll.at \in Nat
      /\ Ids \subseteq Nat /\ Rows \subseteq Ids /\ 0 \in 0 .. MaxId
      /\ PollShape
  BY AuditAssumption DEF HookInv, TypeOK, Polls, Ids, Rows
<1>4. /\ poll' \in Polls /\ PollShape' /\ poll'.due \subseteq poll.due
      /\ poll'.todo \subseteq poll.todo
      /\ Position' <= Position \/ (poll'.at = Position' /\ Position' \in poll.todo)
      /\ Position' \in Nat
      /\ \A k \in poll.todo \ poll'.todo : poll'.todo # {} => k <= poll'.at
      /\ poll'.todo # {} => poll.at <= poll'.at
      /\ Position' < Position => poll'.todo = {}
  <2>1. CASE PollDies
    <3>1. poll' = [pc |-> "idle", at |-> 0, todo |-> {}, full |-> FALSE, due |-> {}]
      BY <2>1 DEF PollDies, IdlePoll
    <3> QED
      BY <1>1, <1>2, <1>3, <3>1 DEF Polls, PollShape, Position, Scanning
  <2>2. CASE SwallowFailure
    <3>1. PICK i : i = Min(poll.todo)
      OBVIOUS
    <3>2. poll.pc = "create" /\ poll.todo # {} /\ poll' = [poll EXCEPT !.todo = @ \ {i}, !.at = i]
      BY <2>2, <3>1 DEF SwallowFailure
    <3>3. i \in poll.todo /\ i \in Rows /\ i \in Ids /\ i \in Nat /\ \A k \in poll.todo : i <= k
      BY <1>3, <3>1, <3>2, FirstExists DEF PollShape
    <3>4. /\ poll'.pc = "create" /\ poll'.todo = poll.todo \ {i} /\ poll'.at = i
          /\ poll'.due = poll.due /\ poll' \in Polls
      BY <1>3, <3>2, <3>3, PollGoesOn
    <3>5. PollShape'
      BY <1>1, <1>2, <1>3, <3>2, <3>3, <3>4 DEF PollShape, Scanning
    <3>6. poll.at < i /\ cursor <= poll.at
      BY <1>3, <3>2, <3>3 DEF PollShape, Scanning
    <3>7. Position = poll.at /\ Position' = i
      BY <3>2, <3>4 DEF Position, Scanning
    <3>8. \A k \in poll.todo \ poll'.todo : k = i
      BY <3>4
    <3> QED
      BY <1>3, <3>3, <3>4, <3>5, <3>6, <3>7, <3>8
  <2> QED
    BY <2>1, <2>2
<1>5. TypeOK'
  BY <1>1, <1>2, <1>4 DEF HookInv, TypeOK, Polls, world
<1>6. Holding'
  BY <1>1, <1>4 DEF HookInv, Holding, Busy
<1>7. Calm' /\ Covered'
  BY <1>1 DEF Calm, Covered
<1>8. PlacesOK' /\ \A k : Of(k)' = Of(k)
  BY <1>1, <1>2 DEF HookInv, Events, PlacesOK, Of
<1>9. Counted'
  <2> SUFFICES ASSUME NEW k \in Ids
               PROVE  Cardinality(Of(k)) <= IF k <= Position' THEN 2 + faults ELSE 1 + faults
    BY <1>1, <1>8 DEF Counted
  <2>1. Cardinality(Of(k)) \in Nat /\ k \in Nat
    BY <1>3, WebhookAssumption, FS_Subset, FS_CardinalityType DEF Of
  <2>2. Cardinality(Of(k)) <= IF k <= Position THEN 1 + faults ELSE faults
    BY DEF HookInv, Events, Counted
  <2> QED
    BY <1>1, <2>1, <2>2
<1>10. BatchCovered'
  <2> SUFFICES ASSUME NEW k \in Rows, NEW j \in poll'.todo,
                      poll'.at < k, k < j, k \notin poll'.todo
               PROVE  log[j].place < log[k].place
    BY <1>1, <1>2 DEF BatchCovered
  <2>1. poll.at < k /\ k \notin poll.todo /\ j \in poll.todo
    <3>1. k \in Nat /\ poll'.at \in Nat
      BY <1>3, <1>4, AuditAssumption DEF Polls
    <3> QED
      BY <1>3, <1>4, <3>1
  <2> QED
    BY <2>1 DEF HookInv, Events, BatchCovered
<1> QED
  BY <1>2, <1>4, <1>5, <1>6, <1>7, <1>8, <1>9, <1>10 DEF HookInv, Events

-----------------------------------------------------------------------------
(* A consumer's step concerns the delivery it is at, which nobody else is. *)
Turns == [pc : {"idle", "load", "refuse", "post", "record", "settle"},
          at : DeliveryIds \cup {None}, ok : BOOLEAN]
WellTyped ==
  /\ delivery' \in [DeliveryIds -> Delivery \cup {None}]
  /\ job' \in [DeliveryIds -> Job \cup {None}]
  /\ consumer' \in [Consumers -> Turns]
  /\ accepted' \in [DeliveryIds -> Nat]
Alone(c, d) ==
  /\ Busy(c) => consumer[c].at = d
  /\ consumer'[c].pc # "idle" =>
       consumer'[c].at = d /\ job'[d] # None /\ job'[d].state = "active"
  /\ \A e \in Consumers \ {c} : consumer'[e] = consumer[e] /\ ~ (Busy(e) /\ consumer[e].at = d)
  /\ \A e \in DeliveryIds \ {d} :
       delivery'[e] = delivery[e] /\ job'[e] = job[e] /\ accepted'[e] = accepted[e]
  /\ delivery[d] # None /\ delivery'[d] # None /\ delivery'[d].row = delivery[d].row
Elsewhere ==
  UNCHANGED <<lastId, tx, log, heads, checker, verified, world, cursor, poll, stale>>

LEMMA PostedHere ==
  ASSUME HookInv, NEW c \in Consumers, NEW d \in DeliveryIds, Alone(c, d)
  PROVE  /\ Busy(c) => (Posted(d) <=> consumer[c].pc \in {"record", "settle"})
         /\ Posted(d)' <=> consumer'[c].pc \in {"record", "settle"}
         /\ \A e \in DeliveryIds \ {d} : Posted(e)' <=> Posted(e)
<1>1. \A e \in Consumers \ {c} : consumer'[e] = consumer[e]
        /\ ~ (consumer[e].pc \in {"record", "settle"} /\ consumer[e].at = d)
  BY DEF Alone, Busy
<1>2. Busy(c) => (Posted(d) <=> consumer[c].pc \in {"record", "settle"})
  BY <1>1 DEF Alone, Posted
<1>3. Posted(d)' <=> consumer'[c].pc \in {"record", "settle"}
  BY <1>1 DEF Alone, Posted
<1>4. ASSUME NEW e \in DeliveryIds \ {d} PROVE Posted(e)' <=> Posted(e)
  <2>1. /\ ~ (consumer[c].pc \in {"record", "settle"} /\ consumer[c].at = e)
        /\ ~ (consumer'[c].pc \in {"record", "settle"} /\ consumer'[c].at = e)
    BY <1>4 DEF Alone, Busy
  <2> QED
    BY <1>1, <2>1 DEF Posted
<1> QED
  BY <1>2, <1>3, <1>4

LEMMA ConsumerKeeps ==
  ASSUME HookInv, NEW c \in Consumers, NEW d \in DeliveryIds,
         WellTyped, Alone(c, d), Elsewhere, faults' = faults \/ faults' = faults + 1,
         faults' = 0 /\ toggles = 0 => CalmTurn(c)' /\ CalmDelivery(d)'
  PROVE  HookInv'
<1>1. UNCHANGED <<lastId, tx, log, heads, checker, verified, schema, active, up, toggles, cursor,
                  poll, stale>>
  BY DEF Elsewhere, world
<1>2. AuditInv' /\ AuditTypeOK' /\ Rows' = Rows /\ faults \in Nat
  BY <1>1, AuditKept
<1>3. TypeOK'
  BY <1>1, <1>2 DEF HookInv, TypeOK, WellTyped, Turns
<1>4. Holding'
  <2>1. \A e \in Consumers : Busy(e)' =>
          /\ consumer'[e].at \in DeliveryIds
          /\ job'[consumer'[e].at] # None /\ job'[consumer'[e].at].state = "active"
    BY DEF HookInv, Holding, Busy, Alone
  <2>2. ASSUME NEW e \in Consumers, NEW f \in Consumers, Busy(e)', Busy(f)',
               consumer'[e].at = consumer'[f].at
        PROVE  e = f
    BY <2>2 DEF HookInv, Holding, Busy, Alone
  <2>3. \A e \in DeliveryIds : job'[e] # None \/ e \in poll.due => delivery'[e] # None
    BY DEF HookInv, Holding, Alone
  <2> QED
    BY <1>1, <2>1, <2>2, <2>3 DEF Holding
<1>5. Position' = Position /\ (Scanning' <=> Scanning)
  BY <1>1 DEF Position, Scanning
<1>6. PollShape'
  BY <1>1, <1>2, <1>5 DEF HookInv, PollShape
<1>7. Events'
  <2>1. \A e \in DeliveryIds :
          /\ delivery'[e] = None <=> delivery[e] = None
          /\ delivery[e] # None => delivery'[e].row = delivery[e].row
    BY DEF Alone
  <2> QED
    BY <1>1, <1>5, <2>1, EventsStay
<1>8. Calm'
  <2> SUFFICES ASSUME faults' = 0, toggles = 0 PROVE Calm'
    BY <1>1 DEF Calm
  <2>1. faults = 0 /\ toggles = 0 /\ CalmTurn(c)' /\ CalmDelivery(d)'
    BY <1>2
  <2>2. ASSUME NEW e \in Consumers \ {c} PROVE CalmTurn(e)'
    <3>1. CalmTurn(e)
      BY <2>1 DEF HookInv, Calm
    <3>2. consumer'[e] = consumer[e]
            /\ (Busy(e) => consumer[e].at \in DeliveryIds /\ consumer[e].at # d)
      BY DEF Alone, HookInv, Holding
    <3>3. Busy(e) => delivery'[consumer[e].at] = delivery[consumer[e].at]
      BY <3>2 DEF Alone
    <3> QED
      BY <1>1, <3>1, <3>2, <3>3 DEF CalmTurn, Busy
  <2>3. ASSUME NEW e \in DeliveryIds \ {d} PROVE CalmDelivery(e)'
    <3>1. CalmDelivery(e)
      BY <2>1 DEF HookInv, Calm
    <3>2. Posted(e)' <=> Posted(e)
      BY PostedHere
    <3>3. Spare(e)' = Spare(e) /\ delivery'[e] = delivery[e] /\ job'[e] = job[e]
            /\ accepted'[e] = accepted[e]
      BY <1>1 DEF Spare, Alone
    <3> QED
      BY <1>1, <3>1, <3>2, <3>3 DEF CalmDelivery
  <2> QED
    BY <1>1, <2>1, <2>2, <2>3 DEF HookInv, Calm
<1> QED
  BY <1>2, <1>3, <1>4, <1>6, <1>7, <1>8 DEF HookInv

LEMMA TurnFacts ==
  ASSUME HookInv, NEW c \in Consumers, Busy(c), NEW d, d = consumer[c].at,
         NEW pc \in {"load", "refuse", "post", "record", "settle"}, NEW ok \in BOOLEAN,
         Turn(c, pc, ok)
  PROVE  /\ consumer'[c].pc = pc /\ consumer'[c].ok = ok /\ consumer'[c].at = d
         /\ consumer' \in [Consumers -> Turns]
         /\ \A e \in Consumers \ {c} : consumer'[e] = consumer[e]
         /\ d \in DeliveryIds /\ delivery[d] # None /\ job[d] # None /\ job[d].state = "active"
         /\ delivery[d] \in Delivery /\ job[d] \in Job
         /\ \A e \in Consumers \ {c} : ~ (Busy(e) /\ consumer[e].at = d)
<1>1. consumer \in [Consumers -> Turns]
  BY DEF HookInv, TypeOK, Turns
<1>2. consumer' = [consumer EXCEPT ![c].pc = pc, ![c].ok = ok]
  BY DEF Turn
<1>3. consumer[c] \in Turns /\ consumer'[c] = [consumer[c] EXCEPT !.pc = pc, !.ok = ok]
  BY <1>1, <1>2
<1>4. /\ consumer'[c].pc = pc /\ consumer'[c].ok = ok /\ consumer'[c].at = d
      /\ consumer'[c] \in Turns
  BY <1>3 DEF Turns
<1>5. \A e \in Consumers \ {c} : consumer'[e] = consumer[e]
  BY <1>1, <1>2
<1>6. d \in DeliveryIds /\ delivery[d] # None /\ job[d] # None /\ job[d].state = "active"
        /\ \A e \in Consumers \ {c} : ~ (Busy(e) /\ consumer[e].at = d)
  BY DEF HookInv, Holding
<1>7. delivery[d] \in Delivery /\ job[d] \in Job
  BY <1>6 DEF HookInv, TypeOK
<1> QED
  BY <1>1, <1>2, <1>4, <1>5, <1>6, <1>7

LEMMA TakeJobStep ==
  ASSUME HookInv, NEW c \in Consumers, TakeJob(c)
  PROVE  HookInv'
<1>1. PICK d \in DeliveryIds :
        /\ job[d] # None /\ job[d].state = "waiting"
        /\ job' = [job EXCEPT ![d].state = "active"]
        /\ consumer' = [consumer EXCEPT ![c] = [pc |-> "load", at |-> d, ok |-> FALSE]]
  BY DEF TakeJob
<1>2. /\ ~ Busy(c) /\ Elsewhere /\ faults' = faults
      /\ UNCHANGED <<schema, up, active, toggles, delivery, accepted, stale, poll>>
  BY DEF TakeJob, Busy, Elsewhere, auditVars, world
<1>3. /\ delivery \in [DeliveryIds -> Delivery \cup {None}] /\ delivery[d] # None
      /\ job \in [DeliveryIds -> Job \cup {None}] /\ job[d] \in Job
      /\ consumer \in [Consumers -> Turns] /\ accepted \in [DeliveryIds -> Nat]
      /\ \A e \in Consumers : ~ (Busy(e) /\ consumer[e].at = d)
  <2>1. delivery[d] # None /\ \A e \in Consumers : ~ (Busy(e) /\ consumer[e].at = d)
    BY <1>1 DEF HookInv, Holding
  <2> QED
    BY <1>1, <2>1 DEF HookInv, TypeOK, Turns
<1>4. /\ job'[d] \in Job /\ job'[d].state = "active" /\ job'[d] # None
      /\ \A e \in DeliveryIds \ {d} : job'[e] = job[e]
  BY <1>1, <1>3, WebhookAssumption DEF Job
<1>5. job' \in [DeliveryIds -> Job \cup {None}]
  BY <1>1, <1>3, <1>4
<1>6. /\ consumer' \in [Consumers -> Turns]
      /\ consumer'[c].pc = "load" /\ consumer'[c].at = d
      /\ \A e \in Consumers \ {c} : consumer'[e] = consumer[e]
  BY <1>1, <1>3 DEF Turns
<1>7. WellTyped /\ Alone(c, d)
  BY <1>2, <1>3, <1>4, <1>5, <1>6 DEF WellTyped, Alone, Busy
<1>8. ASSUME faults' = 0, toggles = 0 PROVE CalmTurn(c)' /\ CalmDelivery(d)'
  <2>1. CalmDelivery(d)
    BY <1>2, <1>8 DEF HookInv, Calm
  <2>2. ~ Posted(d) /\ ~ Posted(d)'
    BY <1>3, <1>6, <1>7, PostedHere DEF Posted, Busy
  <2>3. CalmDelivery(d)'
    BY <1>1, <1>2, <1>3, <1>4, <2>1, <2>2 DEF CalmDelivery, Spare
  <2> QED
    BY <1>6, <2>3 DEF CalmTurn
<1> QED
  BY <1>2, <1>7, <1>8, ConsumerKeeps

LEMMA LoadDeliveryStep ==
  ASSUME HookInv, NEW c \in Consumers, LoadDelivery(c)
  PROVE  HookInv'
<1>1. PICK d : d = consumer[c].at
  OBVIOUS
<1>2. /\ consumer[c].pc = "load" /\ Busy(c) /\ Elsewhere /\ faults' = faults
      /\ UNCHANGED <<schema, up, active, toggles, delivery, job, accepted, stale, poll>>
  BY DEF LoadDelivery, Busy, Elsewhere, auditVars, world
<1>3. PICK pc \in {"settle", "post", "refuse"}, ok \in BOOLEAN :
        /\ Turn(c, pc, ok)
        /\ schema # "public" <=> (pc = "settle" /\ ok = TRUE)
        /\ schema = "public" /\ active => pc = "post"
        /\ pc = "settle" => ok /\ schema # "public"
  <2>1. CASE schema # "public"
    BY <2>1 DEF LoadDelivery
  <2>2. CASE schema = "public" /\ active
    BY <2>2 DEF LoadDelivery
  <2>3. CASE schema = "public" /\ ~ active
    BY <2>3 DEF LoadDelivery
  <2> QED
    BY <2>1, <2>2, <2>3
<1>4. /\ consumer'[c].pc = pc /\ consumer'[c].ok = ok /\ consumer'[c].at = d
      /\ consumer' \in [Consumers -> Turns]
      /\ \A e \in Consumers \ {c} : consumer'[e] = consumer[e]
      /\ d \in DeliveryIds /\ delivery[d] # None /\ job[d] # None /\ job[d].state = "active"
      /\ \A e \in Consumers \ {c} : ~ (Busy(e) /\ consumer[e].at = d)
  BY <1>1, <1>2, <1>3, TurnFacts
<1>5. WellTyped /\ Alone(c, d)
  BY <1>1, <1>2, <1>4 DEF WellTyped, Alone, Busy, HookInv, TypeOK
<1>6. ASSUME faults' = 0, toggles = 0 PROVE CalmTurn(c)' /\ CalmDelivery(d)'
  <2>1. CalmDelivery(d) /\ active
    BY <1>2, <1>4, <1>6 DEF HookInv, Calm
  <2>2. ~ Posted(d) /\ (Posted(d)' => schema # "public")
    BY <1>2, <1>3, <1>4, <1>5, PostedHere
  <2>3. CalmDelivery(d)'
    BY <1>2, <1>4, <2>1, <2>2 DEF CalmDelivery, Spare
  <2>4. CalmTurn(c)'
    BY <1>2, <1>3, <1>4, <2>1 DEF CalmTurn
  <2> QED
    BY <2>3, <2>4
<1> QED
  BY <1>2, <1>4, <1>5, <1>6, ConsumerKeeps

LEMMA PostStep ==
  ASSUME HookInv, NEW c \in Consumers, Post(c) \/ AnswerTooLate(c)
  PROVE  HookInv'
<1>1. PICK d : d = consumer[c].at
  OBVIOUS
<1>2. /\ consumer[c].pc = "post" /\ Busy(c) /\ Elsewhere
      /\ UNCHANGED <<schema, up, active, toggles, delivery, job, stale, poll>>
  BY DEF Post, AnswerTooLate, Busy, Elsewhere, auditVars, world
<1>a. faults \in Nat /\ up \in BOOLEAN /\ accepted \in [DeliveryIds -> Nat]
  BY DEF HookInv, TypeOK, AuditTypeOK
<1>b. \/ Post(c) /\ faults' = faults
      \/ AnswerTooLate(c) /\ faults' = faults + 1 /\ faults' # faults /\ faults' # 0
  <2>1. Post(c) => faults' = faults
    BY DEF Post, auditVars
  <2>2. AnswerTooLate(c) => faults' = faults + 1
    BY DEF AnswerTooLate
  <2> QED
    BY <1>a, <2>1, <2>2
<1>c. Post(c) => accepted' = [accepted EXCEPT ![d] = IF up THEN @ + 1 ELSE @]
  BY <1>1 DEF Post
<1>d. AnswerTooLate(c) => accepted' = [accepted EXCEPT ![d] = @ + 1]
  BY <1>1 DEF AnswerTooLate
<1>3. PICK ok \in BOOLEAN : Turn(c, "record", ok) /\ (faults' = faults => ok = up)
  <2>1. CASE Post(c)
    BY <1>a, <2>1 DEF Post
  <2>2. CASE AnswerTooLate(c) /\ faults' # faults
    BY <2>2 DEF AnswerTooLate
  <2> QED
    BY <1>b, <2>1, <2>2
<1>4. /\ consumer'[c].pc = "record" /\ consumer'[c].ok = ok /\ consumer'[c].at = d
      /\ consumer' \in [Consumers -> Turns]
      /\ \A e \in Consumers \ {c} : consumer'[e] = consumer[e]
      /\ d \in DeliveryIds /\ delivery[d] # None /\ job[d] # None /\ job[d].state = "active"
      /\ \A e \in Consumers \ {c} : ~ (Busy(e) /\ consumer[e].at = d)
  BY <1>1, <1>2, <1>3, TurnFacts
<1>5. /\ accepted' \in [DeliveryIds -> Nat]
      /\ \A e \in DeliveryIds \ {d} : accepted'[e] = accepted[e]
      /\ faults' = faults => accepted'[d] = IF up THEN accepted[d] + 1 ELSE accepted[d]
      /\ accepted[d] \in Nat
  <2>1. CASE Post(c)
    BY <1>a, <1>c, <1>4, <2>1
  <2>2. CASE AnswerTooLate(c) /\ faults' # faults
    BY <1>a, <1>d, <1>4, <2>2
  <2> QED
    BY <1>b, <2>1, <2>2
<1>6. WellTyped /\ Alone(c, d)
  BY <1>1, <1>2, <1>4, <1>5 DEF WellTyped, Alone, Busy, HookInv, TypeOK
<1>7. ASSUME faults' = 0, toggles = 0 PROVE CalmTurn(c)' /\ CalmDelivery(d)'
  <2>0. faults = 0 /\ faults' = faults
    BY <1>a, <1>b, <1>7
  <2>1. CalmDelivery(d) /\ schema = "public"
    BY <1>2, <1>4, <1>7, <2>0 DEF HookInv, Calm, CalmTurn
  <2>2. ~ Posted(d) /\ Posted(d)'
    BY <1>2, <1>4, <1>6, PostedHere
  <2>3. CalmDelivery(d)'
    BY <1>2, <1>4, <1>5, <2>0, <2>1, <2>2 DEF CalmDelivery, Spare
  <2>4. CalmTurn(c)'
    BY <1>2, <1>3, <1>4, <2>0, <2>1 DEF CalmTurn
  <2> QED
    BY <2>3, <2>4
<1> QED
  BY <1>2, <1>4, <1>6, <1>7, <1>b, ConsumerKeeps

(* The outcome is written: the delivery is PENDING no longer.              *)
LEMMA RecordStep ==
  ASSUME HookInv, NEW c \in Consumers, RecordAttempt(c) \/ RefuseInactive(c)
  PROVE  HookInv'
<1>1. PICK d : d = consumer[c].at
  OBVIOUS
<1>2. /\ consumer[c].pc \in {"record", "refuse"} /\ Busy(c) /\ Elsewhere /\ faults' = faults
      /\ UNCHANGED <<schema, up, active, toggles, job, accepted, stale, poll>>
  BY DEF RecordAttempt, RefuseInactive, Busy, Elsewhere, auditVars, world
<1>a. consumer[c].ok \in BOOLEAN
  BY DEF HookInv, TypeOK
<1>3. PICK ok \in BOOLEAN : Turn(c, "settle", ok) /\ (consumer[c].pc = "record" => ok = consumer[c].ok)
  BY <1>a DEF RecordAttempt, RefuseInactive
<1>4. /\ consumer'[c].pc = "settle" /\ consumer'[c].ok = ok /\ consumer'[c].at = d
      /\ consumer' \in [Consumers -> Turns]
      /\ \A e \in Consumers \ {c} : consumer'[e] = consumer[e]
      /\ d \in DeliveryIds /\ delivery[d] # None /\ job[d] # None /\ job[d].state = "active"
      /\ delivery[d] \in Delivery /\ job[d] \in Job
      /\ \A e \in Consumers \ {c} : ~ (Busy(e) /\ consumer[e].at = d)
  BY <1>1, <1>2, <1>3, TurnFacts
<1>5. PICK s \in {"SUCCEEDED", "FAILED", "EXHAUSTED"}, n \in 0 .. MaxAttempts :
        delivery' = [delivery EXCEPT ![d].attempts = n, ![d].status = s]
  <2>1. CASE RecordAttempt(c)
    <3>1. PICK s \in {"SUCCEEDED", "FAILED", "EXHAUSTED"} :
            delivery' = [delivery EXCEPT ![d].attempts = job[d].made + 1, ![d].status = s]
      BY <1>1, <2>1 DEF RecordAttempt
    <3>2. job[d].made + 1 \in 0 .. MaxAttempts
      BY <1>4, WebhookAssumption DEF Job
    <3> QED
      BY <3>1, <3>2
  <2>2. CASE RefuseInactive(c)
    <3>1. delivery' = [delivery EXCEPT ![d].status = "FAILED"]
      BY <1>1, <2>2 DEF RefuseInactive
    <3>2. delivery[d] = [delivery[d] EXCEPT !.attempts = delivery[d].attempts]
            /\ delivery[d].attempts \in 0 .. MaxAttempts
      BY <1>4 DEF Delivery
    <3>3. [delivery[d] EXCEPT !.status = "FAILED"]
            = [delivery[d] EXCEPT !.attempts = delivery[d].attempts, !.status = "FAILED"]
      BY <1>4 DEF Delivery
    <3>4. delivery' = [delivery EXCEPT ![d].attempts = delivery[d].attempts, ![d].status = "FAILED"]
      BY <3>1, <3>3
    <3> QED
      BY <3>2, <3>4
  <2> QED
    BY <2>1, <2>2
<1>6. /\ delivery'[d] \in Delivery /\ delivery'[d].status = s /\ delivery'[d].row = delivery[d].row
      /\ \A e \in DeliveryIds \ {d} : delivery'[e] = delivery[e]
      /\ delivery' \in [DeliveryIds -> Delivery \cup {None}]
  <2>1. delivery \in [DeliveryIds -> Delivery \cup {None}]
    BY DEF HookInv, TypeOK
  <2>2. delivery'[d] = [delivery[d] EXCEPT !.attempts = n, !.status = s]
    BY <1>4, <1>5, <2>1
  <2>3. delivery'[d] \in Delivery /\ delivery'[d].status = s /\ delivery'[d].row = delivery[d].row
    BY <1>4, <2>2 DEF Delivery
  <2> QED
    BY <1>4, <1>5, <2>1, <2>3
<1>7. delivery'[d] # None
  BY <1>6, WebhookAssumption
<1>8. WellTyped /\ Alone(c, d)
  BY <1>1, <1>2, <1>4, <1>6, <1>7 DEF WellTyped, Alone, Busy, HookInv, TypeOK
<1>9. ASSUME faults' = 0, toggles = 0 PROVE CalmTurn(c)' /\ CalmDelivery(d)'
  <2>1. CalmDelivery(d) /\ CalmTurn(c)
    BY <1>2, <1>4, <1>9 DEF HookInv, Calm
  <2>2. consumer[c].pc = "record" /\ Posted(d) /\ Posted(d)'
    BY <1>2, <1>4, <1>8, <2>1, PostedHere DEF CalmTurn
  <2>3. CalmDelivery(d)'
    BY <1>2, <1>4, <1>6, <1>7, <2>1, <2>2 DEF CalmDelivery, Spare
  <2>4. CalmTurn(c)'
    BY <1>2, <1>3, <1>4, <1>6, <2>1, <2>2 DEF CalmTurn
  <2> QED
    BY <2>3, <2>4
<1> QED
  BY <1>2, <1>4, <1>8, <1>9, ConsumerKeeps

LEMMA JobAgain ==
  ASSUME NEW j \in Job
  PROVE  /\ [j EXCEPT !.state = "waiting", !.stalls = 1] \in Job
         /\ j.made + 1 < MaxAttempts => [j EXCEPT !.state = "waiting", !.made = @ + 1] \in Job
<1>1. [j EXCEPT !.state = "waiting"] \in Job /\ [j EXCEPT !.state = "waiting"].made = j.made
  BY DEF Job
<1>2. \A k \in Job : [k EXCEPT !.stalls = 1] \in Job
  BY DEF Job
<1>3. \A k \in Job : k.made + 1 < MaxAttempts => [k EXCEPT !.made = @ + 1] \in Job
  BY WebhookAssumption DEF Job
<1> QED
  BY <1>1, <1>2, <1>3

(* A consumer is through with its job, or dies.                            *)
LEMMA SettleStep ==
  ASSUME HookInv, NEW c \in Consumers, Settle(c) \/ ConsumerDies(c)
  PROVE  HookInv'
<1>1. PICK d : d = consumer[c].at
  OBVIOUS
<1>2. /\ Busy(c) /\ Elsewhere /\ consumer' = [consumer EXCEPT ![c] = IdleConsumer]
      /\ UNCHANGED <<schema, up, active, toggles, delivery, accepted, stale, poll>>
  BY DEF Settle, ConsumerDies, Busy, Elsewhere, auditVars, world
<1>3. /\ d \in DeliveryIds /\ delivery[d] # None /\ job[d] # None /\ job[d].state = "active"
      /\ \A e \in Consumers \ {c} : ~ (Busy(e) /\ consumer[e].at = d)
  BY <1>1, <1>2 DEF HookInv, Holding
<1>4. /\ consumer' \in [Consumers -> Turns] /\ consumer'[c].pc = "idle"
      /\ \A e \in Consumers \ {c} : consumer'[e] = consumer[e]
  BY <1>2 DEF HookInv, TypeOK, Turns, IdleConsumer
<1>5. faults \in Nat /\ job \in [DeliveryIds -> Job \cup {None}] /\ job[d] \in Job
  BY <1>3 DEF HookInv, TypeOK, AuditTypeOK
<1>6. \/ Settle(c) /\ faults' = faults
      \/ ConsumerDies(c) /\ faults' = faults + 1 /\ faults' # faults /\ faults' # 0
  <2>1. Settle(c) => faults' = faults
    BY DEF Settle, auditVars
  <2>2. ConsumerDies(c) => faults' = faults + 1
    BY DEF ConsumerDies
  <2> QED
    BY <1>5, <2>1, <2>2
<1> DEFINE settled == IF consumer[c].ok \/ job[d].made + 1 >= MaxAttempts THEN None
                      ELSE [job[d] EXCEPT !.state = "waiting", !.made = @ + 1]
           stalled == IF job[d].stalls > 0 THEN None
                      ELSE [job[d] EXCEPT !.state = "waiting", !.stalls = 1]
<1>7. PICK j : /\ job' = [job EXCEPT ![d] = j]
               /\ Settle(c) => j = settled
               /\ ~ Settle(c) => j = stalled
  <2>1. Settle(c) => job' = [job EXCEPT ![d] = settled]
    BY <1>1 DEF Settle
  <2>2. ConsumerDies(c) => job' = [job EXCEPT ![d] = stalled]
    BY <1>1 DEF ConsumerDies
  <2> HIDE DEF settled, stalled
  <2> QED
    BY <2>1, <2>2
<1>a. j \in Job \cup {None} /\ (Settle(c) /\ consumer[c].ok => j = None)
  <2>1. job[d].made + 1 >= MaxAttempts \/ job[d].made + 1 < MaxAttempts
    BY <1>5, WebhookAssumption DEF Job
  <2> QED
    BY <1>5, <1>7, <2>1, JobAgain
<1>8. /\ job' \in [DeliveryIds -> Job \cup {None}] /\ job'[d] = j
      /\ \A e \in DeliveryIds \ {d} : job'[e] = job[e]
  BY <1>3, <1>5, <1>7, <1>a
<1>9. WellTyped /\ Alone(c, d)
  BY <1>1, <1>2, <1>3, <1>4, <1>8 DEF WellTyped, Alone, Busy, HookInv, TypeOK
<1>10. ASSUME faults' = 0, toggles = 0 PROVE CalmTurn(c)' /\ CalmDelivery(d)'
  <2>1. CalmDelivery(d) /\ CalmTurn(c) /\ Settle(c) /\ faults' = faults
    BY <1>2, <1>3, <1>6, <1>10 DEF HookInv, Calm
  <2>2. consumer[c].pc = "settle"
    BY <2>1 DEF Settle
  <2>3. schema = "public" => delivery[d].status # "PENDING"
    BY <1>1, <2>1, <2>2 DEF CalmTurn
  <2>4. up => j = None
    BY <1>a, <2>1, <2>2 DEF CalmTurn
  <2>a. up \in BOOLEAN /\ accepted[d] \in Nat
    BY <1>3 DEF HookInv, TypeOK
  <2>5. CalmDelivery(d)'
    BY <1>2, <1>3, <1>8, <2>1, <2>3, <2>4, <2>a DEF CalmDelivery, Spare
  <2>6. CalmTurn(c)'
    BY <1>4 DEF CalmTurn
  <2> QED
    BY <2>5, <2>6
<1> QED
  BY <1>2, <1>3, <1>6, <1>9, <1>10, ConsumerKeeps

(* A list out of date queues a delivery again that was done with: that is  *)
(* on record, and it cannot happen to it twice.                            *)
LEMMA EnqueueStep ==
  ASSUME HookInv, Enqueue
  PROVE  HookInv'
<1>1. PICK d : d = Min(poll.due)
  OBVIOUS
<1>2. /\ poll.pc = "queue" /\ poll.due # {} /\ poll \in Polls /\ poll.todo = {}
      /\ poll.due \subseteq Nat /\ poll.due \subseteq DeliveryIds
  BY WebhookAssumption DEF Enqueue, HookInv, TypeOK, Polls, PollShape
<1>3. d \in poll.due /\ d \in DeliveryIds /\ delivery[d] # None
  BY <1>1, <1>2, FirstExists DEF HookInv, Holding
<1>4. /\ job' = [job EXCEPT ![d] = IF @ = None THEN NewJob ELSE @]
      /\ stale' = IF job[d] = None /\ delivery[d].status # "PENDING" THEN stale \cup {d} ELSE stale
      /\ poll' = [poll EXCEPT !.due = @ \ {d}]
      /\ UNCHANGED <<auditVars, world, cursor, delivery, consumer, accepted>>
  BY <1>1 DEF Enqueue
<1>5. UNCHANGED <<lastId, tx, log, heads, checker, verified, faults, schema, active, up, toggles>>
  BY <1>4 DEF auditVars, world
<1>6. AuditInv' /\ AuditTypeOK' /\ Rows' = Rows
  BY <1>5, AuditKept
<1>7. NewJob \in Job /\ NewJob # None /\ NewJob.state = "waiting"
  BY WebhookAssumption DEF NewJob, Job
<1>8. /\ job' \in [DeliveryIds -> Job \cup {None}]
      /\ job'[d] = (IF job[d] = None THEN NewJob ELSE job[d])
      /\ \A e \in DeliveryIds \ {d} : job'[e] = job[e]
  BY <1>3, <1>4, <1>7 DEF HookInv, TypeOK
<1>9. /\ poll'.pc = "queue" /\ poll'.todo = {} /\ poll'.at = poll.at
      /\ poll'.due = poll.due \ {d} /\ poll' \in Polls
  BY <1>2, <1>4 DEF Polls
<1>10. TypeOK'
  BY <1>3, <1>4, <1>5, <1>6, <1>8, <1>9 DEF HookInv, TypeOK, Polls
<1>11. Holding'
  <2>1. \A c \in Consumers : Busy(c) =>
          consumer[c].at \in DeliveryIds /\ job'[consumer[c].at] = job[consumer[c].at]
    BY <1>8 DEF HookInv, Holding
  <2> QED
    BY <1>3, <1>4, <1>8, <1>9, <2>1 DEF HookInv, Holding, Busy
<1>12. Position' = Position /\ ~ Scanning'
  BY <1>2, <1>4, <1>9 DEF Position, Scanning
<1>13. PollShape'
  BY <1>4, <1>6, <1>9, <1>12 DEF HookInv, PollShape
<1>14. Events'
  BY <1>2, <1>4, <1>5, <1>9, <1>12, EventsStay
<1>15. Calm'
  <2> SUFFICES ASSUME faults = 0, toggles = 0 PROVE Calm'
    BY <1>5 DEF Calm
  <2>1. ASSUME NEW c \in Consumers PROVE CalmTurn(c)'
    BY <1>4, <1>5 DEF HookInv, Calm, CalmTurn
  <2>2. \A e : Posted(e)' <=> Posted(e)
    BY <1>4 DEF Posted
  <2>3. ASSUME NEW e \in DeliveryIds, e # d PROVE CalmDelivery(e)'
    <3>1. CalmDelivery(e)
      BY DEF HookInv, Calm
    <3>2. Spare(e)' = Spare(e) /\ (e \in stale' <=> e \in stale)
      BY <1>4, <2>3 DEF Spare
    <3> QED
      BY <1>4, <1>5, <1>8, <1>9, <2>2, <2>3, <3>1, <3>2 DEF CalmDelivery
  <2>4. CalmDelivery(d)'
    <3>1. CalmDelivery(d) /\ d \notin stale /\ Spare(d) = 0 /\ accepted[d] \in Nat
      BY <1>3 DEF HookInv, Calm, CalmDelivery, Spare, TypeOK
    <3>2. CASE job[d] # None
      <4>1. stale' = stale /\ job'[d] = job[d]
        BY <1>4, <1>8, <3>2
      <4> QED
        BY <1>4, <1>5, <1>9, <2>2, <3>1, <4>1 DEF CalmDelivery, Spare
    <3>3. CASE job[d] = None /\ delivery[d].status = "PENDING"
      <4>1. stale' = stale /\ job'[d] = NewJob
        BY <1>4, <1>8, <3>3
      <4> QED
        BY <1>3, <1>4, <1>5, <1>9, <2>2, <3>1, <3>3, <4>1 DEF CalmDelivery, Spare
    <3>4. CASE job[d] = None /\ delivery[d].status # "PENDING"
      <4>1. d \in stale' /\ job'[d] = NewJob /\ Spare(d)' = 1
        BY <1>4, <1>8, <3>4 DEF Spare
      <4> QED
        BY <1>3, <1>4, <1>5, <1>9, <2>2, <3>1, <3>4, <4>1 DEF CalmDelivery
    <3> QED
      BY <3>2, <3>3, <3>4
  <2> QED
    BY <1>5, <2>1, <2>3, <2>4 DEF HookInv, Calm
<1> QED
  BY <1>6, <1>10, <1>11, <1>13, <1>14, <1>15 DEF HookInv

LEMMA AdminStep ==
  ASSUME HookInv, Toggle \/ \E d \in DeliveryIds : Redeliver(d)
  PROVE  HookInv'
<1>1. /\ UNCHANGED <<auditVars, schema, cursor, poll, job, consumer, accepted, stale>>
      /\ toggles' = toggles + 1 /\ toggles + faults < MaxToggles
  BY DEF Toggle, Redeliver
<1>2. UNCHANGED <<lastId, tx, log, heads, checker, verified, faults>>
  BY <1>1 DEF auditVars
<1>3. AuditInv' /\ AuditTypeOK' /\ Rows' = Rows /\ faults \in Nat
  BY <1>2, AuditKept
<1>4. toggles \in 0 .. MaxToggles /\ toggles' \in 0 .. MaxToggles /\ toggles' # 0
  <2>1. toggles \in 0 .. MaxToggles
    BY DEF HookInv, TypeOK
  <2> QED
    BY <1>1, <1>3, <2>1, WebhookAssumption
<1>5. active' \in BOOLEAN /\ up' \in BOOLEAN
  BY DEF Toggle, Redeliver, HookInv, TypeOK
<1>6. /\ delivery' \in [DeliveryIds -> Delivery \cup {None}]
      /\ \A e \in DeliveryIds :
           /\ delivery'[e] = None <=> delivery[e] = None
           /\ delivery[e] # None => delivery'[e].row = delivery[e].row
  <2>0. delivery \in [DeliveryIds -> Delivery \cup {None}]
    BY DEF HookInv, TypeOK
  <2>1. CASE Toggle
    BY <2>0, <2>1 DEF Toggle
  <2>2. CASE \E d \in DeliveryIds : Redeliver(d)
    <3>1. PICK d \in DeliveryIds :
            /\ delivery[d] # None
            /\ delivery' = [delivery EXCEPT ![d].status = "PENDING", ![d].attempts = 0]
      BY <2>2 DEF Redeliver
    <3>2. delivery'[d] = [delivery[d] EXCEPT !.status = "PENDING", !.attempts = 0]
            /\ delivery[d] \in Delivery
      BY <2>0, <3>1
    <3>a. 0 \in 0 .. MaxAttempts
      BY WebhookAssumption
    <3>b. delivery'[d] = [row |-> delivery[d].row, status |-> "PENDING", attempts |-> 0]
      BY <3>2 DEF Delivery
    <3>3. delivery'[d] \in Delivery /\ delivery'[d].row = delivery[d].row
      BY <3>2, <3>a, <3>b DEF Delivery
    <3>4. delivery'[d] # None
      BY <3>3, WebhookAssumption
    <3>5. \A e \in DeliveryIds \ {d} : delivery'[e] = delivery[e]
      BY <2>0, <3>1
    <3> QED
      BY <2>0, <3>1, <3>3, <3>4, <3>5
  <2> QED
    BY <2>1, <2>2
<1>7. TypeOK'
  BY <1>1, <1>3, <1>4, <1>5, <1>6 DEF HookInv, TypeOK
<1>8. Holding'
  BY <1>1, <1>6 DEF HookInv, Holding, Busy
<1>9. Position' = Position /\ (Scanning' <=> Scanning)
  BY <1>1 DEF Position, Scanning
<1>10. PollShape'
  BY <1>1, <1>3, <1>9 DEF HookInv, PollShape
<1>11. Events'
  BY <1>1, <1>2, <1>6, <1>9, EventsStay
<1>12. Calm'
  BY <1>4 DEF Calm
<1> QED
  BY <1>3, <1>7, <1>8, <1>10, <1>11, <1>12 DEF HookInv

LEMMA HookStepInv ==
  ASSUME HookInv, [Next]_vars
  PROVE  HookInv'
<1>1. CASE UNCHANGED vars
  <2>1. UNCHANGED <<lastId, tx, log, heads, checker, verified, faults, schema, active, up, toggles,
                    cursor, poll, delivery, job, consumer, accepted, stale>>
    BY <1>1 DEF vars, auditVars, hookVars
  <2>2. AuditInv' /\ AuditTypeOK' /\ Rows' = Rows
    BY <2>1, AuditKept
  <2>3. TypeOK' /\ Holding'
    BY <2>1, <2>2 DEF HookInv, TypeOK, Holding, Busy
  <2>4. Position' = Position /\ (Scanning' <=> Scanning)
    BY <2>1 DEF Position, Scanning
  <2>5. PollShape'
    BY <2>1, <2>2, <2>4 DEF HookInv, PollShape
  <2>6. Events'
    BY <2>1, <2>4, EventsStay
  <2>7. Calm'
    BY <2>1 DEF HookInv, Calm, CalmTurn, CalmDelivery, Spare, Posted
  <2> QED
    BY <2>2, <2>3, <2>5, <2>6, <2>7 DEF HookInv
<1>2. CASE AuditNext /\ UNCHANGED hookVars
  BY <1>2, AuditStep
<1>3. CASE PollStep
  BY <1>3, PollStandsStill, ReadBatchStep, CreateDeliveryStep, EnqueueStep DEF PollStep
<1>4. ASSUME NEW c \in Consumers, ConsumerStep(c) \/ AnswerTooLate(c) \/ ConsumerDies(c)
      PROVE  HookInv'
  BY <1>4, TakeJobStep, LoadDeliveryStep, RecordStep, PostStep, SettleStep DEF ConsumerStep
<1> QED
  BY <1>1, <1>2, <1>3, <1>4, FaultStep, AdminStep DEF Next, HookNext

LEMMA HookInvariant == Spec => []HookInv
  BY HookInitInv, HookStepInv, PTL DEF Spec

-----------------------------------------------------------------------------
(* The poll, the deliveries, their jobs and consumers keep their types.    *)
THEOREM WebhookTypeCorrect == Spec => []TypeOK
<1>1. HookInv => TypeOK
  BY DEF HookInv
<1> QED
  BY <1>1, HookInvariant, PTL

(* Every event behind the cursor has its one delivery: a second one takes  *)
(* a crash, none at all a row that another had overtaken.                  *)
THEOREM EventsDeliveredOnce == Spec => []EachEventOnce
<1>1. HookInv => EachEventOnce
  <2> SUFFICES ASSUME HookInv, NEW i \in Rows
               PROVE  /\ Cardinality(Of(i)) <= 1 + faults
                      /\ faults = 0 /\ i <= cursor /\ Of(i) = {} =>
                           \E j \in Rows : j > i /\ log[j].place < log[i].place
    BY DEF EachEventOnce
  <2>1. /\ i \in Ids /\ i \in Nat /\ cursor \in Nat /\ poll.at \in Nat /\ faults \in Nat
        /\ Cardinality(Of(i)) \in Nat
    <3>1. i \in Ids /\ Cardinality(Of(i)) \in Nat
      BY WebhookAssumption, FS_Subset, FS_CardinalityType DEF Of, Rows
    <3>2. i \in Nat /\ cursor \in Nat /\ poll.at \in Nat /\ faults \in Nat
      BY <3>1, AuditAssumption DEF Ids, HookInv, TypeOK, AuditTypeOK
    <3> QED
      BY <3>1, <3>2
  <2>2. Cardinality(Of(i)) <= 1 + faults
    BY <2>1 DEF HookInv, Events, Counted
  <2>3. i <= cursor => i <= Position
    BY <2>1 DEF HookInv, PollShape, Position
  <2> QED
    BY <2>2, <2>3 DEF HookInv, Events, Covered, Overtaken
<1> QED
  BY <1>1, HookInvariant, PTL

(* As long as nothing fails and nobody intervenes, the target takes an     *)
(* event once, and once more for a sweep whose list was out of date.       *)
THEOREM SecondPostsExplained == Spec => []TwiceExplained
<1>1. HookInv => TwiceExplained
  BY DEF HookInv, Calm, CalmDelivery, TwiceExplained, Spare
<1> QED
  BY <1>1, HookInvariant, PTL

(* The webhooks only read the log: whatever the poll, the consumers and    *)
(* the administrators do beside it, its writers and checkpoints keep what  *)
(* they promise without them.                                              *)
THEOREM LogUndisturbed ==
  Spec => [](ForksExplained /\ PredecessorInOrder /\ SpineIsWhole /\ UnverifiedExplained)
<1>1. HookInv => ForksExplained /\ PredecessorInOrder /\ SpineIsWhole /\ UnverifiedExplained
  BY DEF HookInv, AuditInv, Chains
<1> QED
  BY <1>1, HookInvariant, PTL
=============================================================================
