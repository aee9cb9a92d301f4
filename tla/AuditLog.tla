------------------------------ MODULE AuditLog ------------------------------
(***************************************************************************)
(* The audit log: rows that a trigger chains by hashes, lane by lane, and  *)
(* the job that anchors the lanes' heads and verifies what came since.     *)
(*                                                                         *)
(* A row's id is drawn from a sequence when its INSERT begins; only then   *)
(* does the trigger wait for the lane's lock, which is held to the commit. *)
(* Rows therefore enter a lane in another order than that of their ids,    *)
(* and the trigger takes the highest id for the latest row.  A hash is the *)
(* id of the row it was computed from; a point in time is the number of    *)
(* checkpoints before it.                                                  *)
(***************************************************************************)
EXTENDS Naturals, FiniteSets

CONSTANTS
  Txs,            \* transactions open at a time
  Lanes,          \* lanes of the chain
  MaxId,          \* bound: ids drawn
  MaxCheckpoints, \* bound: checkpoints
  MaxFaults,      \* bound: crashes and the like
  None            \* a null column

Ids == 1 .. MaxId
Row == [lane : Lanes, prev : Ids \cup {None}, created : Nat, committed : Nat, place : Nat]

ASSUME AuditAssumption ==
  /\ MaxId \in Nat /\ MaxCheckpoints \in Nat /\ MaxFaults \in Nat
  /\ None \notin Nat /\ None \notin Row

VARIABLES
  lastId,      \* the sequence
  tx,          \* what each transaction has done
  log,         \* audit_log
  heads,       \* audit_checkpoints: the head of each lane
  checker,     \* the checkpoint being verified; 0 if none
  verified,    \* rows whose hash was recomputed
  faults

auditVars == <<lastId, tx, log, heads, checker, verified, faults>>

Checkpoints == DOMAIN heads
Now == Cardinality(Checkpoints)
Rows == {i \in Ids : log[i] # None}
InLane(l) == {i \in Rows : log[i].lane = l}
IdleTx == [pc |-> "idle", id |-> None, lane |-> None, began |-> 0, prev |-> None]
Locked(l) == \E t \in Txs : tx[t].pc = "chained" /\ tx[t].lane = l

(* ORDER BY id DESC LIMIT 1.                                               *)
IsHead(h, l) ==
  \/ h = None /\ InLane(l) = {}
  \/ h \in InLane(l) /\ \A i \in InLane(l) : i <= h

AuditInit ==
  /\ lastId = 0
  /\ tx = [t \in Txs |-> IdleTx]
  /\ log = [i \in Ids |-> None]
  /\ heads = [n \in {} |-> {}]
  /\ checker = 0
  /\ verified = {}
  /\ faults = 0

-----------------------------------------------------------------------------
DrawId(t, l) ==
  /\ tx[t].pc = "idle" /\ lastId < MaxId
  /\ lastId' = lastId + 1
  /\ tx' = [tx EXCEPT ![t] = [pc |-> "numbered", id |-> lastId + 1, lane |-> l,
                              began |-> Now, prev |-> None]]
  /\ UNCHANGED <<log, heads, checker, verified, faults>>

(* The row's hash is computed from that of h.                              *)
HashOnto(t, h) ==
  tx' = [tx EXCEPT ![t] = [pc |-> "chained", id |-> @.id, lane |-> @.lane, began |-> @.began,
                           prev |-> h]]

(* Fault: nothing orders the writers of a lane.                            *)
ChainUnlocked(t) ==
  /\ tx[t].pc = "numbered"
  /\ \E h \in Ids \cup {None} :
       /\ IsHead(h, tx[t].lane)
       /\ HashOnto(t, h)
  /\ UNCHANGED <<lastId, log, heads, checker, verified, faults>>

(* Fault: the latest row is the one inserted last.                         *)
ChainOnNewest(t) ==
  /\ tx[t].pc = "numbered" /\ ~ Locked(tx[t].lane)
  /\ \E h \in Ids \cup {None} :
       /\ \/ h = None /\ InLane(tx[t].lane) = {}
          \/ h \in InLane(tx[t].lane)
               /\ \A i \in InLane(tx[t].lane) : log[i].place <= log[h].place
       /\ HashOnto(t, h)
  /\ UNCHANGED <<lastId, log, heads, checker, verified, faults>>

(* audit_chain_before_insert: the lock, then the lane's head.              *)
Chain(t) ==
  /\ tx[t].pc = "numbered" /\ ~ Locked(tx[t].lane)
  /\ \E h \in Ids \cup {None} :
       /\ IsHead(h, tx[t].lane)
       /\ HashOnto(t, h)
  /\ UNCHANGED <<lastId, log, heads, checker, verified, faults>>

(* The row becomes visible and the lock is released.                       *)
Commit(t) ==
  /\ tx[t].pc = "chained"
  /\ log' = [log EXCEPT ![tx[t].id] =
       [lane |-> tx[t].lane, prev |-> tx[t].prev, created |-> tx[t].began,
        committed |-> Now, place |-> Cardinality(Rows)]]
  /\ tx' = [tx EXCEPT ![t] = IdleTx]
  /\ UNCHANGED <<lastId, heads, checker, verified, faults>>

Rollback(t) ==
  /\ tx[t].pc # "idle" /\ faults < MaxFaults
  /\ faults' = faults + 1
  /\ tx' = [tx EXCEPT ![t] = IdleTx]
  /\ UNCHANGED <<lastId, log, heads, checker, verified>>

(* Fault: the head of a lane is the row inserted last.                     *)
AnchorNewest ==
  /\ checker = 0 /\ Now < MaxCheckpoints
  /\ heads' = [n \in 1 .. Now + 1 |-> IF n <= Now THEN heads[n]
                 ELSE {i \in Rows : \A o \in InLane(log[i].lane) : log[o].place <= log[i].place}]
  /\ checker' = Now + 1
  /\ UNCHANGED <<lastId, tx, log, verified, faults>>

(* create_audit_checkpoint, after the latest checkpoint was looked up.     *)
CreateCheckpoint ==
  /\ checker = 0 /\ Now < MaxCheckpoints
  /\ heads' = [n \in 1 .. Now + 1 |-> IF n <= Now THEN heads[n]
                 ELSE {i \in Rows : IsHead(i, log[i].lane)}]
  /\ checker' = Now + 1
  /\ UNCHANGED <<lastId, tx, log, verified, faults>>

(* Fault: the window begins at the checkpoint just made.                   *)
VerifyNothing ==
  /\ checker # 0
  /\ verified' = verified \cup {i \in Rows : log[i].created = checker}
  /\ checker' = 0
  /\ UNCHANGED <<lastId, tx, log, heads, faults>>

(* findHashMismatches: the rows created since the checkpoint before it, as *)
(* far as they are visible.                                                *)
Verify ==
  /\ checker # 0
  /\ verified' = verified \cup {i \in Rows : log[i].created = checker - 1}
  /\ checker' = 0
  /\ UNCHANGED <<lastId, tx, log, heads, faults>>

(* The job dies; the next one verifies from the checkpoint it left.        *)
CheckerDies ==
  /\ checker # 0 /\ faults < MaxFaults
  /\ faults' = faults + 1
  /\ checker' = 0
  /\ UNCHANGED <<lastId, tx, log, heads, verified>>

AuditNext ==
  \/ \E t \in Txs : Chain(t) \/ Commit(t) \/ Rollback(t) \/ \E l \in Lanes : DrawId(t, l)
  \/ CreateCheckpoint \/ Verify \/ CheckerDies

AuditSpec == AuditInit /\ [][AuditNext]_auditVars

-----------------------------------------------------------------------------
Tx == [pc : {"idle", "numbered", "chained"}, id : Ids \cup {None}, lane : Lanes \cup {None},
       began : Nat, prev : Ids \cup {None}]

(* Type correctness of the sequence, the transactions, the log and the     *)
(* checkpoints.                                                            *)
AuditTypeOK ==
  /\ lastId \in 0 .. MaxId
  /\ tx \in [Txs -> Tx]
  /\ log \in [Ids -> Row \cup {None}]
  /\ DOMAIN heads \subseteq Nat /\ \A n \in Checkpoints : heads[n] \subseteq Ids
  /\ checker \in Nat
  /\ verified \subseteq Ids
  /\ faults \in Nat

(* A row is in order if it was inserted above everything in its lane.      *)
InOrder(i) == log[i].prev = None \/ log[i].prev < i

(* Two rows of a lane share a predecessor only where an id was overtaken:  *)
(* one of the two lies below that predecessor.                             *)
ForksExplained ==
  \A i, j \in Rows :
    i # j /\ log[i].lane = log[j].lane /\ log[i].prev = log[j].prev
      => log[i].prev # None /\ (i < log[i].prev \/ j < log[i].prev)

(* Every hash in the log was computed from a row of the lane that stays,   *)
(* and that was in order: nothing hangs on a row that was overtaken.       *)
PredecessorInOrder ==
  \A i \in Rows : log[i].prev # None =>
    /\ log[i].prev \in InLane(log[i].lane)
    /\ InOrder(log[i].prev)

(* The rows in order form one chain, which skips none of them, and what a  *)
(* checkpoint anchors is on it: what the highest id leaves unanchored is   *)
(* rows overtaken only.                                                    *)
SpineIsWhole ==
  /\ \A i, j \in Rows :
       log[i].lane = log[j].lane /\ i < j /\ InOrder(i) /\ InOrder(j)
         => log[j].prev # None /\ i <= log[j].prev
  /\ \A n \in Checkpoints : \A i \in heads[n] : i \in Rows /\ InOrder(i)

(* Without a crash, a row no verification has seen belongs to a            *)
(* transaction that was open while a checkpoint was made.                  *)
UnverifiedExplained ==
  faults = 0 =>
    \A i \in Rows \ verified :
      log[i].created < Now /\ log[i].created + 1 # checker => log[i].committed > log[i].created

=============================================================================
