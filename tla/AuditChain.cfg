\* Four rows of three transactions in two lanes, two checkpoints, one fault.
SPECIFICATION AuditSpec
CONSTANTS
  t1 = t1  t2 = t2  t3 = t3  l1 = l1  l2 = l2
  None = None
  Txs = {t1, t2, t3}
  Lanes = {l1, l2}
  MaxId = 4
  MaxCheckpoints = 2
  MaxFaults = 1
SYMMETRY Symmetry
INVARIANTS ForksExplained PredecessorInOrder SpineIsWhole UnverifiedExplained
CHECK_DEADLOCK FALSE
