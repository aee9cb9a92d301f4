\* Two rows in one lane, one subscription, two attempts.
SPECIFICATION FairSpec
CONSTANTS
  t1 = t1  t2 = t2  c1 = c1
  None = None
  Txs = {t1, t2}
  Lanes = {1}
  MaxId = 2
  MaxCheckpoints = 0
  MaxFaults = 1
  DeliveryIds = {1, 2, 3}
  Consumers = {c1}
  Tenants = {"public", "tenant"}
  BatchSize = 1
  SweepLimit = 2
  MaxAttempts = 2
  MaxToggles = 1
INVARIANTS EachEventOnce TwiceExplained
PROPERTIES DeliveriesEnd
CHECK_DEADLOCK FALSE
