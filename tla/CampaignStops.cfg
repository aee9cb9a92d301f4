\* A test that holds one of two back, a plain campaign, an SMS one; three requests, no fault.
SPECIFICATION FairSpec
CONSTANTS
  p1 = p1  r1 = r1  a1 = a1  h1 = h1  h2 = h2
  None = None
  Contacts = {1, 2}
  Kinds <- Mixed
  SplitPercents <- Halves
  Segments <- AllOrTwo
  Pollers = {p1}
  Resolvers = {r1}
  Admins = {a1}
  Hooks = {h1}
  Ops = {"schedule", "send", "pause", "resume", "cancel", "edit", "decide"}
  Receipts = {"DELIVERED", "OPENED", "BOUNCED", "FAILED"}
  MaxRequests = 3
  MaxReceipts = 0
  MaxLeaves = 0
  MaxFaults = 0
INVARIANTS TypeOK StopHolds EveryoneReached
PROPERTIES SendingEnds
CHECK_DEADLOCK FALSE
